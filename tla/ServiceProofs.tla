----------------------------- MODULE ServiceProofs -----------------------------
(***************************************************************************)
(* Proofs about GitRunner, GitSummary and LoopRuns.                        *)
(*                                                                         *)
(* Commands, for any finite set of requests and any limits. The counters   *)
(* are right because a request is in the queue exactly while it waits, and *)
(* once: so whom pump() starts was not running. Nobody waits beside a free *)
(* slot because pump() leaves only blocked requests behind it, and         *)
(* starting a command blocks more and unblocks none.                       *)
(*                                                                         *)
(* Summaries, for any number of sessions, changes and watches, when no two *)
(* sessions ask for the same folder. Then a git status has one session     *)
(* that waits for it, and began after the watch was tested (Alone); so a   *)
(* summary that may be kept is of the repository as it was at the last     *)
(* change that was taken, and is right while all is quiet.                 *)
(*                                                                         *)
(* Loops: their runs, the users at work meanwhile and the calls that fail  *)
(* leave the tabs and the history in order (TabsAndHistory), and a         *)
(* cancelled loop sends no further step (CancelledSendsNoMore). LoopInv is *)
(* the inductive invariant. A run that has counted the tabs and waits for  *)
(* its own is the head of the chain (OneByOne), so nobody opens a tab      *)
(* between its count and its tab (RoomLeft), and the workspace it is about *)
(* to make has a new number (SpacesNamed). A loop has one run at a time,   *)
(* so keepTab works for it alone, and the tabs it has still to look at are *)
(* in the run's list or in the loop's (KeepsLeft).                         *)
(*                                                                         *)
(* Each step of a run is treated twice: what it does to the records (the   *)
(* lemmas named ...Only), and why the invariant holds after it (...Step),  *)
(* from lemmas on what such steps have in common.                          *)
(***************************************************************************)
EXTENDS GitRunner, GitSummary, LoopRuns, TLAPS, FiniteSetTheorems,
        WellFoundedInduction, NaturalsInduction

-----------------------------------------------------------------------------
(* Commands.                                                               *)

InState(s) == {r \in GitRequests : stage[r] = s}

\* The queue holds the requests that wait, each once.
QueueInv ==
    /\ \A i \in DOMAIN waiting : stage[waiting[i]] = "waiting"
    /\ \A i, j \in DOMAIN waiting : waiting[i] = waiting[j] => i = j

\* pump() has passed only requests that cannot start; without it all are such.
Passed(i) == pumpAt = 0 \/ i < pumpAt
PassedBlocked == \A i \in DOMAIN waiting : Passed(i) => ~canStart(RepoKey[waiting[i]])

LimitsInv == GitTypeOK /\ QueueInv /\ GitLimits
OrderInv == LimitsInv /\ PassedBlocked

-----------------------------------------------------------------------------
\* What RemoveAt leaves.
LEMMA RemoveAtParts ==
    ASSUME NEW S, NEW s \in Seq(S), NEW i \in DOMAIN s
    PROVE  /\ RemoveAt(s, i) \in Seq(S)
           /\ Len(RemoveAt(s, i)) = Len(s) - 1
           /\ DOMAIN RemoveAt(s, i) = 1 .. (Len(s) - 1)
           /\ \A j \in 1 .. (Len(s) - 1) :
                 RemoveAt(s, i)[j] = IF j < i THEN s[j] ELSE s[j + 1]
<1>1. i \in 1 .. Len(s) /\ Len(s) \in Nat
  OBVIOUS
<1> DEFINE a == SubSeq(s, 1, i - 1)
           b == SubSeq(s, i + 1, Len(s))
<1>2. a \in Seq(S) /\ Len(a) = i - 1 /\ \A j \in 1 .. (i - 1) : a[j] = s[j]
  BY <1>1
<1>3. b \in Seq(S) /\ Len(b) = Len(s) - i /\ \A j \in 1 .. (Len(s) - i) : b[j] = s[i + j]
  BY <1>1
<1> HIDE DEF a, b
<1>4. /\ a \o b \in Seq(S) /\ Len(a \o b) = Len(s) - 1
      /\ \A j \in 1 .. (Len(s) - 1) : (a \o b)[j] = IF j < i THEN s[j] ELSE s[j + 1]
  <2>1. a \o b \in Seq(S) /\ Len(a \o b) = Len(s) - 1
    BY <1>1, <1>2, <1>3
  <2>2. ASSUME NEW j \in 1 .. (Len(s) - 1)
        PROVE  (a \o b)[j] = IF j < i THEN s[j] ELSE s[j + 1]
    <3>1. CASE j < i
      BY <1>1, <1>2, <1>3, <3>1
    <3>2. CASE ~(j < i)
      <4>1. j - (i - 1) \in 1 .. (Len(s) - i) /\ j > Len(a)
        BY <1>1, <1>2, <3>2
      <4>2. (a \o b)[j] = b[j - Len(a)]
        <5>1. a \in Seq(S) /\ b \in Seq(S) /\ Len(a) \in Nat /\ Len(b) \in Nat
              /\ j \in 1 .. (Len(a) + Len(b)) /\ ~(j <= Len(a))
          BY SMTT(30), <1>1, <1>2, <1>3, <4>1
        <5> QED  BY <5>1
      <4>3. b[j - (i - 1)] = s[i + (j - (i - 1))] /\ i + (j - (i - 1)) = j + 1
        BY SMTT(30), <1>1, <1>3, <4>1
      <4> QED  BY <1>2, <3>2, <4>2, <4>3
    <3> QED  BY <3>1, <3>2
  <2> QED  BY <2>1, <2>2
<1>5. RemoveAt(s, i) = a \o b
  BY DEF RemoveAt, a, b
<1> QED  BY <1>1, <1>4, <1>5

\* What a start does to the types of what it changes.
LEMMA OccupyType ==
    ASSUME GitTypeOK, NEW r \in GitRequests, Occupy(r)
    PROVE  /\ stage' \in [GitRequests -> {"new", "waiting", "running", "joined", "answered"}]
           /\ active' \in Nat
           /\ perRepo' \in [Repos -> Nat]
<1>1. RepoKey[r] \in Repos
  BY DEF Repos
<1>2. perRepo \in [Repos -> Nat] /\ perRepo[RepoKey[r]] + 1 \in Nat
  BY <1>1 DEF GitTypeOK
<1>3. perRepo' = [perRepo EXCEPT ![RepoKey[r]] = perRepo[RepoKey[r]] + 1]
  BY DEF Occupy
<1>4. perRepo' \in [Repos -> Nat]
  BY <1>2, <1>3
<1>5. stage' = [stage EXCEPT ![r] = "running"] /\ active' = active + 1
      /\ stage \in [GitRequests -> {"new", "waiting", "running", "joined", "answered"}]
      /\ active \in Nat
  BY DEF Occupy, GitTypeOK
<1> QED  BY <1>4, <1>5

\* Starting a request that did not run adds one to the counters of its kind.
LEMMA OccupyCounts ==
    ASSUME IsFiniteSet(GitRequests), GitTypeOK, GitLimits,
           NEW r \in GitRequests, stage[r] # "running", Occupy(r), canStart(RepoKey[r])
    PROVE  GitLimits'
<1> DEFINE on == {q \in GitRequests : stage[q] = "running"}
<1>1. stage' = [stage EXCEPT ![r] = "running"] /\ active' = active + 1
      /\ perRepo' = [perRepo EXCEPT ![RepoKey[r]] = @ + 1]
  BY DEF Occupy
<1>2. {q \in GitRequests : stage'[q] = "running"} = on \cup {r}
  BY <1>1 DEF GitTypeOK
<1>3. IsFiniteSet(on) /\ r \notin on
  BY FS_Subset
<1>4. Cardinality(on \cup {r}) = Cardinality(on) + 1
  BY <1>3, FS_AddElement
<1>5. active' <= maxGlobal
  BY <1>1, GitRunnerAssumption DEF canStart, GitTypeOK
<1>6. ASSUME NEW k \in Repos
      PROVE  perRepo'[k] = Cardinality(Running(k)') /\ perRepo'[k] <= maxPerRepo
  <2>1. CASE k = RepoKey[r]
    <3>1. Running(k)' = Running(k) \cup {r} /\ r \notin Running(k)
      BY <1>1, <2>1 DEF Running, GitTypeOK
    <3>2. IsFiniteSet(Running(k))
      BY FS_Subset DEF Running
    <3>3. Cardinality(Running(k)') = Cardinality(Running(k)) + 1
      BY <3>1, <3>2, FS_AddElement
    <3>4. perRepo'[k] = perRepo[k] + 1
      BY <1>1, <1>6, <2>1 DEF GitTypeOK
    <3>5. perRepo[k] \in Nat /\ perRepo[k] < maxPerRepo /\ perRepo[k] = Cardinality(Running(k))
      BY <1>6, <2>1 DEF canStart, GitTypeOK, GitLimits
    <3> QED  BY <3>3, <3>4, <3>5, GitRunnerAssumption
  <2>2. CASE k # RepoKey[r]
    <3>1. Running(k)' = Running(k) /\ perRepo'[k] = perRepo[k]
      BY <1>1, <1>6, <2>2 DEF Running, GitTypeOK
    <3> QED  BY <1>6, <3>1 DEF GitLimits
  <2> QED  BY <2>1, <2>2
<1> QED  BY <1>1, <1>2, <1>4, <1>5, <1>6 DEF GitLimits

\* A start, from the queue or not, leaves everybody blocked who was.
LEMMA OccupyBlocks ==
    ASSUME GitTypeOK, NEW r \in GitRequests, Occupy(r), NEW k \in Repos, ~canStart(k)
    PROVE  ~canStart(k)'
<1>1. active' = active + 1 /\ active \in Nat /\ maxGlobal \in Nat /\ maxPerRepo \in Nat
  BY GitRunnerAssumption DEF Occupy, GitTypeOK
<1>2. perRepo[k] \in Nat /\ (perRepo'[k] = perRepo[k] \/ perRepo'[k] = perRepo[k] + 1)
  BY DEF Occupy, GitTypeOK
<1> QED  BY <1>1, <1>2 DEF canStart

-----------------------------------------------------------------------------
LEMMA LimitsInit == ASSUME IsFiniteSet(GitRequests), GitInit PROVE LimitsInv
<1>1. GitTypeOK
  BY DEF GitInit, GitTypeOK
<1>2. QueueInv
  BY DEF GitInit, QueueInv
<1>3. {r \in GitRequests : stage[r] = "running"} = {} /\ \A k \in Repos : Running(k) = {}
  BY DEF GitInit, Running
<1>4. Cardinality({}) = 0
  BY FS_EmptySet
<1>5. GitLimits
  <2>1. \A k \in Repos : perRepo[k] = 0
    BY DEF GitInit
  <2>2. active = 0 /\ maxGlobal \in Nat /\ maxPerRepo \in Nat
    BY GitRunnerAssumption DEF GitInit
  <2>3. active = Cardinality({r \in GitRequests : stage[r] = "running"}) /\ active <= maxGlobal
    BY <1>3, <1>4, <2>2
  <2>4. \A k \in Repos : perRepo[k] = Cardinality(Running(k)) /\ perRepo[k] <= maxPerRepo
    BY <1>3, <1>4, <2>1, <2>2
  <2> QED  BY <2>3, <2>4 DEF GitLimits
<1> QED  BY <1>1, <1>2, <1>5 DEF LimitsInv

\* A step that leaves counters and running requests alone.
LEMMA SameRunning ==
    ASSUME GitLimits, UNCHANGED <<active, perRepo>>,
           \A q \in GitRequests : stage'[q] = "running" <=> stage[q] = "running"
    PROVE  GitLimits'
<1>1. /\ {q \in GitRequests : stage'[q] = "running"} = {q \in GitRequests : stage[q] = "running"}
      /\ \A k \in Repos : Running(k)' = Running(k)
  BY DEF Running
<1> QED  BY <1>1 DEF GitLimits

LEMMA EndKeepsLimits ==
    ASSUME IsFiniteSet(GitRequests), LimitsInv, NEW r \in GitRequests, End(r)
    PROVE  LimitsInv'
<1> DEFINE on == {q \in GitRequests : stage[q] = "running"}
<1> USE DEF LimitsInv
<1>1. /\ pumpAt = 0 /\ stage[r] = "running" /\ waiting' = waiting /\ pumpAt' = 1
      /\ active' = active - 1 /\ perRepo' = [perRepo EXCEPT ![RepoKey[r]] = @ - 1]
      /\ \A q \in GitRequests :
            /\ stage'[q] \in {stage[q], "answered"}
            /\ stage'[q] # stage[q] => q = r \/ stage[q] = "joined"
      /\ stage'[r] = "answered"
      /\ stage' \in [GitRequests -> {"new", "waiting", "running", "joined", "answered"}]
  BY DEF End, FirstToPump, GitTypeOK
<1>2. {q \in GitRequests : stage'[q] = "running"} = on \ {r} /\ r \in on
  BY <1>1 DEF GitTypeOK
<1>3. IsFiniteSet(on)
  BY FS_Subset
<1>4. Cardinality(on \ {r}) = Cardinality(on) - 1 /\ Cardinality(on) \in Nat
  BY <1>2, <1>3, FS_RemoveElement, FS_CardinalityType
<1>5. active - 1 = Cardinality(on \ {r}) /\ active \in Nat
  BY <1>4 DEF GitLimits, GitTypeOK
<1>6. Cardinality(on \ {r}) \in Nat
  BY <1>3, FS_RemoveElement, FS_CardinalityType
<1>7. ASSUME NEW k \in Repos
      PROVE  perRepo'[k] = Cardinality(Running(k)') /\ perRepo'[k] <= maxPerRepo
             /\ perRepo'[k] \in Nat
  <2>1. IsFiniteSet(Running(k)) /\ perRepo[k] \in Nat /\ perRepo[k] = Cardinality(Running(k))
        /\ perRepo[k] <= maxPerRepo
    BY <1>7, FS_Subset DEF Running, GitTypeOK, GitLimits
  <2>2. CASE k = RepoKey[r]
    <3>1. Running(k)' = Running(k) \ {r} /\ r \in Running(k)
      BY <1>1, <2>2 DEF Running, GitTypeOK
    <3>2. /\ Cardinality(Running(k)') = Cardinality(Running(k)) - 1
          /\ Cardinality(Running(k)') \in Nat
      BY <2>1, <3>1, FS_RemoveElement, FS_CardinalityType
    <3>3. perRepo'[k] = perRepo[k] - 1
      BY <1>1, <1>7, <2>2 DEF GitTypeOK
    <3> QED  BY <2>1, <3>2, <3>3, GitRunnerAssumption
  <2>3. CASE k # RepoKey[r]
    <3>1. Running(k)' = Running(k) /\ perRepo'[k] = perRepo[k]
      BY <1>1, <1>7, <2>3 DEF Running, GitTypeOK
    <3> QED  BY <2>1, <3>1
  <2> QED  BY <2>2, <2>3
<1>8. GitLimits'
  <2>1. active' = Cardinality({q \in GitRequests : stage'[q] = "running"})
    BY <1>1, <1>2, <1>5
  <2>2. active' <= maxGlobal
    BY <1>1, <1>5, <1>6, GitRunnerAssumption DEF GitLimits
  <2> QED  BY <2>1, <2>2, <1>7 DEF GitLimits
<1>9. GitTypeOK'
  <2>1. active' \in Nat
    BY <1>1, <1>5, <1>6
  <2>2. perRepo' \in [Repos -> Nat]
    BY <1>1, <1>7 DEF GitTypeOK
  <2> QED  BY <1>1, <2>1, <2>2 DEF GitTypeOK
<1>10. QueueInv'
  <2>1. ASSUME NEW i \in DOMAIN waiting PROVE stage'[waiting[i]] = "waiting"
    <3>1. waiting[i] \in GitRequests /\ stage[waiting[i]] = "waiting"
      BY DEF QueueInv, GitTypeOK
    <3> QED  BY <1>1, <3>1
  <2> QED  BY <1>1, <2>1 DEF QueueInv
<1> QED  BY <1>8, <1>9, <1>10

LEMMA PumpStartKeepsLimits ==
    ASSUME IsFiniteSet(GitRequests), LimitsInv, PumpStart
    PROVE  LimitsInv'
<1> USE DEF LimitsInv
<1> DEFINE r == waiting[pumpAt]
<1>1. r \in GitRequests /\ stage[r] = "waiting" /\ canStart(RepoKey[r]) /\ Occupy(r)
      /\ waiting' = RemoveAt(waiting, pumpAt) /\ pumpAt' = pumpAt /\ pumpAt \in DOMAIN waiting
      /\ waiting \in Seq(GitRequests)
  BY DEF PumpStart, QueueInv, GitTypeOK
<1> HIDE DEF r
<1>2. GitLimits'
  BY <1>1, OccupyCounts
<1>3. GitTypeOK'
  <2>1. waiting' \in Seq(GitRequests)
    BY <1>1, RemoveAtParts
  <2>2. /\ stage' \in [GitRequests -> {"new", "waiting", "running", "joined", "answered"}]
        /\ active' \in Nat /\ perRepo' \in [Repos -> Nat]
    BY <1>1, OccupyType
  <2> QED  BY <1>1, <2>1, <2>2 DEF GitTypeOK
<1>4. QueueInv'
  <2>1. /\ DOMAIN waiting' = 1 .. (Len(waiting) - 1) /\ Len(waiting) \in Nat
        /\ DOMAIN waiting = 1 .. Len(waiting) /\ pumpAt \in 1 .. Len(waiting)
        /\ \A j \in 1 .. (Len(waiting) - 1) :
              waiting'[j] = IF j < pumpAt THEN waiting[j] ELSE waiting[j + 1]
    BY <1>1, RemoveAtParts
  <2> DEFINE From(j) == IF j < pumpAt THEN j ELSE j + 1
  <2>2. ASSUME NEW j \in DOMAIN waiting'
        PROVE  From(j) \in DOMAIN waiting /\ waiting'[j] = waiting[From(j)] /\ From(j) # pumpAt
    BY <2>1
  <2>3. ASSUME NEW j \in DOMAIN waiting' PROVE stage'[waiting'[j]] = "waiting"
    <3>1. waiting'[j] = waiting[From(j)] /\ stage[waiting[From(j)]] = "waiting"
          /\ waiting[From(j)] # r /\ waiting[From(j)] \in GitRequests
      BY <1>1, <2>2 DEF QueueInv, GitTypeOK, r
    <3> QED  BY <1>1, <3>1 DEF Occupy, GitTypeOK
  <2>4. ASSUME NEW i \in DOMAIN waiting', NEW j \in DOMAIN waiting', waiting'[i] = waiting'[j]
        PROVE  i = j
    <3>1. From(i) = From(j)
      BY <2>2, <2>4 DEF QueueInv
    <3> QED  BY <2>1, <3>1
  <2> QED  BY <2>3, <2>4 DEF QueueInv
<1> QED  BY <1>2, <1>3, <1>4

\* The counters are right and stay within the limits, step by step.
LEMMA LimitsStep ==
    ASSUME IsFiniteSet(GitRequests), LimitsInv, [GitNext]_gitVars
    PROVE  LimitsInv'
<1>1. CASE UNCHANGED gitVars
  <2>1. GitLimits'
    BY <1>1, SameRunning DEF LimitsInv, gitVars
  <2> QED  BY <1>1, <2>1 DEF LimitsInv, gitVars, GitTypeOK, QueueInv
<1>2. ASSUME NEW r \in GitRequests, Join(r) PROVE LimitsInv'
  <2>1. /\ stage[r] = "new" /\ stage' = [stage EXCEPT ![r] = "joined"]
        /\ UNCHANGED <<active, perRepo, waiting, pumpAt>>
    BY <1>2 DEF Join, IsAsked
  <2>2. GitLimits'
    BY <2>1, SameRunning DEF LimitsInv, GitTypeOK
  <2>3. GitTypeOK' /\ QueueInv'
    BY <2>1 DEF LimitsInv, GitTypeOK, QueueInv
  <2> QED  BY <2>2, <2>3 DEF LimitsInv
<1>3. ASSUME NEW r \in GitRequests, StartNow(r) PROVE LimitsInv'
  <2>1. /\ stage[r] = "new" /\ Occupy(r) /\ canStart(RepoKey[r])
        /\ UNCHANGED <<waiting, pumpAt>>
    BY <1>3 DEF StartNow, IsAsked
  <2>2. GitLimits'
    BY <2>1, OccupyCounts DEF LimitsInv
  <2>3. GitTypeOK'
    <3>1. /\ stage' \in [GitRequests -> {"new", "waiting", "running", "joined", "answered"}]
          /\ active' \in Nat /\ perRepo' \in [Repos -> Nat]
      BY <2>1, OccupyType DEF LimitsInv
    <3> QED  BY <2>1, <3>1 DEF LimitsInv, GitTypeOK
  <2>4. QueueInv'
    BY <2>1 DEF LimitsInv, GitTypeOK, QueueInv, Occupy
  <2> QED  BY <2>2, <2>3, <2>4 DEF LimitsInv
<1>4. ASSUME NEW r \in GitRequests, Wait(r) PROVE LimitsInv'
  <2>1. /\ stage[r] = "new" /\ stage' = [stage EXCEPT ![r] = "waiting"]
        /\ waiting' = Append(waiting, r) /\ UNCHANGED <<active, perRepo, pumpAt>>
    BY <1>4 DEF Wait, IsAsked
  <2>2. GitLimits'
    BY <2>1, SameRunning DEF LimitsInv, GitTypeOK
  <2>3. GitTypeOK'
    BY <2>1 DEF LimitsInv, GitTypeOK
  <2>4. /\ waiting \in Seq(GitRequests) /\ DOMAIN waiting = 1 .. Len(waiting) /\ Len(waiting) \in Nat
        /\ DOMAIN waiting' = 1 .. (Len(waiting) + 1) /\ waiting'[Len(waiting) + 1] = r
        /\ \A i \in DOMAIN waiting : waiting'[i] = waiting[i] /\ waiting[i] # r
                                     /\ waiting[i] \in GitRequests
    BY <2>1 DEF LimitsInv, GitTypeOK, QueueInv
  <2>5. ASSUME NEW i \in DOMAIN waiting' PROVE stage'[waiting'[i]] = "waiting"
    BY <2>1, <2>4 DEF LimitsInv, GitTypeOK, QueueInv
  <2>6. ASSUME NEW i \in DOMAIN waiting', NEW j \in DOMAIN waiting', waiting'[i] = waiting'[j]
        PROVE  i = j
    BY <2>4, <2>6 DEF LimitsInv, QueueInv
  <2> QED  BY <2>2, <2>3, <2>5, <2>6 DEF LimitsInv, QueueInv
<1>5. ASSUME NEW r \in GitRequests, End(r) PROVE LimitsInv'
  BY <1>5, EndKeepsLimits
<1>6. CASE PumpStart
  BY <1>6, PumpStartKeepsLimits
<1>7. CASE PumpPass
  <2>1. GitLimits'
    BY <1>7, SameRunning DEF LimitsInv, PumpPass
  <2> QED  BY <1>7, <2>1 DEF LimitsInv, PumpPass, PastBlocked, GitTypeOK, QueueInv
<1>8. CASE PumpDone
  <2>1. GitLimits'
    BY <1>8, SameRunning DEF LimitsInv, PumpDone
  <2> QED  BY <1>8, <2>1 DEF LimitsInv, PumpDone, GitTypeOK, QueueInv
<1> QED  BY <1>1, <1>2, <1>3, <1>4, <1>5, <1>6, <1>7, <1>8 DEF GitNext

\* A blocked request stays blocked, and what pump() has passed was blocked.
LEMMA BlockedStep ==
    ASSUME OrderInv, [GitNext]_gitVars
    PROVE  PassedBlocked'
<1> USE DEF OrderInv
<1>0. /\ waiting \in Seq(GitRequests) /\ DOMAIN waiting = 1 .. Len(waiting) /\ Len(waiting) \in Nat
      /\ pumpAt \in Nat /\ GitTypeOK
      /\ \A i \in DOMAIN waiting : waiting[i] \in GitRequests /\ RepoKey[waiting[i]] \in Repos
  BY DEF LimitsInv, GitTypeOK, Repos
<1>1. ASSUME UNCHANGED <<active, perRepo, waiting, pumpAt>> PROVE PassedBlocked'
  BY <1>1 DEF PassedBlocked, Passed, canStart
<1>2. ASSUME NEW r \in GitRequests, StartNow(r) PROVE PassedBlocked'
  <2>1. Occupy(r) /\ waiting' = waiting /\ pumpAt' = pumpAt
    BY <1>2 DEF StartNow
  <2>2. ASSUME NEW i \in DOMAIN waiting, Passed(i) PROVE ~canStart(RepoKey[waiting[i]])'
    <3>1. ~canStart(RepoKey[waiting[i]]) /\ RepoKey[waiting[i]] \in Repos
      BY <1>0, <2>2 DEF PassedBlocked
    <3>2. ~(active' < maxGlobal /\ perRepo'[RepoKey[waiting[i]]] < maxPerRepo)
      BY <1>0, <2>1, <3>1, OccupyBlocks DEF canStart
    <3> QED  BY <2>1, <3>2 DEF canStart
  <2> QED  BY <2>1, <2>2 DEF PassedBlocked, Passed
<1>3. ASSUME NEW r \in GitRequests, Wait(r) PROVE PassedBlocked'
  <2>1. /\ pumpAt = 0 /\ ~canStart(RepoKey[r]) /\ waiting' = Append(waiting, r)
        /\ UNCHANGED <<active, perRepo, pumpAt>>
    BY <1>3 DEF Wait, IsAsked
  <2>2. ASSUME NEW i \in DOMAIN waiting' PROVE ~canStart(RepoKey[waiting'[i]])
    <3>1. CASE i = Len(waiting) + 1
      BY <1>0, <2>1, <3>1
    <3>2. CASE i \in DOMAIN waiting
      BY <1>0, <2>1, <3>2 DEF PassedBlocked, Passed
    <3> QED  BY <1>0, <2>1, <2>2, <3>1, <3>2
  <2> QED  BY <2>1, <2>2 DEF PassedBlocked, canStart
<1>4. ASSUME NEW r \in GitRequests, End(r) PROVE PassedBlocked'
  <2>1. pumpAt' = 1 /\ waiting' = waiting
    BY <1>4 DEF End, FirstToPump
  <2> QED  BY <1>0, <2>1 DEF PassedBlocked, Passed
<1>5. CASE PumpStart
  <2> DEFINE r == waiting[pumpAt]
  <2>1. /\ pumpAt \in DOMAIN waiting /\ Occupy(r) /\ r \in GitRequests
        /\ waiting' = RemoveAt(waiting, pumpAt) /\ pumpAt' = pumpAt
    BY <1>0, <1>5 DEF PumpStart
  <2> HIDE DEF r
  <2>2. ASSUME NEW i \in DOMAIN waiting', i < pumpAt
        PROVE  ~(active' < maxGlobal /\ perRepo'[RepoKey[waiting'[i]]] < maxPerRepo)
    <3>1. i \in DOMAIN waiting /\ waiting'[i] = waiting[i]
      <4>1. /\ DOMAIN waiting' = 1 .. (Len(waiting) - 1)
            /\ \A j \in 1 .. (Len(waiting) - 1) :
                  waiting'[j] = IF j < pumpAt THEN waiting[j] ELSE waiting[j + 1]
        BY <1>0, <2>1, RemoveAtParts
      <4> QED  BY <1>0, <2>2, <4>1
    <3>2. ~canStart(RepoKey[waiting[i]]) /\ RepoKey[waiting[i]] \in Repos
      BY <1>0, <2>2, <3>1 DEF PassedBlocked, Passed
    <3>3. ~(active' < maxGlobal /\ perRepo'[RepoKey[waiting[i]]] < maxPerRepo)
      BY <1>0, <2>1, <3>2, OccupyBlocks DEF canStart
    <3> QED  BY <3>1, <3>3
  <2>3. pumpAt' # 0
    BY <1>0, <2>1
  <2> QED  BY <2>1, <2>2, <2>3 DEF PassedBlocked, Passed, canStart
<1>6. CASE PumpPass
  <2>1. /\ pumpAt \in DOMAIN waiting /\ ~canStart(RepoKey[waiting[pumpAt]])
        /\ pumpAt' = pumpAt + 1 /\ UNCHANGED <<active, perRepo, waiting>>
    BY <1>6 DEF PumpPass, PastBlocked
  <2>2. ASSUME NEW i \in DOMAIN waiting, i < pumpAt + 1 PROVE ~canStart(RepoKey[waiting[i]])
    <3>1. CASE i = pumpAt
      BY <2>1, <3>1
    <3>2. CASE i < pumpAt
      BY <3>2 DEF PassedBlocked, Passed
    <3> QED  BY <1>0, <2>1, <2>2, <3>1, <3>2
  <2>3. pumpAt + 1 # 0
    BY <1>0
  <2> QED  BY <2>1, <2>2, <2>3 DEF PassedBlocked, Passed, canStart
<1>7. CASE PumpDone
  <2>1. pumpAt > Len(waiting) /\ UNCHANGED <<active, perRepo, waiting>>
    BY <1>7 DEF PumpDone
  <2>2. ASSUME NEW i \in DOMAIN waiting PROVE ~canStart(RepoKey[waiting[i]])
    BY <1>0, <2>1 DEF PassedBlocked, Passed
  <2> QED  BY <2>1, <2>2 DEF PassedBlocked, canStart
<1>8. ASSUME NEW r \in GitRequests, Join(r) PROVE PassedBlocked'
  BY <1>1, <1>8 DEF Join
<1>9. CASE UNCHANGED gitVars
  BY <1>1, <1>9 DEF gitVars
<1> QED  BY <1>2, <1>3, <1>4, <1>5, <1>6, <1>7, <1>8, <1>9 DEF GitNext

-----------------------------------------------------------------------------
\* The limits hold whatever order the commands end in: GitLimits, for gitRunner.ts
\* acquire, release and pump.
THEOREM LimitsHold ==
    ASSUME IsFiniteSet(GitRequests)
    PROVE  GitSpec => []GitLimits
<1>1. GitInit => LimitsInv
  BY LimitsInit
<1>2. LimitsInv /\ [GitNext]_gitVars => LimitsInv'
  BY LimitsStep
<1>3. LimitsInv => GitLimits
  BY DEF LimitsInv
<1> QED  BY <1>1, <1>2, <1>3, PTL DEF GitSpec

\* The invariant about whom pump() has passed, for the two theorems below.
LEMMA OrderHolds ==
    ASSUME IsFiniteSet(GitRequests)
    PROVE  GitSpec => []OrderInv
<1>1. GitInit => OrderInv
  BY LimitsInit DEF OrderInv, PassedBlocked, GitInit
<1>2. OrderInv /\ [GitNext]_gitVars => OrderInv'
  BY LimitsStep, BlockedStep DEF OrderInv
<1> QED  BY <1>1, <1>2, PTL DEF GitSpec

\* No request waits while there is a slot for it, once pump() is through.
THEOREM NoneIdle ==
    ASSUME IsFiniteSet(GitRequests)
    PROVE  GitSpec => []GitNoneIdle
<1>1. OrderInv => GitNoneIdle
  BY DEF OrderInv, PassedBlocked, Passed, GitNoneIdle
<1> QED  BY <1>1, OrderHolds, PTL

\* The slots are within their limits and none is left unused: SlotsWellUsed, for acquire,
\* release and pump of gitRunner.ts.
THEOREM SlotsAreUsed ==
    ASSUME IsFiniteSet(GitRequests)
    PROVE  GitSpec => []SlotsWellUsed
<1> QED  BY LimitsHold, NoneIdle, PTL DEF SlotsWellUsed

\* A step starts no request before an older one of its repository: the older ones are blocked,
\* and what blocks them blocks it.
LEMMA InOrderStep ==
    ASSUME OrderInv, GitNext, NEW r \in GitRequests, stage[r] # "running",
           stage'[r] = "running", NEW i \in DOMAIN waiting, RepoKey[waiting[i]] = RepoKey[r]
    PROVE  \E j \in 1 .. i : waiting[j] = r
<1>0. /\ GitTypeOK /\ DOMAIN waiting = 1 .. Len(waiting) /\ Len(waiting) \in Nat
      /\ stage \in [GitRequests -> {"new", "waiting", "running", "joined", "answered"}]
  BY DEF OrderInv, LimitsInv, GitTypeOK
<1>1. ASSUME NEW q \in GitRequests, Occupy(q) PROVE q = r
  BY <1>0, <1>1 DEF Occupy
<1>2. ASSUME NEW q \in GitRequests, StartNow(q) PROVE FALSE
  <2>1. pumpAt = 0 /\ canStart(RepoKey[q]) /\ q = r
    BY <1>1, <1>2 DEF StartNow, IsAsked
  <2> QED  BY <2>1 DEF OrderInv, PassedBlocked, Passed
<1>3. CASE PumpStart
  <2>1. /\ pumpAt \in DOMAIN waiting /\ canStart(RepoKey[waiting[pumpAt]])
        /\ waiting[pumpAt] = r
    <3>1. pumpAt \in DOMAIN waiting /\ Occupy(waiting[pumpAt]) /\ waiting[pumpAt] \in GitRequests
          /\ canStart(RepoKey[waiting[pumpAt]])
      BY <1>0, <1>3 DEF PumpStart, GitTypeOK
    <3> QED  BY <1>1, <3>1
  <2>2. ~(i < pumpAt)
    BY <2>1 DEF OrderInv, PassedBlocked, Passed
  <2> QED  BY <1>0, <2>1, <2>2
<1>4. ASSUME NEW q \in GitRequests, Join(q) \/ Wait(q) \/ End(q) PROVE FALSE
  <2>1. stage'[r] # "running" \/ stage'[r] = stage[r]
    BY <1>0, <1>4 DEF Join, Wait, End
  <2> QED  BY <2>1
<1>5. CASE PumpPass \/ PumpDone
  BY <1>5 DEF PumpPass, PumpDone
<1> QED  BY <1>2, <1>3, <1>4, <1>5 DEF GitNext

\* The commands of one repository start in the order they were asked for.
THEOREM StartsInOrder ==
    ASSUME IsFiniteSet(GitRequests)
    PROVE  GitSpec => GitInOrder
<1> DEFINE InOrder ==
      \A r \in GitRequests : stage[r] # "running" /\ stage'[r] = "running"
        => \A i \in DOMAIN waiting :
              RepoKey[waiting[i]] = RepoKey[r] => \E j \in 1 .. i : waiting[j] = r
<1>1. OrderInv /\ [GitNext]_gitVars => [InOrder]_gitVars
  BY InOrderStep
<1> QED  BY <1>1, OrderHolds, PTL DEF GitSpec, GitInOrder

-----------------------------------------------------------------------------
(* Summaries.                                                              *)
OwnFolders == \A s, t \in GitSessions : Folder[s] = Folder[t] => s = t

WatchType == [id : Nat, changed : BOOLEAN, failed : BOOLEAN, generation : Nat,
              results : [Folders -> Nat]]
StatusType == [runs : BOOLEAN, read : Nat]
AskedType == [at : {"idle", "status", "lookups"}, watch : Nat, generation : Nat, read : Nat]

SummaryTypes ==
    /\ version \in Nat /\ unreported \in BOOLEAN
    /\ watch \in WatchType
    /\ status \in [Folders -> StatusType]
    /\ asked \in [GitSessions -> AskedType]

Quiet == ~unreported /\ ~watch.changed /\ ~watch.failed

\* A git status runs for the one session that waits for it.
Alone(s) ==
    /\ status[Folder[s]].runs => asked[s].at = "status"
    /\ ~status[Folder[s]].runs => status[Folder[s]].read = NoSummary

\* What was asked was asked of this watch or an earlier one, before the next change it takes.
Before(s) ==
    asked[s].at # "idle" =>
        /\ asked[s].watch <= watch.id
        /\ asked[s].watch = watch.id => asked[s].generation <= watch.generation

\* What s has read, and may keep, is the content of now.
Fresh(s) ==
    Quiet /\ MayKeep(asked[s]) =>
        /\ asked[s].at = "lookups" => asked[s].read = version
        /\ asked[s].at = "status" => status[Folder[s]].read \in {NoSummary, version}

SummaryInv ==
    /\ SummaryTypes
    /\ \A s \in GitSessions : Alone(s) /\ Before(s) /\ Fresh(s)
    /\ KeptIsRight

-----------------------------------------------------------------------------
LEMMA SummaryInitInv == ASSUME SummaryInit PROVE SummaryInv
<1>1. NewWatch(1) \in WatchType /\ NoStatus \in StatusType /\ NotAsked \in AskedType
  BY DEF NewWatch, NoStatus, NotAsked, NoSummary, WatchType, StatusType, AskedType
<1>2. SummaryTypes
  BY <1>1 DEF SummaryInit, SummaryTypes
<1>3. \A s \in GitSessions : asked[s].at = "idle" /\ Folder[s] \in Folders
  BY DEF SummaryInit, NotAsked, Folders
<1>4. \A f \in Folders : ~status[f].runs /\ status[f].read = NoSummary
  BY DEF SummaryInit, NoStatus
<1>5. \A f \in Folders : watch.results[f] = NoSummary
  BY DEF SummaryInit, NewWatch
<1> QED  BY <1>2, <1>3, <1>4, <1>5 DEF SummaryInv, Alone, Before, Fresh, KeptIsRight

\* The content of the repository changes, or a change is reported, or the watch fails: then
\* nothing is quiet.
LEMMA LoudInv ==
    ASSUME SummaryInv, Change \/ Report \/ WatchFails
    PROVE  SummaryInv'
<1>1. /\ asked' = asked /\ status' = status /\ version' \in Nat /\ unreported' \in BOOLEAN
      /\ watch' \in WatchType /\ watch'.id = watch.id /\ watch'.generation = watch.generation
      /\ unreported' \/ watch'.changed \/ watch'.failed
  <2>1. version \in Nat /\ unreported \in BOOLEAN /\ watch \in WatchType
    BY DEF SummaryInv, SummaryTypes
  <2>2. CASE Change
    BY <2>1, <2>2 DEF Change
  <2>3. CASE Report
    <3>1. watch' = [watch EXCEPT !.changed = TRUE]
      BY <2>3 DEF Report
    <3>2. /\ watch' \in WatchType /\ watch'.id = watch.id /\ watch'.changed
          /\ watch'.generation = watch.generation
      BY <2>1, <3>1 DEF WatchType
    <3> QED  BY <2>1, <2>3, <3>2 DEF Report
  <2>4. CASE WatchFails
    <3>1. watch' = [watch EXCEPT !.failed = TRUE]
      BY <2>4 DEF WatchFails
    <3>2. /\ watch' \in WatchType /\ watch'.id = watch.id /\ watch'.failed
          /\ watch'.generation = watch.generation
      BY <2>1, <3>1 DEF WatchType
    <3> QED  BY <2>1, <2>4, <3>2 DEF WatchFails
  <2> QED  BY <2>2, <2>3, <2>4
<1>2. SummaryTypes'
  BY <1>1 DEF SummaryInv, SummaryTypes
<1>3. \A s \in GitSessions : Alone(s)' /\ Before(s)' /\ Fresh(s)'
  BY <1>1 DEF SummaryInv, Alone, Before, Fresh, Quiet
<1>4. KeptIsRight'
  BY <1>1 DEF KeptIsRight
<1> QED  BY <1>2, <1>3, <1>4 DEF SummaryInv

\* The watch a session asks: the one of now, or a later one, or a later generation of it, that
\* has kept nothing.
LEMMA Asks ==
    ASSUME SummaryTypes, NEW w, w = TakeChanged(CurrentWatch)
    PROVE  /\ w \in WatchType /\ ~w.changed /\ ~w.failed
           /\ \/ w = watch /\ ~watch.changed /\ ~watch.failed
              \/ /\ w.id > watch.id \/ (w.id = watch.id /\ w.generation > watch.generation)
                 /\ \A f \in Folders : w.results[f] = NoSummary
<1>1. watch.id + 1 \in Nat /\ NewWatch(watch.id + 1) \in WatchType
  BY DEF SummaryTypes, WatchType, NewWatch, NoSummary
<1>2. CASE watch.failed
  <2>1. w = NewWatch(watch.id + 1)
    BY <1>2 DEF TakeChanged, CurrentWatch, NewWatch
  <2>2. /\ w.id = watch.id + 1 /\ ~w.changed /\ ~w.failed
        /\ \A f \in Folders : w.results[f] = NoSummary
    BY <2>1 DEF NewWatch
  <2>3. watch.id \in Nat
    BY DEF SummaryTypes, WatchType
  <2> QED  BY <1>1, <2>1, <2>2, <2>3
<1>3. CASE ~watch.failed /\ watch.changed
  <2>1. w = [watch EXCEPT !.changed = FALSE, !.generation = @ + 1,
                          !.results = [f \in Folders |-> NoSummary]]
    BY <1>3 DEF TakeChanged, CurrentWatch
  <2>2. /\ w.id = watch.id /\ w.generation = watch.generation + 1 /\ w.generation > watch.generation
        /\ w.changed = FALSE /\ w.failed = watch.failed
        /\ w.results = [f \in Folders |-> NoSummary]
    BY <2>1 DEF SummaryTypes, WatchType
  <2>3. w \in WatchType
    <3>1. watch \in WatchType
      BY DEF SummaryTypes
    <3>2. w = [id |-> watch.id, changed |-> FALSE, failed |-> watch.failed,
               generation |-> watch.generation + 1, results |-> [f \in Folders |-> NoSummary]]
      BY <2>1, <3>1 DEF WatchType
    <3>3. [f \in Folders |-> NoSummary] \in [Folders -> Nat]
      BY DEF NoSummary
    <3> QED  BY <3>1, <3>2, <3>3 DEF WatchType
  <2> QED  BY <1>3, <2>2, <2>3
<1>4. CASE ~watch.failed /\ ~watch.changed
  <2>1. w = watch
    BY <1>4 DEF TakeChanged, CurrentWatch
  <2> QED  BY <1>4, <2>1 DEF SummaryTypes
<1> QED  BY <1>2, <1>3, <1>4

LEMMA AskInv ==
    ASSUME OwnFolders, SummaryInv, NEW s \in GitSessions, AskSummary(s)
    PROVE  SummaryInv'
<1> DEFINE f == Folder[s]
           w == TakeChanged(CurrentWatch)
           a == [at |-> "status", watch |-> w.id, generation |-> w.generation, read |-> NoSummary]
<1>1. /\ SummaryTypes /\ f \in Folders /\ asked[s].at = "idle" /\ version' = version
      /\ unreported' = (unreported /\ ~watch.failed)
      /\ \/ /\ watch' = w /\ UNCHANGED <<status, asked>>
         \/ /\ watch' = [w EXCEPT !.results[f] = NoSummary]
            /\ asked' = [asked EXCEPT ![s] = a]
            /\ status' = [status EXCEPT ![f].runs = TRUE]
  BY DEF SummaryInv, AskSummary, Folders
<1>2. /\ w \in WatchType /\ ~w.changed /\ ~w.failed
      /\ \/ w = watch /\ ~watch.changed /\ ~watch.failed
         \/ /\ w.id > watch.id \/ (w.id = watch.id /\ w.generation > watch.generation)
            /\ \A g \in Folders : w.results[g] = NoSummary
  BY <1>1, Asks
<1> HIDE DEF w, f
<1>3. /\ watch' \in WatchType /\ watch'.id = w.id /\ watch'.generation = w.generation
      /\ watch'.changed = w.changed /\ watch'.failed = w.failed
      /\ \A g \in Folders : watch'.results[g] \in {NoSummary, w.results[g]}
  BY <1>1, <1>2 DEF WatchType, NoSummary
<1>4. a \in AskedType
  BY <1>2 DEF WatchType, AskedType, NoSummary
<1> HIDE DEF a
<1>5. SummaryTypes'
  <2>1. status' \in [Folders -> StatusType]
    BY <1>1 DEF SummaryTypes, StatusType
  <2>2. asked' \in [GitSessions -> AskedType]
    BY <1>1, <1>4 DEF SummaryTypes
  <2> QED  BY <1>1, <1>3, <2>1, <2>2 DEF SummaryTypes
<1>6. \A t \in GitSessions :
         /\ asked'[t] = asked[t] \/ (t = s /\ asked'[t] = a)
         /\ t # s => asked'[t] = asked[t] /\ status'[Folder[t]] = status[Folder[t]]
  <2>1. ASSUME NEW t \in GitSessions, t # s PROVE Folder[t] # f /\ Folder[t] \in Folders
    BY <2>1 DEF OwnFolders, f, Folders
  <2> QED  BY <1>1, <2>1 DEF SummaryTypes
<1>7. \/ /\ asked'[s] = asked[s] /\ status'[Folder[s]] = status[Folder[s]]
      \/ asked'[s] = a /\ status'[Folder[s]].runs /\ status'[Folder[s]].read = NoSummary
  <2>1. Alone(s)
    BY DEF SummaryInv
  <2>2. status[f].read = NoSummary /\ status[f] \in StatusType
    BY <1>1, <2>1 DEF Alone, SummaryTypes, f
  <2>3. CASE status' = [status EXCEPT ![f].runs = TRUE]
    <3>1. status'[f].runs /\ status'[f].read = NoSummary
      BY <1>1, <2>2, <2>3 DEF SummaryTypes, StatusType
    <3> QED  BY <1>1, <3>1 DEF SummaryTypes, f
  <2> QED  BY <1>1, <2>3
<1>10. a.at = "status" /\ a.watch = w.id /\ a.generation = w.generation
  BY DEF a
<1>8. ASSUME NEW t \in GitSessions PROVE Alone(t)' /\ Before(t)' /\ Fresh(t)'
  <2>1. Alone(t) /\ Before(t) /\ Fresh(t) /\ asked[t] \in AskedType /\ watch \in WatchType
    BY DEF SummaryInv, SummaryTypes
  <2>2. Alone(t)'
    BY <1>6, <1>7, <1>10, <2>1 DEF Alone
  <2>3. Before(t)'
    BY <1>1, <1>2, <1>3, <1>6, <1>10, <2>1 DEF Before, WatchType, AskedType
  <2>4. ASSUME asked'[t] = asked[t], status'[Folder[t]] = status[Folder[t]]
        PROVE  Fresh(t)'
    <3>1. ASSUME asked[t].at # "idle", Quiet', MayKeep(asked[t])' PROVE w = watch /\ Quiet
      <4>1. asked[t].watch = w.id /\ asked[t].generation = w.generation
        BY <1>3, <2>4, <3>1 DEF MayKeep
      <4>2. w.id \in Nat /\ w.generation \in Nat /\ watch.id \in Nat /\ watch.generation \in Nat
        BY <1>2, <2>1 DEF WatchType
      <4>3. w = watch /\ ~watch.changed /\ ~watch.failed
        BY <1>2, <2>1, <3>1, <4>1, <4>2 DEF Before
      <4> QED  BY <1>1, <3>1, <4>3 DEF Quiet
    <3>2. asked[t].at # "idle" /\ Quiet' /\ MayKeep(asked[t])' => MayKeep(asked[t]) /\ Quiet
      BY <1>3, <2>4, <3>1 DEF MayKeep
    <3> QED  BY <1>1, <2>1, <2>4, <3>2 DEF Fresh
  <2>5. ASSUME t = s, asked'[s] = a, status'[Folder[s]].read = NoSummary
        PROVE  Fresh(t)'
    BY <1>10, <2>5 DEF Fresh
  <2> QED  BY <1>6, <1>7, <2>2, <2>3, <2>4, <2>5
<1>9. KeptIsRight'
  BY <1>1, <1>2, <1>3 DEF SummaryInv, KeptIsRight
<1> QED  BY <1>5, <1>8, <1>9 DEF SummaryInv

LEMMA ReadInv ==
    ASSUME OwnFolders, SummaryInv, NEW f \in Folders, ReadFiles(f)
    PROVE  SummaryInv'
<1>1. /\ status' = [status EXCEPT ![f].read = version] /\ status[f].runs
      /\ UNCHANGED <<version, unreported, watch, asked>>
  BY DEF ReadFiles
<1>2. SummaryTypes'
  BY <1>1 DEF SummaryInv, SummaryTypes, StatusType
<1>3. \A g \in Folders : /\ status'[g].runs = status[g].runs
                         /\ status'[g].read = IF g = f THEN version ELSE status[g].read
  BY <1>1 DEF SummaryInv, SummaryTypes, StatusType
<1>4. \A s \in GitSessions : Alone(s)' /\ Before(s)' /\ Fresh(s)'
  BY <1>1, <1>3 DEF SummaryInv, Alone, Before, Fresh, Quiet, MayKeep, Folders
<1> QED  BY <1>1, <1>2, <1>4 DEF SummaryInv, KeptIsRight

LEMMA EndInv ==
    ASSUME SummaryInv, NEW f \in Folders, StatusEnds(f) \/ StatusFails(f)
    PROVE  SummaryInv'
<1>1. /\ status' = [status EXCEPT ![f] = NoStatus] /\ f \in Folders
      /\ UNCHANGED <<version, unreported, watch>>
  BY DEF StatusEnds, StatusFails
<1>2. \A g \in Folders : status'[g] = IF g = f THEN NoStatus ELSE status[g]
  BY <1>1 DEF SummaryInv, SummaryTypes
<1>3. ASSUME NEW s \in GitSessions
      PROVE  /\ asked'[s] \in AskedType
             /\ s \notin Sharing(f) => asked'[s] = asked[s]
             /\ s \in Sharing(f) =>
                   \/ asked'[s].at = "idle"
                   \/ /\ asked'[s].at = "lookups" /\ asked'[s].read = status[f].read
                      /\ status[f].read # NoSummary
                      /\ asked'[s].watch = asked[s].watch
                      /\ asked'[s].generation = asked[s].generation
  <2>1. asked[s] \in AskedType /\ status[f].read \in Nat
    BY DEF SummaryInv, SummaryTypes, StatusType
  <2>2. CASE StatusEnds(f)
    <3>1. asked'[s] = IF s \in Sharing(f)
                      THEN [asked[s] EXCEPT !.at = "lookups", !.read = status[f].read]
                      ELSE asked[s]
      BY <2>2 DEF StatusEnds
    <3> QED  BY <2>1, <2>2, <3>1 DEF AskedType, StatusEnds
  <2>3. CASE StatusFails(f)
    <3>1. asked'[s] = IF s \in Sharing(f) THEN NotAsked ELSE asked[s]
      BY <2>3 DEF StatusFails
    <3> QED  BY <2>1, <3>1 DEF NotAsked, AskedType, NoSummary
  <2> QED  BY <2>2, <2>3
<1>4. SummaryTypes'
  <2>1. status' \in [Folders -> StatusType]
    BY <1>1 DEF SummaryInv, SummaryTypes, NoStatus, StatusType, NoSummary
  <2>2. asked' \in [GitSessions -> AskedType]
    BY <1>3 DEF StatusEnds, StatusFails
  <2> QED  BY <1>1, <2>1, <2>2 DEF SummaryInv, SummaryTypes
<1>5. ASSUME NEW s \in GitSessions PROVE Alone(s)' /\ Before(s)' /\ Fresh(s)'
  <2>1. Alone(s) /\ Before(s) /\ Fresh(s) /\ Folder[s] \in Folders /\ NoStatus.read = NoSummary
        /\ ~NoStatus.runs
    BY DEF SummaryInv, Folders, NoStatus
  <2>2. CASE s \notin Sharing(f)
    <3>1. asked'[s] = asked[s]
      BY <1>3, <2>2
    <3>2. status'[Folder[s]] = status[Folder[s]] \/ (Folder[s] = f /\ asked[s].at # "status")
      BY <1>2, <2>1, <2>2 DEF Sharing
    <3> QED  BY <1>1, <1>2, <2>1, <3>1, <3>2 DEF Alone, Before, Fresh, Quiet, MayKeep
  <2>3. CASE s \in Sharing(f)
    <3>1. Folder[s] = f /\ asked[s].at = "status" /\ status'[f] = NoStatus
      BY <1>2, <2>3 DEF Sharing
    <3> QED  BY <1>1, <1>3, <2>1, <2>3, <3>1 DEF Alone, Before, Fresh, Quiet, MayKeep
  <2> QED  BY <2>2, <2>3
<1> QED  BY <1>1, <1>4, <1>5 DEF SummaryInv, KeptIsRight

LEMMA KeepInv ==
    ASSUME SummaryInv, NEW s \in GitSessions, KeepSummary(s)
    PROVE  SummaryInv'
<1>1. /\ asked[s].at = "lookups" /\ asked' = [asked EXCEPT ![s] = NotAsked]
      /\ UNCHANGED <<version, unreported, status>>
      /\ asked[s] \in AskedType /\ watch \in WatchType /\ Folder[s] \in Folders
  BY DEF KeepSummary, SummaryInv, SummaryTypes, Folders
<1>2. /\ watch' \in WatchType /\ watch'.id = watch.id /\ watch'.generation = watch.generation
      /\ watch'.changed = watch.changed /\ watch'.failed = watch.failed
      /\ \A g \in Folders :
            \/ watch'.results[g] = watch.results[g]
            \/ watch'.results[g] = asked[s].read /\ MayKeep(asked[s])
  BY <1>1 DEF KeepSummary, WatchType, AskedType
<1>3. \A t \in GitSessions : asked'[t] = IF t = s THEN NotAsked ELSE asked[t]
  BY <1>1 DEF SummaryInv, SummaryTypes
<1>4. SummaryTypes'
  BY <1>1, <1>2 DEF SummaryInv, SummaryTypes, NotAsked, AskedType, NoSummary
<1>5. ASSUME NEW t \in GitSessions PROVE Alone(t)' /\ Before(t)' /\ Fresh(t)'
  <2>1. Alone(t) /\ Before(t) /\ Fresh(t)
    BY DEF SummaryInv
  <2>2. asked'[t] = asked[t] \/ (asked'[t].at = "idle" /\ asked[t].at = "lookups")
    BY <1>1, <1>3 DEF NotAsked
  <2> QED  BY <1>1, <1>2, <2>1, <2>2 DEF Alone, Before, Fresh, Quiet, MayKeep
<1>6. KeptIsRight'
  BY <1>1, <1>2 DEF SummaryInv, KeptIsRight, Fresh, Quiet
<1> QED  BY <1>4, <1>5, <1>6 DEF SummaryInv

-----------------------------------------------------------------------------
\* Sessions in folders of their own: while the watch is quiet the summary that is kept is of
\* the repository as it is.
THEOREM SummaryIsRight == ASSUME OwnFolders PROVE SummarySpec => []KeptIsRight
<1>1. SummaryInit => SummaryInv
  BY SummaryInitInv
<1>2. SummaryInv /\ [SummaryNext]_summaryVars => SummaryInv'
  <2>1. SUFFICES ASSUME SummaryInv, [SummaryNext]_summaryVars PROVE SummaryInv'
    OBVIOUS
  <2>2. CASE UNCHANGED summaryVars
    BY <2>1, <2>2 DEF summaryVars, SummaryInv, SummaryTypes, Alone, Before, Fresh, Quiet, MayKeep,
                      KeptIsRight
  <2>3. CASE SummaryNext
    BY <2>1, <2>3, LoudInv, AskInv, KeepInv, ReadInv, EndInv DEF SummaryNext
  <2> QED  BY <2>1, <2>2, <2>3
<1>3. SummaryInv => KeptIsRight
  BY DEF SummaryInv
<1> QED  BY <1>1, <1>2, <1>3, PTL DEF SummarySpec

-----------------------------------------------------------------------------
(* Loops.                                                                  *)

Over == {"finishing", "keeping", "lastSave", "ended", "unsaved"}
Later == Over \cup {"saving", "sending"}
Placing == {"creating", "opening"}
Stages == Later \cup Placing \cup {"looking", "queued"}
Results == {"running", "skipped", "success", "aborted", "failed"}
Run == [loop : Loops, trigger : {"manual", "schedule"}, sent : Nat,
        space : [id : Nat, n : Int], at : Stages, result : Results, again : BOOLEAN,
        keep : SUBSET Nat, lost : BOOLEAN]

\* Every variable has its type.
Typed ==
    /\ switch \in [Loops -> {"on", "off", "gone"}]
    /\ due \in Seq(SUBSET Loops) /\ running \subseteq Loops /\ cancelled \subseteq Loops
    /\ runs \in Seq(Run)
    /\ shown \in [Loops -> SUBSET DOMAIN runs]
    /\ kept \in [Loops -> SUBSET DOMAIN runs]
    /\ chain \in Seq(DOMAIN runs)
    /\ scheduled \subseteq [id : Nat \ {0}, n : Nat] /\ IsFiniteSet(scheduled)
    /\ open \subseteq DOMAIN runs

Known == {s \in scheduled : s.id \in alive}

LEMMA SeqFacts ==
  ASSUME NEW S, NEW s \in Seq(S)
  PROVE  /\ Len(s) \in Nat /\ DOMAIN s = 1 .. Len(s)
         /\ \A i \in DOMAIN s : s[i] \in S
         /\ \A i \in DOMAIN s, x \in S : [s EXCEPT ![i] = x] \in Seq(S)
OBVIOUS

LEMMA AppendHead ==
  ASSUME NEW S, NEW s \in Seq(S), NEW x \in S
  PROVE  /\ Append(s, x) \in Seq(S) /\ Append(s, x) # <<>>
         /\ s # <<>> => Head(Append(s, x)) = Head(s)
BY SMTT(30)

LEMMA RunFields ==
  ASSUME Typed, NEW i \in DOMAIN runs
  PROVE  /\ runs[i] \in Run /\ runs[i].loop \in Loops
         /\ runs[i].at \in Stages /\ runs[i].result \in Results
         /\ runs[i].space \in [id : Nat, n : Int] /\ runs[i].sent \in Nat
<1>1. runs[i] \in Run BY SeqFacts DEF Typed
<1>. QED BY <1>1 DEF Run

LEMMA FiniteRuns ==
  ASSUME Typed
  PROVE  IsFiniteSet(DOMAIN runs) /\ \A U \in SUBSET DOMAIN runs : IsFiniteSet(U)
<1>1. DOMAIN runs = 1 .. Len(runs) /\ Len(runs) \in Nat BY SeqFacts DEF Typed
<1>2. IsFiniteSet(DOMAIN runs) BY <1>1, FS_Interval
<1>. QED BY <1>2, FS_Subset

\* What a step of run i leaves of the records: the others keep theirs, but for a tab that
\* could not be closed.
RunOnly(i) ==
    /\ runs' \in Seq(Run) /\ DOMAIN runs' = DOMAIN runs
    /\ \A j \in DOMAIN runs :
          /\ runs'[j].loop = runs[j].loop /\ (runs[j].lost => runs'[j].lost)
          /\ j # i => /\ runs'[j].at = runs[j].at /\ runs'[j].space = runs[j].space
                      /\ runs'[j].sent = runs[j].sent
                      /\ runs'[j].result = runs[j].result /\ runs'[j].keep = runs[j].keep

LEMMA BecomesOnly ==
  ASSUME Typed, NEW i \in DOMAIN runs, NEW r \in Run, Becomes(i, r),
         r.loop = runs[i].loop, r.lost = runs[i].lost
  PROVE  RunOnly(i) /\ runs'[i] = r
BY SeqFacts, RunFields DEF Typed, RunOnly, Becomes

\* A run says how it ended, and its loop's history knows it.
Tells(i) ==
    /\ runs'[i].at \in Over => runs'[i].result # "running"
    /\ shown' \in {shown, Added(i, runs[i].loop)}

LEMMA FinishOnly ==
  ASSUME Typed, NEW i \in DOMAIN runs, NEW run \in Run, NEW result \in Results \ {"running"},
         NEW again \in BOOLEAN, Finish(i, run, result, again),
         run.loop = runs[i].loop, run.lost = runs[i].lost
  PROVE  /\ RunOnly(i) /\ Tells(i)
         /\ runs'[i].at = "finishing" /\ runs'[i].space = run.space
<1>. DEFINE r == [run EXCEPT !.at = "finishing", !.result = result, !.again = again]
<1>1. r \in Run /\ r.loop = runs[i].loop /\ r.lost = runs[i].lost
      /\ r.at = "finishing" /\ r.space = run.space /\ r.result # "running"
  BY DEF Run, Stages, Later, Over
<1>2. Becomes(i, r) /\ shown' = Added(i, runs[i].loop) BY DEF Finish
<1>. QED BY <1>1, <1>2, BecomesOnly DEF Tells

LEMMA NextStepOnly ==
  ASSUME Typed, NEW i \in DOMAIN runs, NEW run \in Run, NextStep(i, run),
         run.loop = runs[i].loop, run.lost = runs[i].lost
  PROVE  /\ RunOnly(i) /\ Tells(i)
         /\ runs'[i].at \in {"sending", "finishing"} /\ runs'[i].space = run.space
         /\ runs'[i].at = "sending" => runs[i].loop \notin cancelled
<1>1. CASE Finish(i, run, "success", TRUE) BY <1>1, FinishOnly DEF Results
<1>2. CASE Finish(i, run, "aborted", TRUE) BY <1>2, FinishOnly DEF Results
<1>3. CASE /\ ~StoppedInRun(run.loop)
           /\ Becomes(i, [run EXCEPT !.at = "sending"]) /\ UNCHANGED shown
  <2>. DEFINE r == [run EXCEPT !.at = "sending"]
  <2>1. r \in Run /\ r.loop = runs[i].loop /\ r.lost = runs[i].lost
        /\ r.at = "sending" /\ r.space = run.space
    BY DEF Run, Stages, Later, Over
  <2>. QED BY <1>3, <2>1, BecomesOnly DEF Tells, Over, StoppedInRun
<1>. QED BY <1>1, <1>2, <1>3 DEF NextStep

LEMMA LookUpOnly ==
  ASSUME Typed, NEW i \in DOMAIN runs, LookUp(i)
  PROVE  /\ RunOnly(i) /\ Tells(i)
         /\ runs'[i].at \in {"queued", "finishing"} /\ runs'[i].space = runs[i].space
<1>. DEFINE r == [runs[i] EXCEPT !.at = "queued"]
<1>1. CASE Becomes(i, r) /\ UNCHANGED shown
  <2>1. r \in Run /\ r.loop = runs[i].loop /\ r.lost = runs[i].lost
        /\ r.at = "queued" /\ r.space = runs[i].space
    BY RunFields DEF Run, Stages
  <2>. QED BY <1>1, <2>1, BecomesOnly DEF Tells, Over
<1>2. CASE Finish(i, runs[i], "failed", TRUE)
  BY <1>2, FinishOnly, RunFields DEF Results
<1>. QED BY <1>1, <1>2 DEF LookUp
-----------------------------------------------------------------------------
LEMMA LeastNat ==
  ASSUME NEW T \in SUBSET Nat, T # {}
  PROVE  \E m \in T : \A k \in T : m <= k
<1>1. \E x \in T : \A y \in T : <<y, x>> \notin OpToRel(<, Nat)
  BY WFMin, NatLessThanWellFounded
<1>2. \A x, y \in T : <<y, x>> \notin OpToRel(<, Nat) => x <= y
  BY DEF OpToRel
<1>. QED BY <1>1, <1>2

\* A smallest set without a greatest number would be one with an element too many.
LEMMA GreatestNat ==
  ASSUME NEW T \in SUBSET Nat, IsFiniteSet(T), T # {}
  PROVE  \E m \in T : \A k \in T : k <= m
<1>. DEFINE Greatest(U) == \E m \in U : \A k \in U : k <= m
            Sizes == {c \in Nat : \E U \in SUBSET Nat :
                         IsFiniteSet(U) /\ U # {} /\ Cardinality(U) = c /\ ~Greatest(U)}
<1>. SUFFICES ASSUME ~Greatest(T) PROVE FALSE OBVIOUS
<1>1. Sizes \in SUBSET Nat /\ Sizes # {} BY FS_CardinalityType
<1>2. PICK c \in Sizes : \A d \in Sizes : c <= d BY <1>1, LeastNat
<1>3. PICK U \in SUBSET Nat : IsFiniteSet(U) /\ U # {} /\ Cardinality(U) = c /\ ~Greatest(U)
  OBVIOUS
<1>4. PICK x \in U : TRUE BY <1>3
<1>. DEFINE V == U \ {x}
<1>5. IsFiniteSet(V) /\ Cardinality(V) = c - 1 BY <1>3, <1>4, FS_RemoveElement
<1>6. c - 1 \in Nat BY <1>5, FS_CardinalityType
<1>7. V # {} => Greatest(V)
  <2>1. c - 1 \notin Sizes BY <1>2, <1>6
  <2>. QED BY <2>1, <1>5, <1>6
<1>. QED BY <1>3, <1>4, <1>7

LEMMA NextNumberAbove ==
  ASSUME NEW known \in SUBSET [id : Nat \ {0}, n : Nat], IsFiniteSet(known)
  PROVE  NextNumber(known) \in Nat /\ \A s \in known : s.n < NextNumber(known)
<1>1. CASE known = {} BY <1>1 DEF NextNumber
<1>2. CASE known # {}
  <2>. DEFINE T == {s.n : s \in known}
              f == [s \in known |-> s.n]
              c == CHOOSE n \in T : \A s \in known : s.n <= n
  <2>1. f \in Surjection(known, T) BY DEF Surjection
  <2>2. IsFiniteSet(T) BY <2>1, FS_Surjection
  <2>3. \A s \in known : s.n \in Nat OBVIOUS
  <2>4. T \subseteq Nat /\ T # {} BY <1>2, <2>3
  <2>5. PICK m \in T : \A k \in T : k <= m
    <3>. HIDE DEF T
    <3>. QED BY <2>2, <2>4, GreatestNat
  <2>6. \E n \in T : \A s \in known : s.n <= n BY <2>5
  <2>7. c \in T /\ \A s \in known : s.n <= c BY <2>6
  <2>8. NextNumber(known) = 1 + c
    BY <1>2 DEF NextNumber
  <2>9. c \in Nat BY <2>4, <2>7
  <2>. HIDE DEF c
  <2>. QED BY <2>3, <2>7, <2>8, <2>9
<1>. QED BY <1>1, <1>2

-----------------------------------------------------------------------------
\* The steps of a run, by what they leave of the records.
Same(i) == runs'[i].space = runs[i].space

LEMMA PlaceTabOnly ==
  ASSUME Typed, NEW i \in DOMAIN runs, PlaceTab(i)
  PROVE  /\ RunOnly(i) /\ Tells(i)
         /\ runs'[i].at \in Placing \cup {"finishing"}
         /\ runs'[i].at = "finishing" => Same(i)
         /\ runs'[i].at = "creating" =>
               /\ runs'[i].space.id = i /\ runs'[i].space.n \in Nat
               /\ \A s \in Known : s.n < runs'[i].space.n
         /\ runs'[i].at = "opening" => runs'[i].space \in scheduled
         /\ runs'[i].at \in Placing =>
               /\ ~(Cardinality(UNION {TabsIn(s) : s \in Known}) >= TabCap)
               /\ UNCHANGED chain
         /\ runs'[i].at = "finishing" => chain' = LeftChain
<1>. DEFINE full == Cardinality(UNION {TabsIn(s) : s \in Known}) >= TabCap
            roomy == {s \in Known : HasRoom(s)}
            new == [id |-> i, n |-> NextNumber(Known)]
            old == CHOOSE s \in roomy : \A t \in roomy : s.n <= t.n
            r1 == [runs[i] EXCEPT !.at = "creating", !.space = new]
            r2 == [runs[i] EXCEPT !.at = "opening", !.space = old]
<1>1. Known \in SUBSET [id : Nat \ {0}, n : Nat] /\ IsFiniteSet(Known)
  BY FS_Subset DEF Typed, Known
<1>2. i \in Nat \ {0} BY SeqFacts DEF Typed
<1>3. CASE Finish(i, runs[i], "skipped", TRUE) /\ chain' = LeftChain
  BY <1>3, FinishOnly, RunFields DEF Results, Same, Placing
<1>4. CASE Becomes(i, r1) /\ UNCHANGED <<shown, chain>> /\ ~full
  <2>1. NextNumber(Known) \in Nat /\ \A s \in Known : s.n < NextNumber(Known)
    BY <1>1, NextNumberAbove
  <2>2. new \in [id : Nat, n : Int] BY <1>2, <2>1
  <2>3. /\ r1 \in Run /\ r1.loop = runs[i].loop /\ r1.lost = runs[i].lost
        /\ r1.at = "creating" /\ r1.space = new
    BY <2>2, RunFields DEF Run, Stages, Placing
  <2>4. RunOnly(i) /\ runs'[i] = r1 BY <1>4, <2>3, BecomesOnly
  <2>5. r1.space.id = i /\ r1.space.n \in Nat /\ \A s \in Known : s.n < r1.space.n BY <2>1, <2>3
  <2>. QED BY <1>4, <2>3, <2>4, <2>5 DEF Tells, Over, Placing
<1>5. CASE Becomes(i, r2) /\ UNCHANGED <<shown, chain>> /\ roomy # {} /\ ~full
  <2>. DEFINE T == {s.n : s \in roomy}
  <2>1. PICK m \in T : \A k \in T : m <= k
    <3>1. T \in SUBSET Nat /\ T # {} BY <1>1, <1>5
    <3>. QED BY <3>1, LeastNat
  <2>2. \E s \in roomy : \A t \in roomy : s.n <= t.n BY <2>1
  <2>3. old \in roomy BY <2>2
  <2>4. old \in scheduled /\ old \in [id : Nat, n : Int] BY <2>3, <1>1 DEF Known
  <2>5. /\ r2 \in Run /\ r2.loop = runs[i].loop /\ r2.lost = runs[i].lost
        /\ r2.at = "opening" /\ r2.space = old
    BY <2>4, RunFields DEF Run, Stages, Placing
  <2>. QED BY <1>5, <2>4, <2>5, BecomesOnly DEF Tells, Over, Placing
<1>. QED BY <1>3, <1>4, <1>5 DEF PlaceTab, Known

LEMMA CreateSpaceOnly ==
  ASSUME Typed, NEW i \in DOMAIN runs, CreateSpace(i)
  PROVE  /\ RunOnly(i) /\ Tells(i)
         /\ \/ /\ runs'[i].at = "opening" /\ Same(i) /\ UNCHANGED chain
               /\ scheduled' = scheduled \cup {runs[i].space} /\ alive' = alive \cup {i}
            \/ /\ runs'[i].at = "finishing" /\ runs'[i].space = NoSpace
               /\ chain' = LeftChain /\ UNCHANGED <<scheduled, alive>>
<1>1. CASE /\ Becomes(i, [runs[i] EXCEPT !.at = "opening"])
           /\ scheduled' = scheduled \cup {runs[i].space} /\ alive' = alive \cup {i}
           /\ UNCHANGED <<shown, chain>>
  <2>. DEFINE r == [runs[i] EXCEPT !.at = "opening"]
  <2>1. r \in Run /\ r.loop = runs[i].loop /\ r.lost = runs[i].lost
        /\ r.at = "opening" /\ r.space = runs[i].space
    BY RunFields DEF Run, Stages, Placing
  <2>. QED BY <1>1, <2>1, BecomesOnly DEF Tells, Over, Same
<1>2. CASE /\ Finish(i, [runs[i] EXCEPT !.space = NoSpace], "failed", FALSE)
           /\ chain' = LeftChain /\ UNCHANGED <<scheduled, alive>>
  <2>. DEFINE r == [runs[i] EXCEPT !.space = NoSpace]
  <2>1. r \in Run /\ r.loop = runs[i].loop /\ r.lost = runs[i].lost /\ r.space = NoSpace
    BY RunFields DEF Run, NoSpace
  <2>. QED BY <1>2, <2>1, FinishOnly DEF Results
<1>. QED BY <1>1, <1>2 DEF CreateSpace

LEMMA OpenTabOnly ==
  ASSUME Typed, NEW i \in DOMAIN runs, OpenTab(i)
  PROVE  /\ RunOnly(i) /\ Tells(i)
         /\ \/ runs'[i].at = "saving" /\ Same(i) /\ open' = open \cup {i}
            \/ runs'[i].at = "finishing" /\ runs'[i].space = NoSpace /\ UNCHANGED open
<1>1. CASE /\ Becomes(i, [runs[i] EXCEPT !.at = "saving"]) /\ open' = open \cup {i}
           /\ UNCHANGED shown
  <2>. DEFINE r == [runs[i] EXCEPT !.at = "saving"]
  <2>1. r \in Run /\ r.loop = runs[i].loop /\ r.lost = runs[i].lost
        /\ r.at = "saving" /\ r.space = runs[i].space
    BY RunFields DEF Run, Stages, Later
  <2>. QED BY <1>1, <2>1, BecomesOnly DEF Tells, Over, Same
<1>2. CASE Finish(i, [runs[i] EXCEPT !.space = NoSpace], "failed", FALSE) /\ UNCHANGED open
  <2>. DEFINE r == [runs[i] EXCEPT !.space = NoSpace]
  <2>1. r \in Run /\ r.loop = runs[i].loop /\ r.lost = runs[i].lost /\ r.space = NoSpace
    BY RunFields DEF Run, NoSpace
  <2>. QED BY <1>2, <2>1, FinishOnly DEF Results
<1>. QED BY <1>1, <1>2 DEF OpenTab

LEMMA SavedOpenOnly ==
  ASSUME Typed, NEW i \in DOMAIN runs, SavedOpen(i)
  PROVE  /\ RunOnly(i) /\ Tells(i) /\ Same(i) /\ runs'[i].at \in {"sending", "finishing"}
         /\ runs'[i].at = "sending" => runs[i].loop \notin cancelled
<1>1. CASE NextStep(i, runs[i]) BY <1>1, NextStepOnly, RunFields DEF Same
<1>2. CASE Finish(i, runs[i], "failed", FALSE)
  BY <1>2, FinishOnly, RunFields DEF Results, Same
<1>. QED BY <1>1, <1>2 DEF SavedOpen

LEMMA SentStepOnly ==
  ASSUME Typed, NEW i \in DOMAIN runs, SentStep(i)
  PROVE  /\ RunOnly(i) /\ Tells(i) /\ Same(i) /\ runs'[i].at \in {"sending", "finishing"}
         /\ runs'[i].at = "sending" => runs[i].loop \notin cancelled
         /\ open' \subseteq open
<1>. DEFINE run == [runs[i] EXCEPT !.sent = @ + 1]
<1>1. run \in Run /\ run.loop = runs[i].loop /\ run.lost = runs[i].lost
      /\ run.space = runs[i].space
  BY RunFields DEF Run
<1>2. CASE NextStep(i, run) BY <1>1, <1>2, NextStepOnly DEF Same, SentStep
<1>3. CASE Finish(i, runs[i], "failed", FALSE)
  BY <1>3, FinishOnly, RunFields DEF Results, Same, SentStep
<1>4. open' \subseteq open BY DEF SentStep
<1>. QED BY <1>2, <1>3, <1>4 DEF SentStep

\* keepTab goes on with a set of tabs, some of the records being told that their tab is lost.
LEMMA KeepOrSaveOnly ==
  ASSUME Typed, NEW i \in DOMAIN runs, NEW keep \in SUBSET DOMAIN runs,
         NEW records \in Seq(Run), DOMAIN records = DOMAIN runs,
         \A j \in DOMAIN runs :
            \/ records[j] = runs[j]
            \/ records[j] = [runs[j] EXCEPT !.lost = TRUE],
         KeepOrSave(i, keep, records)
  PROVE  /\ RunOnly(i) /\ Same(i) /\ runs'[i].result = runs[i].result
         /\ \A j \in DOMAIN runs : runs'[j].lost = records[j].lost
         /\ running' = running
         /\ \/ runs'[i].at = "keeping" /\ runs'[i].keep = keep /\ UNCHANGED kept
            \/ /\ runs'[i].at = "lastSave" /\ Cardinality(keep) <= KeepTabs
               /\ kept' = [kept EXCEPT ![runs[i].loop] = keep]
<1>. DEFINE r(at, k) == [records[i] EXCEPT !.at = at, !.keep = k]
<1>1. ASSUME NEW j \in DOMAIN runs
      PROVE  /\ records[j] \in Run
             /\ records[j].loop = runs[j].loop /\ (runs[j].lost => records[j].lost)
             /\ records[j].at = runs[j].at /\ records[j].space = runs[j].space
             /\ records[j].result = runs[j].result /\ records[j].keep = runs[j].keep
             /\ records[j].sent = runs[j].sent
  <2>1. records[j] \in Run /\ runs[j] \in Run BY SeqFacts, RunFields
  <2>2. CASE records[j] = runs[j] BY <2>1, <2>2
  <2>3. CASE records[j] = [runs[j] EXCEPT !.lost = TRUE] BY <2>1, <2>3 DEF Run
  <2>. QED BY <2>2, <2>3
<1>2. keep \in SUBSET Nat BY SeqFacts DEF Typed
<1>3. ASSUME NEW at \in {"keeping", "lastSave"}, NEW k \in {keep, {}}
      PROVE  /\ r(at, k) \in Run /\ r(at, k).loop = runs[i].loop
             /\ r(at, k).lost = records[i].lost /\ r(at, k).at = at /\ r(at, k).keep = k
             /\ r(at, k).space = runs[i].space /\ r(at, k).result = runs[i].result
  <2>1. at \in Stages /\ k \in SUBSET Nat BY <1>2 DEF Stages, Later, Over
  <2>. QED BY ZenonT(40), <1>1, <2>1 DEF Run
<1>4. ASSUME NEW at \in {"keeping", "lastSave"}, NEW k \in {keep, {}},
             runs' = [records EXCEPT ![i] = r(at, k)]
      PROVE  /\ RunOnly(i) /\ Same(i) /\ runs'[i].result = runs[i].result
             /\ \A j \in DOMAIN runs : runs'[j].lost = records[j].lost
             /\ runs'[i].at = at /\ runs'[i].keep = k
  <2>. HIDE DEF r
  <2>1. runs' \in Seq(Run) /\ DOMAIN runs' = DOMAIN runs /\ runs'[i] = r(at, k)
        /\ \A j \in DOMAIN runs \ {i} : runs'[j] = records[j]
    BY <1>3, <1>4, SeqFacts
  <2>2. /\ runs'[i].loop = runs[i].loop /\ runs'[i].lost = records[i].lost
        /\ runs'[i].at = at /\ runs'[i].keep = k
        /\ runs'[i].space = runs[i].space /\ runs'[i].result = runs[i].result
    BY ZenonT(40), <2>1, <1>3
  <2>3. RunOnly(i) BY <2>1, <2>2, <1>1 DEF RunOnly
  <2>. QED BY <2>1, <2>2, <2>3 DEF Same
<1>5. CASE Cardinality(keep) > KeepTabs
  <2>1. runs' = [records EXCEPT ![i] = r("keeping", keep)] BY <1>5 DEF KeepOrSave
  <2>2. running' = running /\ UNCHANGED kept BY <1>5 DEF KeepOrSave, Freed
  <2>. QED BY <2>1, <2>2, <1>4
<1>6. CASE ~(Cardinality(keep) > KeepTabs)
  <2>1. runs' = [records EXCEPT ![i] = r("lastSave", {})] BY <1>6 DEF KeepOrSave
  <2>2. running' = running /\ kept' = [kept EXCEPT ![runs[i].loop] = keep]
    BY <1>6 DEF KeepOrSave
  <2>3. IsFiniteSet(keep) BY FiniteRuns
  <2>4. Cardinality(keep) \in Nat /\ KeepTabs \in Nat
    BY <2>3, FS_CardinalityType, LoopRunsAssumption
  <2>. QED BY <1>6, <2>1, <2>2, <2>4, <1>4
<1>. QED BY <1>5, <1>6

LEMMA EndRunOnly ==
  ASSUME Typed, NEW i \in DOMAIN runs, NEW how \in {"ended", "unsaved"}, EndRun(i, how)
  PROVE  /\ RunOnly(i) /\ Same(i) /\ runs'[i].at = how
         /\ runs'[i].result = runs[i].result
         /\ running' = running \ {runs[i].loop} /\ cancelled' = cancelled \ {runs[i].loop}
<1>. DEFINE r == [runs[i] EXCEPT !.at = how]
<1>1. /\ r \in Run /\ r.loop = runs[i].loop /\ r.lost = runs[i].lost
      /\ r.at = how /\ r.space = runs[i].space /\ r.result = runs[i].result
  BY RunFields DEF Run, Stages, Later, Over
<1>. QED BY <1>1, BecomesOnly DEF EndRun, Freed, Same

-----------------------------------------------------------------------------
(* The inductive invariant.                                                  *)

\* Only the head of the chain places its tab, and a loop has one run at a time.
OneByOne ==
    /\ \A i \in DOMAIN runs : runs[i].at \in Placing => MyTurn(i)
    /\ \A i \in DOMAIN runs : Active(i) => runs[i].loop \in running
    /\ \A i, j \in DOMAIN runs :
          Active(i) /\ Active(j) /\ runs[i].loop = runs[j].loop => i = j

\* A workspace that a run made, and that may hold tabs.
Made(id) == id \in DOMAIN runs /\ runs[id].at \notin {"looking", "queued", "creating"}

\* The workspace a run is about to make is new and has the highest number; tabs are in
\* workspaces that were made.
SpacesNamed ==
    /\ \A s \in scheduled : Made(s.id)
    /\ \A i \in DOMAIN runs : runs[i].at = "creating" =>
          /\ runs[i].space.id = i /\ runs[i].space.n \in Nat
          /\ \A s \in Known : s.n < runs[i].space.n
    /\ \A i \in DOMAIN runs : runs[i].at # "creating" /\ runs[i].space.id # 0
          => Made(runs[i].space.id)
    /\ \A i \in open : runs[i].at \in Later

\* The tabs that count; a run that places its tab has counted fewer than the cap.
Counted == {j \in open : \E s \in Known : runs[j].space.id = s.id}
RoomLeft ==
    /\ Cardinality(Counted) <= TabCap
    /\ (\E i \in DOMAIN runs : runs[i].at \in Placing) => Cardinality(Counted) < TabCap

\* The tabs that the runs of a loop left open are those it keeps, or those that keepTab is
\* at work on.
LeftOpen(l) == {j \in open : /\ runs[j].loop = l /\ ~runs[j].lost
                             /\ runs[j].at \in {"ended", "lastSave", "keeping"}}
KeepsLeft ==
    /\ \A l \in Loops : Cardinality(kept[l]) <= KeepTabs
    /\ \A l \in Loops :
          Exists(l) /\ (\A i \in DOMAIN runs : runs[i].loop = l => runs[i].at # "keeping")
          => LeftOpen(l) \subseteq kept[l]
    /\ \A i \in DOMAIN runs : runs[i].at = "keeping" =>
          /\ runs[i].keep \subseteq DOMAIN runs
          /\ Exists(runs[i].loop) => LeftOpen(runs[i].loop) \subseteq runs[i].keep

HistoryTold ==
    /\ \A l \in Loops : ~Exists(l) => shown[l] = {}
    /\ \A i \in DOMAIN runs : runs[i].at \in Over => runs[i].result # "running"
    /\ \A i \in DOMAIN runs : Exists(runs[i].loop) => i \in shown[runs[i].loop]

LoopInv == Typed /\ OneByOne /\ SpacesNamed /\ NumbersApart /\ RoomLeft /\ KeepsLeft /\ HistoryTold

-----------------------------------------------------------------------------
(* What the steps of a run have in common.                                   *)

LEMMA HistoryStep ==
  ASSUME LoopInv, NEW i \in DOMAIN runs, RunOnly(i), Tells(i), switch' = switch
  PROVE  HistoryTold'
<1>1. runs[i].loop \in Loops BY RunFields DEF LoopInv
<1>2. /\ DOMAIN runs' = DOMAIN runs
      /\ \A j \in DOMAIN runs : runs'[j].loop = runs[j].loop /\ runs[j].loop \in Loops
      /\ \A j \in DOMAIN runs \ {i} : runs'[j].at = runs[j].at /\ runs'[j].result = runs[j].result
  BY RunFields DEF RunOnly, LoopInv
<1>3. \A l \in Loops : shown[l] \subseteq shown'[l] /\ (~Exists(l) => shown'[l] = shown[l])
  BY <1>1 DEF Tells, Added, LoopInv, Typed
<1>4. \A l \in Loops : Exists(l)' <=> Exists(l) BY DEF Exists
<1>5. (\A l \in Loops : ~Exists(l) => shown[l] = {})'
  BY <1>3, <1>4 DEF LoopInv, HistoryTold
<1>6. (\A j \in DOMAIN runs : runs[j].at \in Over => runs[j].result # "running")'
  BY <1>2 DEF LoopInv, HistoryTold, Tells
<1>7. (\A j \in DOMAIN runs : Exists(runs[j].loop) => j \in shown[runs[j].loop])'
  BY <1>2, <1>3, <1>4 DEF LoopInv, HistoryTold
<1>. QED BY <1>5, <1>6, <1>7 DEF HistoryTold

LEMMA RunsStep ==
  ASSUME LoopInv, NEW i \in DOMAIN runs, RunOnly(i), Active(i),
         \/ running' = running /\ Active(i)'
         \/ running' = running \ {runs[i].loop} /\ ~Active(i)'
  PROVE  /\ \A j \in DOMAIN runs' : Active(j)' => runs'[j].loop \in running'
         /\ \A j, k \in DOMAIN runs' :
               Active(j)' /\ Active(k)' /\ runs'[j].loop = runs'[k].loop => j = k
<1>1. \A j \in DOMAIN runs : Active(j)' => Active(j) BY DEF RunOnly, Active
<1>2. DOMAIN runs' = DOMAIN runs /\ \A j \in DOMAIN runs : runs'[j].loop = runs[j].loop
  BY DEF RunOnly
<1>3. \A j \in DOMAIN runs : Active(j) => runs[j].loop \in running
  BY DEF LoopInv, OneByOne
<1>4. \A j, k \in DOMAIN runs :
         Active(j) /\ Active(k) /\ runs[j].loop = runs[k].loop => j = k
  BY DEF LoopInv, OneByOne
<1>. QED BY <1>1, <1>2, <1>3, <1>4

\* A step of a run that has its tab.
LEMMA LaterStep ==
  ASSUME LoopInv, NEW i \in DOMAIN runs, RunOnly(i), Same(i),
         runs[i].at \in Later, runs'[i].at \in Later, open' \subseteq open,
         UNCHANGED <<chain, scheduled, alive>>
  PROVE  /\ \A j \in DOMAIN runs' : runs'[j].at \in Placing => MyTurn(j)'
         /\ SpacesNamed' /\ NumbersApart' /\ RoomLeft'
<1>1. /\ DOMAIN runs' = DOMAIN runs
      /\ \A j \in DOMAIN runs : runs'[j].space = runs[j].space
      /\ \A j \in DOMAIN runs \ {i} : runs'[j].at = runs[j].at
  BY DEF RunOnly, Same
<1>2. \A j \in DOMAIN runs : runs'[j].at \in Placing <=> runs[j].at \in Placing
  BY <1>1 DEF Placing, Later, Over
<1>3. \A j \in DOMAIN runs : runs'[j].at \in Placing => MyTurn(j)'
  BY <1>2 DEF LoopInv, OneByOne, MyTurn
<1>4. \A id : Made(id)' <=> Made(id) BY <1>1 DEF Made, Later, Over
<1>5. Known' = Known BY DEF Known
<1>6. SpacesNamed'
  <2>1. (\A s \in scheduled : Made(s.id))' BY <1>4 DEF LoopInv, SpacesNamed
  <2>2. (\A j \in DOMAIN runs : runs[j].at = "creating" =>
            /\ runs[j].space.id = j /\ runs[j].space.n \in Nat
            /\ \A s \in Known : s.n < runs[j].space.n)'
    BY <1>1, <1>5 DEF LoopInv, SpacesNamed, Later, Over
  <2>3. (\A j \in DOMAIN runs : runs[j].at # "creating" /\ runs[j].space.id # 0
            => Made(runs[j].space.id))'
    BY <1>1, <1>4 DEF LoopInv, SpacesNamed, Later, Over
  <2>4. (\A j \in open : runs[j].at \in Later)'
    BY <1>1 DEF LoopInv, SpacesNamed, Typed
  <2>. QED BY <2>1, <2>2, <2>3, <2>4 DEF SpacesNamed
<1>7. NumbersApart' BY DEF LoopInv, NumbersApart
<1>8. RoomLeft'
  <2>1. Counted' \subseteq Counted BY <1>1, <1>5 DEF Counted, LoopInv, Typed
  <2>2. IsFiniteSet(Counted) BY FiniteRuns DEF Counted, LoopInv, Typed
  <2>3. Cardinality(Counted') <= Cardinality(Counted)
        /\ Cardinality(Counted') \in Nat /\ Cardinality(Counted) \in Nat
    BY <2>1, <2>2, FS_Subset, FS_CardinalityType
  <2>. QED BY <1>1, <1>2, <2>3, LoopRunsAssumption DEF LoopInv, RoomLeft
<1>. QED BY <1>1, <1>3, <1>6, <1>7, <1>8

\* A step after which keepTab is at work for no further run.
LEMMA KeptStep ==
  ASSUME LoopInv, NEW i \in DOMAIN runs, RunOnly(i),
         runs[i].at # "keeping", runs'[i].at # "keeping",
         \A l \in Loops : Exists(l) => LeftOpen(l)' \subseteq LeftOpen(l),
         UNCHANGED <<switch, kept>>
  PROVE  KeepsLeft'
<1>1. /\ DOMAIN runs' = DOMAIN runs
      /\ \A j \in DOMAIN runs : runs'[j].loop = runs[j].loop /\ runs[j].loop \in Loops
      /\ \A j \in DOMAIN runs \ {i} : runs'[j].at = runs[j].at /\ runs'[j].keep = runs[j].keep
  BY RunFields DEF RunOnly, LoopInv
<1>2. \A j \in DOMAIN runs : runs'[j].at = "keeping" <=> runs[j].at = "keeping" BY <1>1
<1>3. \A l : Exists(l)' <=> Exists(l) BY DEF Exists
<1>4. \A l \in Loops : Cardinality(kept'[l]) <= KeepTabs BY DEF LoopInv, KeepsLeft
<1>5. \A l \in Loops :
         Exists(l)' /\ (\A j \in DOMAIN runs' : runs'[j].loop = l => runs'[j].at # "keeping")
         => LeftOpen(l)' \subseteq kept'[l]
  BY <1>1, <1>2, <1>3 DEF LoopInv, KeepsLeft
<1>6. ASSUME NEW j \in DOMAIN runs', runs'[j].at = "keeping"
      PROVE  (/\ runs[j].keep \subseteq DOMAIN runs
              /\ Exists(runs[j].loop) => LeftOpen(runs[j].loop) \subseteq runs[j].keep)'
  <2>1. j \in DOMAIN runs \ {i} /\ runs[j].at = "keeping" /\ runs'[j].keep = runs[j].keep
        /\ runs'[j].loop = runs[j].loop /\ runs[j].loop \in Loops
    BY <1>1, <1>6
  <2>2. /\ runs[j].keep \subseteq DOMAIN runs
        /\ Exists(runs[j].loop) => LeftOpen(runs[j].loop) \subseteq runs[j].keep
    BY <2>1 DEF LoopInv, KeepsLeft
  <2>3. Exists(runs[j].loop)' <=> Exists(runs[j].loop) BY <2>1 DEF Exists
  <2>4. Exists(runs[j].loop) => LeftOpen(runs[j].loop)' \subseteq LeftOpen(runs[j].loop)
    <3>. DEFINE l == runs[j].loop
    <3>1. Exists(l) => \A k \in open' : runs'[k].loop = l /\ ~runs'[k].lost
                          /\ runs'[k].at \in {"ended", "lastSave", "keeping"}
                          => k \in LeftOpen(l)
      BY <2>1 DEF LeftOpen
    <3>. QED BY <2>1, <3>1 DEF LeftOpen
  <2>. QED BY <2>1, <2>2, <2>3, <2>4, <1>1
<1>. QED BY <1>4, <1>5, <1>6 DEF KeepsLeft

\* A step of a run that has not come to keepTab.
LEMMA EarlierStep ==
  ASSUME LoopInv, NEW i \in DOMAIN runs, RunOnly(i),
         runs[i].at \notin {"ended", "lastSave", "keeping"},
         runs'[i].at \notin {"ended", "lastSave", "keeping"},
         open' \subseteq open \cup {i}, UNCHANGED <<switch, kept>>
  PROVE  KeepsLeft'
<1>1. /\ \A j \in DOMAIN runs : runs'[j].loop = runs[j].loop /\ (runs[j].lost => runs'[j].lost)
      /\ \A j \in DOMAIN runs \ {i} : runs'[j].at = runs[j].at
  BY DEF RunOnly
<1>2. \A l : LeftOpen(l)' \subseteq LeftOpen(l)
  BY <1>1 DEF LeftOpen, LoopInv, Typed
<1>. QED BY <1>2, KeptStep

\* keepTab goes on: the tabs of the ended runs that are open are among those it looks at.
LEMMA KeepStep ==
  ASSUME LoopInv, NEW i \in DOMAIN runs, runs[i].at \in {"finishing", "keeping"},
         NEW keep \in SUBSET DOMAIN runs,
         NEW records \in Seq(Run), DOMAIN records = DOMAIN runs,
         \A j \in DOMAIN runs :
            \/ records[j] = runs[j]
            \/ records[j] = [runs[j] EXCEPT !.lost = TRUE],
         KeepOrSave(i, keep, records), UNCHANGED switch, open' \subseteq open,
         Exists(runs[i].loop) =>
            \A j \in open' : /\ runs[j].loop = runs[i].loop /\ ~records[j].lost
                             /\ j = i \/ j \in LeftOpen(runs[i].loop)
                             => j \in keep
  PROVE  KeepsLeft'
<1>1. Typed /\ runs[i].loop \in Loops /\ Active(i)
  BY RunFields DEF LoopInv, Active
<1>2. /\ RunOnly(i) /\ \A j \in DOMAIN runs : runs'[j].lost = records[j].lost
      /\ \/ runs'[i].at = "keeping" /\ runs'[i].keep = keep /\ UNCHANGED kept
         \/ /\ runs'[i].at = "lastSave" /\ Cardinality(keep) <= KeepTabs
            /\ kept' = [kept EXCEPT ![runs[i].loop] = keep]
  BY <1>1, KeepOrSaveOnly
<1>3. /\ DOMAIN runs' = DOMAIN runs
      /\ \A j \in DOMAIN runs : runs'[j].loop = runs[j].loop /\ runs[j].loop \in Loops
                                /\ (runs[j].lost => runs'[j].lost)
      /\ \A j \in DOMAIN runs \ {i} : runs'[j].at = runs[j].at /\ runs'[j].keep = runs[j].keep
  BY <1>1, <1>2, RunFields DEF RunOnly
<1>4. \A l : Exists(l)' <=> Exists(l) BY DEF Exists
<1>5. \A j \in DOMAIN runs \ {i} : runs[j].at = "keeping" => runs[j].loop # runs[i].loop
  BY <1>1 DEF LoopInv, OneByOne, Active
<1>6. \A l \in Loops \ {runs[i].loop} : LeftOpen(l)' \subseteq LeftOpen(l)
  BY <1>3 DEF LeftOpen, LoopInv, Typed
<1>7. Exists(runs[i].loop) => LeftOpen(runs[i].loop)' \subseteq keep
  <2>. SUFFICES ASSUME Exists(runs[i].loop) PROVE LeftOpen(runs[i].loop)' \subseteq keep
    OBVIOUS
  <2>1. ASSUME NEW j \in open', runs'[j].loop = runs[i].loop, ~runs'[j].lost,
               runs'[j].at \in {"ended", "lastSave", "keeping"}
        PROVE  j \in keep
    <3>1. j \in open /\ j \in DOMAIN runs /\ runs[j].loop = runs[i].loop /\ ~records[j].lost
          /\ ~runs[j].lost
      BY <1>1, <1>2, <1>3, <2>1 DEF Typed
    <3>2. j = i \/ j \in LeftOpen(runs[i].loop) BY <1>3, <2>1, <3>1 DEF LeftOpen
    <3>. QED BY <3>1, <3>2
  <2>2. runs'[i].loop = runs[i].loop BY <1>3
  <2>. QED BY <2>1, <2>2 DEF LeftOpen
<1>8. /\ kept \in [Loops -> SUBSET DOMAIN runs]
      /\ \A l \in Loops : Cardinality(kept[l]) <= KeepTabs
  BY <1>1 DEF Typed, LoopInv, KeepsLeft
<1>9. \A l \in Loops : Cardinality(kept'[l]) <= KeepTabs BY <1>1, <1>2, <1>8
<1>10. ASSUME NEW l \in Loops, Exists(l)',
              \A j \in DOMAIN runs' : runs'[j].loop = l => runs'[j].at # "keeping"
       PROVE  LeftOpen(l)' \subseteq kept'[l]
  <2>1. CASE l = runs[i].loop
    <3>1. kept'[l] = keep BY <1>2, <1>3, <1>8, <1>10, <2>1
    <3>2. LeftOpen(l)' \subseteq keep BY <1>3, <1>4, <1>7, <1>10, <2>1 DEF LeftOpen
    <3>. QED BY <3>1, <3>2
  <2>2. CASE l # runs[i].loop
    <3>1. kept'[l] = kept[l] BY <1>2, <1>8, <2>2
    <3>2. \A j \in DOMAIN runs : runs[j].loop = l => runs[j].at # "keeping"
      BY <1>3, <1>10, <2>2
    <3>3. LeftOpen(l) \subseteq kept[l] BY <1>4, <1>10, <3>2 DEF LoopInv, KeepsLeft
    <3>. QED BY <1>6, <2>2, <3>1, <3>3
  <2>. QED BY <2>1, <2>2
<1>11. ASSUME NEW j \in DOMAIN runs', runs'[j].at = "keeping"
       PROVE  (/\ runs[j].keep \subseteq DOMAIN runs
               /\ Exists(runs[j].loop) => LeftOpen(runs[j].loop) \subseteq runs[j].keep)'
  <2>1. CASE j = i
    <3>1. runs'[j].keep = keep /\ runs'[j].loop = runs[i].loop BY <1>2, <1>3, <1>11, <2>1
    <3>2. keep \subseteq DOMAIN runs' BY <1>3
    <3>3. Exists(runs[j].loop)' <=> Exists(runs[i].loop) BY <3>1 DEF Exists
    <3>. QED BY <1>3, <1>7, <2>1, <3>1, <3>2, <3>3 DEF LeftOpen
  <2>2. CASE j # i
    <3>1. /\ runs[j].at = "keeping" /\ runs'[j].keep = runs[j].keep
          /\ runs'[j].loop = runs[j].loop /\ runs[j].loop \in Loops \ {runs[i].loop}
      BY <1>3, <1>5, <1>11, <2>2
    <3>2. /\ runs[j].keep \subseteq DOMAIN runs
          /\ Exists(runs[j].loop) => LeftOpen(runs[j].loop) \subseteq runs[j].keep
      BY <1>3, <3>1 DEF LoopInv, KeepsLeft
    <3>3. LeftOpen(runs[j].loop)' \subseteq LeftOpen(runs[j].loop)
      BY <1>3, <3>1 DEF LeftOpen, LoopInv, Typed
    <3>4. Exists(runs[j].loop)' <=> Exists(runs[j].loop) BY <3>1 DEF Exists
    <3>. QED BY <1>3, <3>1, <3>2, <3>3, <3>4
  <2>. QED BY <2>1, <2>2
<1>. QED BY <1>9, <1>10, <1>11 DEF KeepsLeft

LEMMA TypedStep ==
  ASSUME Typed, NEW i \in DOMAIN runs, RunOnly(i),
         UNCHANGED <<switch, due>>, running' \subseteq running, cancelled' \subseteq cancelled,
         shown' \in {shown, Added(i, runs[i].loop)},
         kept' \in [Loops -> SUBSET DOMAIN runs],
         chain' \in Seq(DOMAIN runs),
         scheduled' \subseteq [id : Nat \ {0}, n : Nat], IsFiniteSet(scheduled'),
         open' \subseteq open \cup {i}
  PROVE  Typed'
<1>1. runs[i].loop \in Loops BY RunFields
<1>2. shown' \in [Loops -> SUBSET DOMAIN runs]
  <2>1. shown \in [Loops -> SUBSET DOMAIN runs] BY DEF Typed
  <2>2. [shown EXCEPT ![runs[i].loop] = @ \cup {i}] \in [Loops -> SUBSET DOMAIN runs]
    BY <1>1, <2>1
  <2>. QED BY <2>1, <2>2 DEF Added
<1>3. runs' \in Seq(Run) /\ DOMAIN runs' = DOMAIN runs BY DEF RunOnly
<1>4. chain' \in Seq(DOMAIN runs') BY <1>3
<1>5. /\ switch' \in [Loops -> {"on", "off", "gone"}]
      /\ due' \in Seq(SUBSET Loops) /\ running' \subseteq Loops /\ cancelled' \subseteq Loops
      /\ open' \subseteq DOMAIN runs
  BY DEF Typed
<1>. QED BY <1>2, <1>3, <1>4, <1>5 DEF Typed

LEMMA LookUpStep ==
  ASSUME LoopInv, NEW i \in DOMAIN runs, LookUp(i)
  PROVE  LoopInv'
<1>1. /\ Typed /\ runs[i].at = "looking" /\ Active(i)
      /\ UNCHANGED <<switch, due, running, cancelled, kept, scheduled, alive, open>>
  BY DEF LoopInv, LookUp, Active
<1>2. /\ RunOnly(i) /\ Tells(i)
      /\ runs'[i].at \in {"queued", "finishing"} /\ runs'[i].space = runs[i].space
  BY <1>1, LookUpOnly
<1>3. chain' \in {chain, Append(chain, i)} BY DEF LookUp
<1>4. Typed'
  <2>0. chain \in Seq(DOMAIN runs) BY <1>1 DEF Typed
  <2>1. chain' \in Seq(DOMAIN runs) BY <1>3, <2>0, AppendHead
  <2>2. /\ kept' \in [Loops -> SUBSET DOMAIN runs]
        /\ scheduled' \subseteq [id : Nat \ {0}, n : Nat] /\ IsFiniteSet(scheduled')
        /\ open' \subseteq open \cup {i}
    BY <1>1 DEF Typed
  <2>3. shown' \in {shown, Added(i, runs[i].loop)} BY <1>2 DEF Tells
  <2>. QED BY <1>1, <1>2, <2>1, <2>2, <2>3, TypedStep
<1>5. HistoryTold' BY <1>1, <1>2, HistoryStep
<1>6. /\ \A j \in DOMAIN runs' : Active(j)' => runs'[j].loop \in running'
      /\ \A j, k \in DOMAIN runs' :
            Active(j)' /\ Active(k)' /\ runs'[j].loop = runs'[k].loop => j = k
  <2>1. Active(i)' BY <1>2 DEF Active
  <2>. QED BY <1>1, <1>2, <2>1, RunsStep
<1>7. KeepsLeft' BY <1>1, <1>2, EarlierStep
<1>8. /\ DOMAIN runs' = DOMAIN runs
      /\ \A j \in DOMAIN runs : runs'[j].space = runs[j].space
      /\ \A j \in DOMAIN runs \ {i} : runs'[j].at = runs[j].at
  BY <1>2 DEF RunOnly
<1>9. (\A j \in DOMAIN runs : runs[j].at \in Placing => MyTurn(j))'
  <2>1. ASSUME NEW j \in DOMAIN runs, runs'[j].at \in Placing PROVE MyTurn(j)'
    <3>1. runs[j].at \in Placing BY <2>1, <1>2, <1>8 DEF Placing
    <3>2. chain # <<>> /\ Head(chain) = j BY <3>1 DEF LoopInv, OneByOne, MyTurn
    <3>3. chain \in Seq(DOMAIN runs) BY <1>1 DEF Typed
    <3>4. Append(chain, i) # <<>> /\ Head(Append(chain, i)) = j
      BY <3>2, <3>3, AppendHead
    <3>. QED BY <3>2, <3>4, <1>3 DEF MyTurn
  <2>. QED BY <2>1, <1>8
<1>10. Known' = Known BY <1>1 DEF Known
<1>11. SpacesNamed'
  <2>1. \A id : Made(id) => Made(id)' BY <1>1, <1>2, <1>8 DEF Made
  <2>2. (\A s \in scheduled : Made(s.id))' BY <1>1, <2>1 DEF LoopInv, SpacesNamed
  <2>3. (\A j \in DOMAIN runs : runs[j].at = "creating" =>
            /\ runs[j].space.id = j /\ runs[j].space.n \in Nat
            /\ \A s \in Known : s.n < runs[j].space.n)'
    BY <1>2, <1>8, <1>10 DEF LoopInv, SpacesNamed
  <2>4. (\A j \in DOMAIN runs : runs[j].at # "creating" /\ runs[j].space.id # 0
            => Made(runs[j].space.id))'
    BY <1>1, <1>8, <2>1 DEF LoopInv, SpacesNamed
  <2>5. (\A j \in open : runs[j].at \in Later)'
    BY <1>1, <1>8 DEF LoopInv, SpacesNamed, Later, Over, Typed
  <2>. QED BY <2>2, <2>3, <2>4, <2>5 DEF SpacesNamed
<1>12. NumbersApart' BY <1>1 DEF LoopInv, NumbersApart
<1>13. RoomLeft'
  <2>1. Counted' = Counted BY <1>1, <1>8, <1>10 DEF Counted, Typed
  <2>2. \A j \in DOMAIN runs : runs'[j].at \in Placing => runs[j].at \in Placing
    BY <1>2, <1>8 DEF Placing
  <2>. QED BY <2>1, <2>2, <1>8 DEF LoopInv, RoomLeft
<1>. QED BY <1>4, <1>5, <1>6, <1>7, <1>9, <1>11, <1>12, <1>13 DEF LoopInv, OneByOne

-----------------------------------------------------------------------------
(* Opening a tab: the run at the head of the chain.                          *)

LEMMA OthersWait ==
  ASSUME LoopInv, NEW i \in DOMAIN runs, MyTurn(i)
  PROVE  \A j \in DOMAIN runs \ {i} : runs[j].at \notin Placing
BY DEF LoopInv, OneByOne, MyTurn

LEMMA TailSeq ==
  ASSUME NEW S, NEW s \in Seq(S), s # <<>>
  PROVE  Tail(s) \in Seq(S)
OBVIOUS

LEMMA PlacingStep ==
  ASSUME LoopInv, NEW i \in DOMAIN runs, RunOnly(i), Tells(i), MyTurn(i),
         runs[i].at \in Placing \cup {"queued"},
         runs'[i].at \in Placing \cup {"saving", "finishing"},
         UNCHANGED <<switch, due, running, cancelled, kept>>,
         chain' \in {chain, LeftChain}, runs'[i].at \in Placing => chain' = chain,
         scheduled' \subseteq [id : Nat \ {0}, n : Nat], IsFiniteSet(scheduled'),
         open' \subseteq open \cup {i}
  PROVE  Typed' /\ OneByOne' /\ KeepsLeft' /\ HistoryTold'
<1>1. Typed BY DEF LoopInv
<1>2. Typed'
  <2>1. chain \in Seq(DOMAIN runs) /\ chain # <<>> BY <1>1 DEF Typed, MyTurn
  <2>2. chain' \in Seq(DOMAIN runs) BY <2>1, TailSeq DEF LeftChain
  <2>3. kept' \in [Loops -> SUBSET DOMAIN runs] BY <1>1 DEF Typed
  <2>4. shown' \in {shown, Added(i, runs[i].loop)} BY DEF Tells
  <2>. QED BY <1>1, <2>2, <2>3, <2>4, TypedStep
<1>3. HistoryTold' BY HistoryStep
<1>4. KeepsLeft' BY EarlierStep DEF Placing
<1>5. OneByOne'
  <2>1. Active(i) /\ Active(i)' BY DEF Active, Placing
  <2>2. /\ \A j \in DOMAIN runs' : Active(j)' => runs'[j].loop \in running'
        /\ \A j, k \in DOMAIN runs' :
              Active(j)' /\ Active(k)' /\ runs'[j].loop = runs'[k].loop => j = k
    BY <2>1, RunsStep
  <2>3. \A j \in DOMAIN runs \ {i} : runs'[j].at \notin Placing
    BY OthersWait DEF RunOnly
  <2>4. DOMAIN runs' = DOMAIN runs BY DEF RunOnly
  <2>5. (\A j \in DOMAIN runs : runs[j].at \in Placing => MyTurn(j))'
    BY <2>3, <2>4 DEF MyTurn
  <2>. QED BY <2>2, <2>5 DEF OneByOne
<1>. QED BY <1>2, <1>3, <1>4, <1>5

LEMMA PlaceTabStep ==
  ASSUME LoopInv, NEW i \in DOMAIN runs, PlaceTab(i)
  PROVE  LoopInv'
<1>1. /\ Typed /\ runs[i].at = "queued" /\ MyTurn(i) /\ scheduled' = Known
      /\ UNCHANGED <<switch, due, running, cancelled, kept, alive, open>>
  BY DEF LoopInv, PlaceTab, Known
<1>2. /\ RunOnly(i) /\ Tells(i)
      /\ runs'[i].at \in Placing \cup {"finishing"}
      /\ runs'[i].at = "finishing" => Same(i)
      /\ runs'[i].at = "creating" =>
            /\ runs'[i].space.id = i /\ runs'[i].space.n \in Nat
            /\ \A s \in Known : s.n < runs'[i].space.n
      /\ runs'[i].at = "opening" => runs'[i].space \in scheduled
      /\ runs'[i].at \in Placing =>
            /\ ~(Cardinality(UNION {TabsIn(s) : s \in Known}) >= TabCap)
            /\ UNCHANGED chain
      /\ runs'[i].at = "finishing" => chain' = LeftChain
  BY <1>1, PlaceTabOnly
<1>3. Known' = Known BY <1>1 DEF Known
<1>4. /\ DOMAIN runs' = DOMAIN runs
      /\ \A j \in DOMAIN runs \ {i} :
            runs'[j].at = runs[j].at /\ runs'[j].space = runs[j].space
                                     /\ runs[j].at \notin Placing
  BY <1>1, <1>2, OthersWait DEF RunOnly
<1>5. Typed' /\ OneByOne' /\ KeepsLeft' /\ HistoryTold'
  <2>1. scheduled' \subseteq [id : Nat \ {0}, n : Nat] /\ IsFiniteSet(scheduled')
    BY <1>1, FS_Subset DEF Typed, Known
  <2>2. chain' \in {chain, LeftChain} /\ (runs'[i].at \in Placing => chain' = chain)
    BY <1>2 DEF Placing
  <2>. QED BY <1>1, <1>2, <2>1, <2>2, PlacingStep
<1>6. \A id : Made(id) => Made(id)' BY <1>1, <1>4 DEF Made
<1>7. i \notin open BY <1>1 DEF LoopInv, SpacesNamed, Later, Over
<1>8. SpacesNamed'
  <2>1. (\A s \in scheduled : Made(s.id))' BY <1>1, <1>6 DEF LoopInv, SpacesNamed, Known
  <2>2. (\A j \in DOMAIN runs : runs[j].at = "creating" =>
            /\ runs[j].space.id = j /\ runs[j].space.n \in Nat
            /\ \A s \in Known : s.n < runs[j].space.n)'
    BY <1>2, <1>3, <1>4 DEF Placing
  <2>3. ASSUME NEW j \in DOMAIN runs, runs'[j].at # "creating", runs'[j].space.id # 0
        PROVE  Made(runs'[j].space.id)
    <3>1. CASE j # i \/ runs'[i].at = "finishing"
      BY <1>1, <1>2, <1>4, <2>3, <3>1 DEF LoopInv, SpacesNamed, Same, Placing
    <3>2. CASE j = i /\ runs'[i].at = "opening"
      BY <1>2, <3>2 DEF LoopInv, SpacesNamed
    <3>. QED BY <1>2, <2>3, <3>1, <3>2 DEF Placing
  <2>4. (\A j \in open : runs[j].at \in Later)'
    BY <1>1, <1>4, <1>7 DEF LoopInv, SpacesNamed, Typed
  <2>5. (\A j \in DOMAIN runs : runs[j].at # "creating" /\ runs[j].space.id # 0
            => Made(runs[j].space.id))'
    BY <1>4, <1>6, <2>3
  <2>. QED BY <2>1, <2>2, <2>4, <2>5 DEF SpacesNamed
<1>9. NumbersApart' BY <1>1 DEF LoopInv, NumbersApart, Known
<1>10. RoomLeft'
  <2>1. Counted' = Counted BY <1>1, <1>3, <1>4, <1>7 DEF Counted, Typed
  <2>2. Counted = UNION {TabsIn(s) : s \in Known} BY DEF Counted, TabsIn
  <2>3. IsFiniteSet(Counted) BY <1>1, FiniteRuns DEF Counted, Typed
  <2>4. Cardinality(Counted) \in Nat BY <2>3, FS_CardinalityType
  <2>5. \A j \in DOMAIN runs : runs'[j].at \in Placing => runs'[i].at \in Placing
    BY <1>4
  <2>6. TabCap \in Nat BY LoopRunsAssumption
  <2>7. Cardinality(Counted) <= TabCap BY DEF LoopInv, RoomLeft
  <2>8. runs'[i].at \in Placing => Cardinality(Counted) < TabCap
    BY <1>2, <2>2, <2>4, <2>6
  <2>. QED BY <1>4, <2>1, <2>5, <2>7, <2>8 DEF RoomLeft
<1>. QED BY <1>5, <1>8, <1>9, <1>10 DEF LoopInv


LEMMA CreateSpaceStep ==
  ASSUME LoopInv, NEW i \in DOMAIN runs, CreateSpace(i)
  PROVE  LoopInv'
<1>1. /\ Typed /\ runs[i].at = "creating" /\ MyTurn(i)
      /\ UNCHANGED <<switch, due, running, cancelled, kept, open>>
  BY DEF LoopInv, OneByOne, Placing, CreateSpace
<1>2. /\ RunOnly(i) /\ Tells(i)
      /\ \/ /\ runs'[i].at = "opening" /\ Same(i) /\ UNCHANGED chain
            /\ scheduled' = scheduled \cup {runs[i].space} /\ alive' = alive \cup {i}
         \/ /\ runs'[i].at = "finishing" /\ runs'[i].space = NoSpace
            /\ chain' = LeftChain /\ UNCHANGED <<scheduled, alive>>
  BY <1>1, CreateSpaceOnly
<1>3. /\ runs[i].space.id = i /\ runs[i].space.n \in Nat /\ i \in Nat \ {0}
      /\ \A s \in Known : s.n < runs[i].space.n
  BY <1>1, SeqFacts DEF LoopInv, SpacesNamed, Typed
<1>4. /\ DOMAIN runs' = DOMAIN runs
      /\ \A j \in DOMAIN runs \ {i} :
            runs'[j].at = runs[j].at /\ runs'[j].space = runs[j].space
                                     /\ runs[j].at \notin Placing
  BY <1>1, <1>2, OthersWait DEF RunOnly
<1>5. Typed' /\ OneByOne' /\ KeepsLeft' /\ HistoryTold'
  <2>1. runs[i].space \in [id : Nat \ {0}, n : Nat] BY <1>1, <1>3, RunFields
  <2>2. scheduled' \subseteq [id : Nat \ {0}, n : Nat] /\ IsFiniteSet(scheduled')
    <3>1. scheduled \subseteq [id : Nat \ {0}, n : Nat] /\ IsFiniteSet(scheduled)
      BY <1>1 DEF Typed
    <3>2. IsFiniteSet(scheduled \cup {runs[i].space}) BY <3>1, FS_AddElement
    <3>. QED BY <1>2, <2>1, <3>1, <3>2
  <2>3. chain' \in {chain, LeftChain} /\ (runs'[i].at \in Placing => chain' = chain)
    BY <1>2 DEF Placing
  <2>4. runs[i].at \in Placing /\ runs'[i].at \in Placing \cup {"finishing"}
    BY <1>1, <1>2 DEF Placing
  <2>. QED BY <1>1, <1>2, <2>2, <2>3, <2>4, PlacingStep
<1>6. ~Made(i) /\ \A id : Made(id) => Made(id)' BY <1>1, <1>2, <1>4 DEF Made
<1>7. \A s \in scheduled : s.id # i BY <1>6 DEF LoopInv, SpacesNamed
<1>8. \A j \in open : j # i /\ runs[j].at # "creating" /\ runs[j].space.id # i
  <2>1. \A j \in open : j \in DOMAIN runs /\ runs[j].at \in Later
    BY <1>1 DEF LoopInv, SpacesNamed, Typed
  <2>2. \A j \in open : runs[j].at # "creating" BY <2>1 DEF Later, Over
  <2>. QED BY <1>1, <1>3, <1>6, <2>1, <2>2 DEF LoopInv, SpacesNamed
<1>9. \/ Known' = Known /\ runs'[i].at = "finishing"
      \/ /\ Known' = Known \cup {runs[i].space} /\ runs'[i].at = "opening" /\ Same(i)
  <2>1. CASE scheduled' = scheduled /\ alive' = alive /\ runs'[i].at = "finishing"
    BY <2>1 DEF Known
  <2>2. CASE /\ scheduled' = scheduled \cup {runs[i].space} /\ alive' = alive \cup {i}
             /\ runs'[i].at = "opening" /\ Same(i)
    BY <1>3, <1>7, <2>2 DEF Known
  <2>. QED BY <1>2, <2>1, <2>2
<1>10. SpacesNamed'
  <2>1. ASSUME NEW s \in scheduled' PROVE Made(s.id)'
    <3>1. CASE s \in scheduled BY <1>6, <3>1 DEF LoopInv, SpacesNamed
    <3>2. CASE s = runs[i].space /\ runs'[i].at = "opening" BY <1>3, <1>4, <3>2 DEF Made
    <3>. QED BY <1>2, <3>1, <3>2
  <2>2. (\A j \in DOMAIN runs : runs[j].at = "creating" =>
            /\ runs[j].space.id = j /\ runs[j].space.n \in Nat
            /\ \A s \in Known : s.n < runs[j].space.n)'
    BY <1>2, <1>4 DEF Placing
  <2>3. ASSUME NEW j \in DOMAIN runs, runs'[j].at # "creating", runs'[j].space.id # 0
        PROVE  Made(runs[j].space.id)'
    <3>1. CASE j # i
      <4>1. Made(runs[j].space.id) BY <1>4, <2>3, <3>1 DEF LoopInv, SpacesNamed
      <4>. QED BY <1>4, <1>6, <3>1, <4>1 DEF Made
    <3>2. CASE j = i /\ runs'[i].at = "opening" /\ Same(i)
      BY <1>3, <1>4, <3>2 DEF Same, Made
    <3>3. CASE j = i /\ runs'[i].space = NoSpace BY <2>3, <3>3 DEF NoSpace
    <3>. QED BY <1>2, <3>1, <3>2, <3>3
  <2>4. (\A j \in open : runs[j].at \in Later)'
    BY <1>1, <1>4, <1>8 DEF LoopInv, SpacesNamed, Typed
  <2>5. (\A j \in DOMAIN runs : runs[j].at # "creating" /\ runs[j].space.id # 0
            => Made(runs[j].space.id))'
    BY <1>4, <2>3
  <2>. QED BY <2>1, <2>2, <2>4, <2>5 DEF SpacesNamed
<1>11. NumbersApart'
  <2>1. \A s, t \in Known : s.n = t.n => s = t BY DEF LoopInv, NumbersApart, Known
  <2>2. \A s \in Known : s.n \in Nat BY <1>1 DEF Typed, Known
  <2>3. \A s, t \in Known' : s.n = t.n => s = t BY <1>3, <1>9, <2>1, <2>2
  <2>. QED BY <2>3 DEF NumbersApart, Known
<1>12. RoomLeft'
  <2>1. \A j \in open : runs'[j].space = runs[j].space BY <1>1, <1>4, <1>8 DEF Typed
  <2>2. Counted' = Counted BY <1>1, <1>3, <1>8, <1>9, <2>1 DEF Counted
  <2>3. Cardinality(Counted) < TabCap BY <1>1 DEF LoopInv, RoomLeft, Placing
  <2>4. Cardinality(Counted) <= TabCap BY DEF LoopInv, RoomLeft
  <2>. QED BY <2>2, <2>3, <2>4 DEF RoomLeft
<1>. QED BY <1>5, <1>10, <1>11, <1>12 DEF LoopInv

LEMMA OpenTabStep ==
  ASSUME LoopInv, NEW i \in DOMAIN runs, OpenTab(i)
  PROVE  LoopInv'
<1>1. /\ Typed /\ runs[i].at = "opening" /\ MyTurn(i) /\ chain' = LeftChain
      /\ UNCHANGED <<switch, due, running, cancelled, kept, scheduled, alive>>
  BY DEF LoopInv, OneByOne, Placing, OpenTab
<1>2. /\ RunOnly(i) /\ Tells(i)
      /\ \/ runs'[i].at = "saving" /\ Same(i) /\ open' = open \cup {i}
         \/ runs'[i].at = "finishing" /\ runs'[i].space = NoSpace /\ UNCHANGED open
  BY <1>1, OpenTabOnly
<1>3. /\ DOMAIN runs' = DOMAIN runs
      /\ \A j \in DOMAIN runs \ {i} :
            runs'[j].at = runs[j].at /\ runs'[j].space = runs[j].space
                                     /\ runs[j].at \notin Placing
  BY <1>1, <1>2, OthersWait DEF RunOnly
<1>4. \A j \in DOMAIN runs : runs'[j].at \notin Placing BY <1>2, <1>3 DEF Placing
<1>5. Typed' /\ OneByOne' /\ KeepsLeft' /\ HistoryTold'
  <2>1. runs[i].at \in Placing /\ runs'[i].at \in {"saving", "finishing"}
    BY <1>1, <1>2 DEF Placing
  <2>2. open' \subseteq open \cup {i} BY <1>2
  <2>3. scheduled' \subseteq [id : Nat \ {0}, n : Nat] /\ IsFiniteSet(scheduled')
    BY <1>1 DEF Typed
  <2>4. runs'[i].at \in Placing => chain' = chain BY <1>4
  <2>. QED BY <1>1, <1>2, <2>1, <2>2, <2>3, <2>4, PlacingStep
<1>6. \A id : Made(id) => Made(id)' BY <1>2, <1>3 DEF Made
<1>7. Known' = Known BY <1>1 DEF Known
<1>8. SpacesNamed'
  <2>1. (\A s \in scheduled : Made(s.id))' BY <1>1, <1>6 DEF LoopInv, SpacesNamed
  <2>2. (\A j \in DOMAIN runs : runs[j].at = "creating" =>
            /\ runs[j].space.id = j /\ runs[j].space.n \in Nat
            /\ \A s \in Known : s.n < runs[j].space.n)'
    BY <1>3, <1>4 DEF Placing
  <2>3. ASSUME NEW j \in DOMAIN runs, runs'[j].space.id # 0
        PROVE  Made(runs[j].space.id)'
    <3>1. CASE j # i \/ Same(i)
      <4>1. runs'[j].space = runs[j].space /\ runs[j].at # "creating"
        BY <1>1, <1>3, <3>1 DEF Same, Placing
      <4>2. Made(runs[j].space.id) BY <2>3, <4>1 DEF LoopInv, SpacesNamed
      <4>. QED BY <1>6, <4>1, <4>2 DEF Made
    <3>3. CASE j = i /\ runs'[i].space = NoSpace BY <2>3, <3>3 DEF NoSpace
    <3>. QED BY <1>2, <3>1, <3>3
  <2>4. (\A j \in open : runs[j].at \in Later)'
    BY <1>1, <1>2, <1>3 DEF LoopInv, SpacesNamed, Typed, Later, Over
  <2>5. (\A j \in DOMAIN runs : runs[j].at # "creating" /\ runs[j].space.id # 0
            => Made(runs[j].space.id))'
    BY <1>3, <2>3
  <2>. QED BY <2>1, <2>2, <2>4, <2>5 DEF SpacesNamed
<1>9. NumbersApart' BY <1>1 DEF LoopInv, NumbersApart
<1>10. RoomLeft'
  <2>1. Counted' \subseteq Counted \cup {i} BY <1>1, <1>2, <1>3, <1>7 DEF Counted, Typed
  <2>2. IsFiniteSet(Counted) BY <1>1, FiniteRuns DEF Counted, Typed
  <2>3. IsFiniteSet(Counted \cup {i})
        /\ Cardinality(Counted \cup {i}) <= Cardinality(Counted) + 1
    <3>1. Cardinality(Counted) \in Nat BY <2>2, FS_CardinalityType
    <3>2. IsFiniteSet(Counted \cup {i}) BY <2>2, FS_AddElement
    <3>3. Cardinality(Counted \cup {i}) \in {Cardinality(Counted), Cardinality(Counted) + 1}
      BY <2>2, FS_AddElement
    <3>. QED BY <3>1, <3>2, <3>3
  <2>4. /\ Cardinality(Counted') <= Cardinality(Counted \cup {i})
        /\ Cardinality(Counted') \in Nat /\ Cardinality(Counted \cup {i}) \in Nat
        /\ Cardinality(Counted) \in Nat
    BY <2>1, <2>2, <2>3, FS_Subset, FS_CardinalityType
  <2>5. Cardinality(Counted) < TabCap BY <1>1 DEF LoopInv, RoomLeft, Placing
  <2>6. TabCap \in Nat BY LoopRunsAssumption
  <2>7. Cardinality(Counted') <= TabCap BY <2>3, <2>4, <2>5, <2>6
  <2>. QED BY <1>3, <1>4, <2>7 DEF RoomLeft
<1>. QED BY <1>5, <1>8, <1>9, <1>10 DEF LoopInv

-----------------------------------------------------------------------------
(* A run that has its tab, and its end.                                      *)

\* What is left to show of such a step is what becomes of the tabs kept.
LEMMA LaterInv ==
  ASSUME LoopInv, NEW i \in DOMAIN runs, RunOnly(i), Same(i), Tells(i),
         runs[i].at \in Later \ {"ended", "unsaved"}, runs'[i].at \in Later,
         open' \subseteq open, kept' \in [Loops -> SUBSET DOMAIN runs],
         \/ running' = running /\ cancelled' = cancelled /\ Active(i)'
         \/ /\ running' = running \ {runs[i].loop} /\ ~Active(i)'
            /\ cancelled' = cancelled \ {runs[i].loop},
         UNCHANGED <<switch, due, chain, scheduled, alive>>, KeepsLeft'
  PROVE  LoopInv'
<1>1. Typed /\ Active(i) BY DEF LoopInv, Active
<1>2. Typed'
  <2>1. running' \subseteq running /\ cancelled' \subseteq cancelled OBVIOUS
  <2>2. shown' \in {shown, Added(i, runs[i].loop)} BY DEF Tells
  <2>3. /\ chain' \in Seq(DOMAIN runs) /\ open' \subseteq open \cup {i}
        /\ scheduled' \subseteq [id : Nat \ {0}, n : Nat] /\ IsFiniteSet(scheduled')
    BY <1>1 DEF Typed
  <2>. QED BY <1>1, <2>1, <2>2, <2>3, TypedStep
<1>3. HistoryTold' BY HistoryStep
<1>4. /\ \A j \in DOMAIN runs' : Active(j)' => runs'[j].loop \in running'
      /\ \A j, k \in DOMAIN runs' :
            Active(j)' /\ Active(k)' /\ runs'[j].loop = runs'[k].loop => j = k
  BY <1>1, RunsStep
<1>5. /\ \A j \in DOMAIN runs' : runs'[j].at \in Placing => MyTurn(j)'
      /\ SpacesNamed' /\ NumbersApart' /\ RoomLeft'
  BY LaterStep
<1>. QED BY <1>2, <1>3, <1>4, <1>5 DEF LoopInv, OneByOne

LEMMA SavedOpenStep ==
  ASSUME LoopInv, NEW i \in DOMAIN runs, SavedOpen(i)
  PROVE  LoopInv'
<1>1. /\ Typed /\ runs[i].at = "saving"
      /\ UNCHANGED <<switch, due, running, cancelled, kept, chain, scheduled, alive, open>>
  BY DEF LoopInv, SavedOpen
<1>2. RunOnly(i) /\ Tells(i) /\ Same(i) /\ runs'[i].at \in {"sending", "finishing"}
  BY <1>1, SavedOpenOnly
<1>3. KeepsLeft' BY <1>1, <1>2, EarlierStep
<1>4. /\ runs[i].at \in Later \ {"ended", "unsaved"} /\ runs'[i].at \in Later /\ Active(i)'
      /\ kept' \in [Loops -> SUBSET DOMAIN runs]
  BY <1>1, <1>2 DEF Later, Over, Active, Typed
<1>. QED BY <1>1, <1>2, <1>3, <1>4, LaterInv

LEMMA SentStepStep ==
  ASSUME LoopInv, NEW i \in DOMAIN runs, SentStep(i)
  PROVE  LoopInv'
<1>1. /\ Typed /\ runs[i].at = "sending"
      /\ UNCHANGED <<switch, due, running, cancelled, kept, chain, scheduled, alive>>
  BY DEF LoopInv, SentStep
<1>2. /\ RunOnly(i) /\ Tells(i) /\ Same(i) /\ runs'[i].at \in {"sending", "finishing"}
      /\ open' \subseteq open
  BY <1>1, SentStepOnly
<1>3. KeepsLeft' BY <1>1, <1>2, EarlierStep
<1>4. /\ runs[i].at \in Later \ {"ended", "unsaved"} /\ runs'[i].at \in Later /\ Active(i)'
      /\ kept' \in [Loops -> SUBSET DOMAIN runs]
  BY <1>1, <1>2 DEF Later, Over, Active, Typed
<1>. QED BY <1>1, <1>2, <1>3, <1>4, LaterInv

LEMMA FinishedStep ==
  ASSUME LoopInv, NEW i \in DOMAIN runs, Finished(i)
  PROVE  LoopInv' /\ RunOnly(i) /\ runs'[i].at # "sending"
<1>1. /\ Typed /\ runs[i].at = "finishing" /\ runs[i].at \in Later \ {"ended", "unsaved"}
      /\ UNCHANGED <<switch, due, chain, scheduled, alive, open>>
  BY DEF LoopInv, Finished, Later, Over
<1>2. runs[i].loop \in Loops /\ kept \in [Loops -> SUBSET DOMAIN runs] /\ runs \in Seq(Run)
  BY <1>1, RunFields DEF Typed
<1>3. runs[i].result # "running" BY <1>1 DEF LoopInv, HistoryTold, Over
<1>4. CASE /\ i \in open /\ KeepOrSave(i, KeptTabs(i), runs) /\ Exists(runs[i].loop)
           /\ UNCHANGED <<cancelled, shown>>
  <2>1. KeptTabs(i) \in SUBSET DOMAIN runs BY <1>2 DEF KeptTabs
  <2>2. /\ RunOnly(i) /\ Same(i) /\ runs'[i].result = runs[i].result /\ running' = running
        /\ \/ runs'[i].at = "keeping" /\ UNCHANGED kept
           \/ /\ runs'[i].at = "lastSave"
              /\ kept' = [kept EXCEPT ![runs[i].loop] = KeptTabs(i)]
    BY <1>1, <1>2, <1>4, <2>1, KeepOrSaveOnly
  <2>3. LeftOpen(runs[i].loop) \subseteq kept[runs[i].loop]
    <3>1. \A j \in DOMAIN runs : runs[j].at = "keeping" => Active(j) /\ j # i
      BY <1>1 DEF Active
    <3>2. Active(i) BY <1>1 DEF Active
    <3>3. \A j \in DOMAIN runs : runs[j].loop = runs[i].loop => runs[j].at # "keeping"
      BY <3>1, <3>2 DEF LoopInv, OneByOne
    <3>. QED BY <1>2, <1>4, <3>3 DEF LoopInv, KeepsLeft
  <2>4. \A j \in open' : j = i \/ j \in LeftOpen(runs[i].loop) => j \in KeptTabs(i)
    BY <1>1, <2>3 DEF KeptTabs
  <2>5. KeepsLeft' BY <1>1, <1>2, <1>4, <2>1, <2>4, KeepStep
  <2>6. Tells(i) BY <1>3, <1>4, <2>2 DEF Tells
  <2>7. runs'[i].at \in Later /\ Active(i)' BY <2>2 DEF Later, Over, Active
  <2>8. kept' \in [Loops -> SUBSET DOMAIN runs] BY <1>2, <2>1, <2>2
  <2>. QED BY <1>1, <1>4, <2>2, <2>5, <2>6, <2>7, <2>8, LaterInv
<1>5. CASE /\ ~(i \in open /\ Exists(runs[i].loop))
           /\ Becomes(i, [runs[i] EXCEPT !.at = "lastSave"])
           /\ UNCHANGED <<running, kept, cancelled, shown>>
  <2>. DEFINE r == [runs[i] EXCEPT !.at = "lastSave"]
  <2>1. /\ r \in Run /\ r.loop = runs[i].loop /\ r.lost = runs[i].lost
        /\ r.at = "lastSave" /\ r.space = runs[i].space /\ r.result = runs[i].result
    BY <1>1, RunFields DEF Run, Stages, Later, Over
  <2>2. RunOnly(i) /\ runs'[i] = r BY <1>1, <1>5, <2>1, BecomesOnly
  <2>3. Same(i) /\ Tells(i) BY <1>3, <1>5, <2>1, <2>2 DEF Same, Tells
  <2>4. runs'[i].at \in Later /\ Active(i)' /\ runs'[i].at \notin {"keeping", "sending"}
    BY <2>1, <2>2 DEF Later, Over, Active
  <2>5. ASSUME NEW l \in Loops, Exists(l) PROVE LeftOpen(l)' \subseteq LeftOpen(l)
    <3>1. l = runs[i].loop => i \notin open BY <1>5, <2>5
    <3>2. /\ \A j \in DOMAIN runs : runs'[j].loop = runs[j].loop /\ (runs[j].lost => runs'[j].lost)
          /\ \A j \in DOMAIN runs \ {i} : runs'[j].at = runs[j].at
      BY <2>2 DEF RunOnly
    <3>. QED BY <1>1, <3>1, <3>2 DEF LeftOpen, Typed
  <2>6. KeepsLeft' BY <1>1, <1>5, <2>2, <2>4, <2>5, KeptStep
  <2>. QED BY <1>1, <1>2, <1>5, <2>2, <2>3, <2>4, <2>6, LaterInv
<1>6. CASE Finish(i, runs[i], "failed", FALSE) /\ UNCHANGED <<running, cancelled, kept>>
  <2>1. RunOnly(i) /\ Tells(i) /\ runs'[i].at = "finishing" /\ Same(i)
    BY <1>1, <1>6, FinishOnly, RunFields DEF Results, Same
  <2>2. KeepsLeft' BY <1>1, <1>6, <2>1, EarlierStep
  <2>3. runs'[i].at \in Later /\ Active(i)' BY <2>1 DEF Later, Over, Active
  <2>. QED BY <1>1, <1>2, <1>6, <2>1, <2>2, <2>3, LaterInv
<1>7. CASE EndRun(i, "unsaved") /\ UNCHANGED <<shown, kept>>
  <2>1. /\ RunOnly(i) /\ Same(i) /\ runs'[i].at = "unsaved"
        /\ runs'[i].result = runs[i].result
        /\ running' = running \ {runs[i].loop} /\ cancelled' = cancelled \ {runs[i].loop}
    BY <1>1, <1>7, EndRunOnly
  <2>2. KeepsLeft' BY <1>1, <1>7, <2>1, EarlierStep
  <2>3. runs'[i].at \in Later /\ ~Active(i)' BY <2>1 DEF Later, Over, Active
  <2>4. Tells(i) BY <1>3, <1>7, <2>1 DEF Tells
  <2>. QED BY <1>1, <1>2, <1>7, <2>1, <2>2, <2>3, <2>4, LaterInv
<1>. QED BY <1>4, <1>5, <1>6, <1>7 DEF Finished

LEMMA CloseOldestStep ==
  ASSUME LoopInv, NEW i \in DOMAIN runs, CloseOldest(i)
  PROVE  LoopInv' /\ RunOnly(i) /\ runs'[i].at # "sending"
<1>. DEFINE oldest == Min(runs[i].keep)
            rest == runs[i].keep \ {oldest}
            told == [runs EXCEPT ![oldest].lost = TRUE]
<1>1. /\ Typed /\ runs[i].at = "keeping" /\ runs[i].at \in Later \ {"ended", "unsaved"}
      /\ UNCHANGED <<switch, due, cancelled, shown, chain, scheduled, alive>>
  BY DEF LoopInv, CloseOldest, Later, Over
<1>2. runs[i].loop \in Loops /\ kept \in [Loops -> SUBSET DOMAIN runs] /\ runs \in Seq(Run)
  BY <1>1, RunFields DEF Typed
<1>3. runs[i].result # "running" BY <1>1 DEF LoopInv, HistoryTold, Over
<1>4. rest \in SUBSET DOMAIN runs BY <1>1 DEF LoopInv, KeepsLeft
<1>5. Exists(runs[i].loop) => LeftOpen(runs[i].loop) \subseteq runs[i].keep
  BY <1>1 DEF LoopInv, KeepsLeft
<1>. HIDE DEF oldest
<1>6. PICK records \in {runs, told} :
         /\ KeepOrSave(i, rest, records) /\ open' \subseteq open
         /\ \/ records = runs /\ open' = open \ {oldest}
            \/ records = told /\ oldest \in open
  BY DEF CloseOldest, oldest
<1>7. /\ records \in Seq(Run) /\ DOMAIN records = DOMAIN runs
      /\ \A j \in DOMAIN runs :
            \/ records[j] = runs[j]
            \/ records[j] = [runs[j] EXCEPT !.lost = TRUE]
      /\ \/ oldest \notin open'
         \/ records[oldest].lost
  <2>1. CASE records = runs /\ open' = open \ {oldest} BY <1>2, <2>1
  <2>2. CASE records = told /\ oldest \in open
    <3>1. oldest \in DOMAIN runs BY <1>1, <2>2 DEF Typed
    <3>2. runs[oldest] \in Run BY <1>1, <3>1, RunFields
    <3>. DEFINE r == [runs[oldest] EXCEPT !.lost = TRUE]
    <3>3. r \in Run /\ r.lost BY <3>2 DEF Run
    <3>4. told = [runs EXCEPT ![oldest] = r] OBVIOUS
    <3>. HIDE DEF r
    <3>5. told \in Seq(Run) /\ DOMAIN told = DOMAIN runs /\ told[oldest] = r
          /\ \A j \in DOMAIN runs \ {oldest} : told[j] = runs[j]
      BY <1>2, <3>1, <3>3, <3>4, SeqFacts
    <3>. QED BY <2>2, <3>3, <3>5 DEF r
  <2>. QED BY <1>6, <2>1, <2>2
<1>. HIDE DEF told, rest
<1>8. /\ RunOnly(i) /\ Same(i) /\ runs'[i].result = runs[i].result /\ running' = running
      /\ \/ runs'[i].at = "keeping" /\ UNCHANGED kept
         \/ runs'[i].at = "lastSave" /\ kept' = [kept EXCEPT ![runs[i].loop] = rest]
  BY <1>1, <1>4, <1>6, <1>7, KeepOrSaveOnly
<1>9. Tells(i) BY <1>1, <1>3, <1>8 DEF Tells
<1>10. runs'[i].at \in Later /\ Active(i)' BY <1>8 DEF Later, Over, Active
<1>11. kept' \in [Loops -> SUBSET DOMAIN runs] BY <1>2, <1>4, <1>8
<1>12. KeepsLeft'
  <2>1. ASSUME Exists(runs[i].loop), NEW j \in open', runs[j].loop = runs[i].loop,
               ~records[j].lost, j = i \/ j \in LeftOpen(runs[i].loop)
        PROVE  j \in rest
    <3>1. j \in open /\ j \in DOMAIN runs BY <1>1, <1>6 DEF Typed
    <3>2. ~runs[j].lost
      <4>1. runs[j] \in Run BY <1>1, <3>1, RunFields
      <4>. QED BY <1>7, <2>1, <3>1, <4>1 DEF Run
    <3>3. j \in LeftOpen(runs[i].loop) BY <1>1, <2>1, <3>1, <3>2 DEF LeftOpen
    <3>4. j # oldest BY <1>7, <2>1
    <3>. QED BY <1>5, <2>1, <3>3, <3>4 DEF rest
  <2>. QED BY <1>1, <1>4, <1>6, <1>7, <2>1, KeepStep
<1>. QED BY <1>1, <1>6, <1>8, <1>9, <1>10, <1>11, <1>12, LaterInv

LEMMA LastSaveStep ==
  ASSUME LoopInv, NEW i \in DOMAIN runs, LastSave(i)
  PROVE  LoopInv' /\ RunOnly(i) /\ runs'[i].at # "sending"
<1>1. /\ Typed /\ runs[i].at = "lastSave" /\ runs[i].at \in Later \ {"ended", "unsaved"}
      /\ UNCHANGED <<switch, due, shown, kept, chain, scheduled, alive, open>>
      /\ EndRun(i, "ended")
  BY DEF LoopInv, LastSave, Later, Over
<1>2. /\ RunOnly(i) /\ Same(i) /\ runs'[i].at = "ended" /\ runs'[i].result = runs[i].result
      /\ running' = running \ {runs[i].loop} /\ cancelled' = cancelled \ {runs[i].loop}
  BY <1>1, EndRunOnly
<1>3. Tells(i) BY <1>1, <1>2 DEF Tells, LoopInv, HistoryTold, Over
<1>4. \A l : LeftOpen(l)' \subseteq LeftOpen(l)
  <2>1. /\ \A j \in DOMAIN runs : runs'[j].loop = runs[j].loop /\ (runs[j].lost => runs'[j].lost)
        /\ \A j \in DOMAIN runs \ {i} : runs'[j].at = runs[j].at
    BY <1>2 DEF RunOnly
  <2>. QED BY <1>1, <2>1 DEF LeftOpen, Typed
<1>5. KeepsLeft' BY <1>1, <1>2, <1>4, KeptStep
<1>6. /\ runs'[i].at \in Later /\ ~Active(i)' /\ kept' \in [Loops -> SUBSET DOMAIN runs]
  BY <1>1, <1>2 DEF Later, Over, Active, Typed
<1>. QED BY <1>1, <1>2, <1>3, <1>5, <1>6, LaterInv

-----------------------------------------------------------------------------
(* Runs begin.                                                               *)

LEMMA ConcatFacts ==
  ASSUME NEW S, NEW s \in Seq(S), NEW t \in Seq(S)
  PROVE  /\ s \o t \in Seq(S) /\ DOMAIN (s \o t) = 1 .. (Len(s) + Len(t))
         /\ \A j \in DOMAIN s : (s \o t)[j] = s[j]
         /\ \A k \in DOMAIN t : (s \o t)[Len(s) + k] = t[k]
         /\ \A j \in DOMAIN (s \o t) \ DOMAIN s : \E k \in DOMAIN t : j = Len(s) + k
<1>1. Len(s) \in Nat /\ Len(t) \in Nat /\ DOMAIN s = 1 .. Len(s) /\ DOMAIN t = 1 .. Len(t)
  BY SeqFacts
<1>2. s \o t \in Seq(S) /\ Len(s \o t) = Len(s) + Len(t) OBVIOUS
<1>3. DOMAIN (s \o t) = 1 .. (Len(s) + Len(t)) BY <1>2, SeqFacts
<1>4. \A j \in 1 .. (Len(s) + Len(t)) :
         (s \o t)[j] = IF j <= Len(s) THEN s[j] ELSE t[j - Len(s)]
  OBVIOUS
<1>5. \A j \in DOMAIN s : (s \o t)[j] = s[j] BY <1>1, <1>4
<1>6. \A k \in DOMAIN t : (s \o t)[Len(s) + k] = t[k] BY <1>1, <1>4
<1>7. ASSUME NEW j \in DOMAIN (s \o t) \ DOMAIN s
      PROVE  \E k \in DOMAIN t : j = Len(s) + k
  <2>1. j \in Int /\ j > Len(s) /\ j <= Len(s) + Len(t) BY <1>1, <1>3, <1>7
  <2>2. j - Len(s) \in DOMAIN t /\ j = Len(s) + (j - Len(s)) BY <1>1, <2>1
  <2>. QED BY <2>2
<1>. QED BY <1>2, <1>3, <1>5, <1>6, <1>7

LEMMA WiderSeq ==
  ASSUME NEW S, NEW T, S \subseteq T, NEW s \in Seq(S)
  PROVE  s \in Seq(T)
OBVIOUS

LEMMA BeginStep ==
  ASSUME LoopInv, NEW trigger \in {"manual", "schedule"}, NEW ls \in Seq(Loops),
         \A j, k \in DOMAIN ls : ls[j] = ls[k] => j = k,
         Begin(ls, trigger), due' \in Seq(SUBSET Loops),
         UNCHANGED <<switch, cancelled, kept, chain, scheduled, alive, open>>
  PROVE  LoopInv' /\ \A j \in DOMAIN runs : runs'[j] = runs[j]
<1>. DEFINE n == Len(runs)
            new == [k \in DOMAIN ls |-> NewRun(ls[k], trigger)]
<1>1. Typed /\ runs \in Seq(Run) /\ n \in Nat /\ DOMAIN runs = 1 .. n
  BY SeqFacts DEF LoopInv, Typed
<1>2. Len(ls) \in Nat /\ DOMAIN ls = 1 .. Len(ls) /\ \A k \in DOMAIN ls : ls[k] \in Loops
  BY SeqFacts
<1>3. ASSUME NEW k \in DOMAIN ls
      PROVE  /\ NewRun(ls[k], trigger) \in Run
             /\ NewRun(ls[k], trigger).loop = ls[k]
             /\ NewRun(ls[k], trigger).space.id = 0
             /\ IF Busy(ls[k])
                THEN /\ NewRun(ls[k], trigger).at = "ended"
                     /\ NewRun(ls[k], trigger).result = "skipped"
                ELSE NewRun(ls[k], trigger).at = "looking"
  BY <1>2 DEF NewRun, Run, NoSpace, Stages, Later, Over, Results
<1>4. new \in Seq(Run) /\ Len(new) = Len(ls) /\ DOMAIN new = DOMAIN ls
  BY <1>2, <1>3
<1>5. /\ runs' = runs \o new
      /\ running' = running \cup {ls[k] : k \in DOMAIN ls}
      /\ shown' = [l \in Loops |->
                     shown[l] \cup {n + k : k \in {j \in DOMAIN ls : ls[j] = l /\ Exists(l)}}]
  BY DEF Begin
<1>6. \A k \in DOMAIN ls : new[k] = NewRun(ls[k], trigger) OBVIOUS
<1>. HIDE DEF new
<1>7. /\ runs' \in Seq(Run) /\ DOMAIN runs' = 1 .. (n + Len(ls))
      /\ \A j \in DOMAIN runs : runs'[j] = runs[j]
      /\ \A k \in DOMAIN ls : runs'[n + k] = NewRun(ls[k], trigger)
      /\ \A j \in DOMAIN runs' \ DOMAIN runs : \E k \in DOMAIN ls : j = n + k
  <2>1. runs \in Seq(Run) /\ new \in Seq(Run) BY <1>1, <1>4
  <2>2. runs \o new \in Seq(Run) /\ DOMAIN (runs \o new) = 1 .. (Len(runs) + Len(new))
    BY <2>1, ConcatFacts
  <2>3. \A j \in DOMAIN runs : (runs \o new)[j] = runs[j] BY <2>1, ConcatFacts
  <2>4. \A k \in DOMAIN new : (runs \o new)[Len(runs) + k] = new[k] BY <2>1, ConcatFacts
  <2>5. \A j \in DOMAIN (runs \o new) \ DOMAIN runs : \E k \in DOMAIN new : j = Len(runs) + k
    BY <2>1, ConcatFacts
  <2>6. runs' = runs \o new BY <1>5
  <2>7. \A k \in DOMAIN ls : runs'[n + k] = NewRun(ls[k], trigger)
    BY <1>4, <1>6, <2>4, <2>6
  <2>. QED BY <1>4, <2>2, <2>3, <2>5, <2>6, <2>7
<1>. HIDE DEF n
<1>8. DOMAIN runs \subseteq DOMAIN runs' BY <1>1, <1>2, <1>7
<1>9. ASSUME NEW j \in DOMAIN runs' \ DOMAIN runs
      PROVE  \E k \in DOMAIN ls :
                /\ j = n + k /\ runs'[j].loop = ls[k] /\ ls[k] \in Loops
                /\ runs'[j].space.id = 0 /\ runs'[j].at \in {"ended", "looking"}
                /\ runs'[j].at = "looking" => ls[k] \notin running
                /\ runs'[j].at = "ended" => runs'[j].result # "running"
  BY <1>2, <1>3, <1>7, <1>9 DEF Busy
<1>10. \A l : Exists(l)' <=> Exists(l) BY DEF Exists
<1>11. Known' = Known BY DEF Known
<1>12. Typed'
  <2>1. shown' \in [Loops -> SUBSET DOMAIN runs']
    <3>1. \A l \in Loops : shown[l] \subseteq DOMAIN runs' BY <1>1, <1>8 DEF Typed
    <3>2. \A k \in DOMAIN ls : n + k \in DOMAIN runs' BY <1>1, <1>2, <1>7
    <3>. QED BY <1>5, <3>1, <3>2
  <2>2. kept' \in [Loops -> SUBSET DOMAIN runs'] BY <1>1, <1>8 DEF Typed
  <2>3. chain' \in Seq(DOMAIN runs')
    <3>1. chain \in Seq(DOMAIN runs) BY <1>1 DEF Typed
    <3>. QED BY <1>8, <3>1, WiderSeq
  <2>4. running' \subseteq Loops BY <1>1, <1>2, <1>5 DEF Typed
  <2>5. /\ switch' \in [Loops -> {"on", "off", "gone"}] /\ cancelled' \subseteq Loops
        /\ scheduled' \subseteq [id : Nat \ {0}, n : Nat] /\ IsFiniteSet(scheduled')
        /\ open' \subseteq DOMAIN runs'
    BY <1>1, <1>8 DEF Typed
  <2>. QED BY <1>7, <2>1, <2>2, <2>3, <2>4, <2>5 DEF Typed
<1>13. OneByOne'
  <2>1. (\A j \in DOMAIN runs : runs[j].at \in Placing => MyTurn(j))'
    BY <1>7, <1>9 DEF LoopInv, OneByOne, MyTurn, Placing
  <2>2. ASSUME NEW j \in DOMAIN runs', Active(j)'
        PROVE  /\ runs'[j].loop \in running'
               /\ \/ j \in DOMAIN runs /\ Active(j) /\ runs'[j].loop = runs[j].loop
                  \/ /\ j \in DOMAIN runs' \ DOMAIN runs
                     /\ \E k \in DOMAIN ls : j = n + k /\ runs'[j].loop = ls[k]
                                             /\ ls[k] \notin running
    <3>1. CASE j \in DOMAIN runs
      BY <1>5, <1>7, <2>2, <3>1 DEF LoopInv, OneByOne, Active
    <3>2. CASE j \notin DOMAIN runs
      <4>1. PICK k \in DOMAIN ls :
                /\ j = n + k /\ runs'[j].loop = ls[k] /\ runs'[j].at \in {"ended", "looking"}
                /\ runs'[j].at = "looking" => ls[k] \notin running
        BY <1>9, <3>2
      <4>2. runs'[j].at = "looking" BY <2>2, <4>1 DEF Active
      <4>. QED BY <1>5, <3>2, <4>1, <4>2
    <3>. QED BY <3>1, <3>2
  <2>3. \A j, k \in DOMAIN runs :
           Active(j) /\ Active(k) /\ runs[j].loop = runs[k].loop => j = k
    BY DEF LoopInv, OneByOne
  <2>4. \A j \in DOMAIN runs : Active(j) => runs[j].loop \in running
    BY DEF LoopInv, OneByOne
  <2>5. ASSUME NEW j \in DOMAIN runs', NEW k \in DOMAIN runs',
               Active(j)', Active(k)', runs'[j].loop = runs'[k].loop
        PROVE  j = k
    BY <2>2, <2>3, <2>4, <2>5
  <2>. QED BY <2>1, <2>2, <2>5 DEF OneByOne
<1>14. SpacesNamed'
  <2>1. \A id : Made(id) => Made(id)' BY <1>7, <1>8 DEF Made
  <2>2. (\A s \in scheduled : Made(s.id))' BY <2>1 DEF LoopInv, SpacesNamed
  <2>3. (\A j \in DOMAIN runs : runs[j].at = "creating" =>
            /\ runs[j].space.id = j /\ runs[j].space.n \in Nat
            /\ \A s \in Known : s.n < runs[j].space.n)'
    BY <1>7, <1>9, <1>11 DEF LoopInv, SpacesNamed
  <2>4. ASSUME NEW j \in DOMAIN runs', runs'[j].at # "creating", runs'[j].space.id # 0
        PROVE  Made(runs[j].space.id)'
    <3>1. j \in DOMAIN runs /\ runs'[j] = runs[j] BY <1>7, <1>9, <2>4
    <3>2. Made(runs[j].space.id) BY <2>4, <3>1 DEF LoopInv, SpacesNamed
    <3>. QED BY <1>7, <1>8, <3>1, <3>2 DEF Made
  <2>5. (\A j \in open : runs[j].at \in Later)'
    BY <1>1, <1>7 DEF LoopInv, SpacesNamed, Typed
  <2>. QED BY <2>2, <2>3, <2>4, <2>5 DEF SpacesNamed
<1>15. NumbersApart' BY DEF LoopInv, NumbersApart
<1>16. RoomLeft'
  <2>1. Counted' = Counted BY <1>1, <1>7, <1>11 DEF Counted, Typed
  <2>2. \A j \in DOMAIN runs' : runs'[j].at \in Placing =>
            j \in DOMAIN runs /\ runs[j].at \in Placing
    BY <1>7, <1>9 DEF Placing
  <2>. QED BY <2>1, <2>2 DEF LoopInv, RoomLeft
<1>17. KeepsLeft'
  <2>1. \A l : LeftOpen(l)' = LeftOpen(l) BY <1>1, <1>7 DEF LeftOpen, Typed
  <2>2. \A l \in Loops : Cardinality(kept'[l]) <= KeepTabs BY DEF LoopInv, KeepsLeft
  <2>3. \A l \in Loops :
           Exists(l)' /\ (\A j \in DOMAIN runs' : runs'[j].loop = l => runs'[j].at # "keeping")
           => LeftOpen(l)' \subseteq kept'[l]
    BY <1>7, <1>8, <1>10, <2>1 DEF LoopInv, KeepsLeft
  <2>4. ASSUME NEW j \in DOMAIN runs', runs'[j].at = "keeping"
        PROVE  (/\ runs[j].keep \subseteq DOMAIN runs
                /\ Exists(runs[j].loop) => LeftOpen(runs[j].loop) \subseteq runs[j].keep)'
    <3>1. j \in DOMAIN runs /\ runs'[j] = runs[j] BY <1>7, <1>9, <2>4
    <3>2. /\ runs[j].keep \subseteq DOMAIN runs
          /\ Exists(runs[j].loop) => LeftOpen(runs[j].loop) \subseteq runs[j].keep
      BY <2>4, <3>1 DEF LoopInv, KeepsLeft
    <3>3. LeftOpen(runs[j].loop)' = LeftOpen(runs[j].loop)
      BY <1>1, <1>7, <3>1 DEF LeftOpen, Typed
    <3>4. Exists(runs[j].loop)' <=> Exists(runs[j].loop) BY <3>1 DEF Exists
    <3>. QED BY <1>8, <3>1, <3>2, <3>3, <3>4
  <2>. QED BY <2>2, <2>3, <2>4 DEF KeepsLeft
<1>18. HistoryTold'
  <2>1. ASSUME NEW l \in Loops, ~Exists(l)' PROVE shown'[l] = {}
    <3>1. shown[l] = {} /\ ~Exists(l) BY <1>10, <2>1 DEF LoopInv, HistoryTold
    <3>. QED BY <1>5, <3>1
  <2>2. (\A j \in DOMAIN runs : runs[j].at \in Over => runs[j].result # "running")'
    BY <1>7, <1>9 DEF LoopInv, HistoryTold, Over
  <2>3. ASSUME NEW j \in DOMAIN runs', Exists(runs[j].loop)'
        PROVE  (j \in shown[runs[j].loop])'
    <3>1. CASE j \in DOMAIN runs
      <4>1. runs'[j] = runs[j] /\ runs[j].loop \in Loops BY <1>1, <1>7, <3>1, RunFields
      <4>2. Exists(runs[j].loop) BY <2>3, <4>1 DEF Exists
      <4>3. j \in shown[runs[j].loop] BY <3>1, <4>2 DEF LoopInv, HistoryTold
      <4>. QED BY <1>5, <4>1, <4>3
    <3>2. CASE j \notin DOMAIN runs
      <4>1. PICK k \in DOMAIN ls : j = n + k /\ runs'[j].loop = ls[k] /\ ls[k] \in Loops
        BY <1>9, <3>2
      <4>2. Exists(ls[k]) BY <2>3, <4>1 DEF Exists
      <4>3. k \in {h \in DOMAIN ls : ls[h] = ls[k] /\ Exists(ls[k])} BY <4>2
      <4>4. j \in shown'[ls[k]] BY <1>5, <4>1, <4>3
      <4>. QED BY <4>1, <4>4
    <3>. QED BY <3>1, <3>2
  <2>. QED BY <2>1, <2>2, <2>3 DEF HistoryTold
<1>. QED BY <1>7, <1>12, <1>13, <1>14, <1>15, <1>16, <1>17, <1>18 DEF LoopInv

-----------------------------------------------------------------------------
(* What users do, and the other steps that leave the runs alone.             *)

LEMMA UserStep ==
  ASSUME LoopInv, UNCHANGED <<runs, running, chain, scheduled>>,
         switch' \in [Loops -> {"on", "off", "gone"}],
         due' \in Seq(SUBSET Loops), cancelled' \subseteq Loops,
         shown' \in [Loops -> SUBSET DOMAIN runs], kept' \in [Loops -> SUBSET DOMAIN runs],
         open' \subseteq open, alive' \subseteq alive,
         \A l \in Loops : Cardinality(kept'[l]) <= KeepTabs,
         \A l \in Loops :
            IF Exists(l)' THEN Exists(l) /\ kept'[l] = kept[l] /\ shown'[l] = shown[l]
            ELSE shown'[l] = {}
  PROVE  LoopInv'
<1>1. Typed BY DEF LoopInv
<1>2. Typed' BY <1>1 DEF Typed
<1>3. OneByOne' BY DEF LoopInv, OneByOne, MyTurn, Active
<1>4. Known' \subseteq Known BY DEF Known
<1>5. SpacesNamed'
  <2>1. \A id : Made(id)' <=> Made(id) BY DEF Made
  <2>2. (\A j \in DOMAIN runs : runs[j].at # "creating" /\ runs[j].space.id # 0
            => Made(runs[j].space.id))'
    BY DEF LoopInv, SpacesNamed, Made
  <2>. QED BY <1>4, <2>1, <2>2 DEF LoopInv, SpacesNamed
<1>6. NumbersApart' BY DEF LoopInv, NumbersApart
<1>7. RoomLeft'
  <2>1. Counted' \subseteq Counted BY <1>4 DEF Counted
  <2>2. IsFiniteSet(Counted) BY <1>1, FiniteRuns DEF Counted, Typed
  <2>3. Cardinality(Counted') <= Cardinality(Counted)
        /\ Cardinality(Counted') \in Nat /\ Cardinality(Counted) \in Nat
    BY <2>1, <2>2, FS_Subset, FS_CardinalityType
  <2>4. TabCap \in Nat BY LoopRunsAssumption
  <2>. QED BY <2>3, <2>4 DEF LoopInv, RoomLeft
<1>8. KeepsLeft'
  <2>1. \A l : LeftOpen(l)' \subseteq LeftOpen(l) BY DEF LeftOpen
  <2>2. \A l \in Loops :
           Exists(l)' /\ (\A j \in DOMAIN runs' : runs'[j].loop = l => runs'[j].at # "keeping")
           => LeftOpen(l)' \subseteq kept'[l]
    BY <2>1 DEF LoopInv, KeepsLeft
  <2>3. ASSUME NEW j \in DOMAIN runs, runs[j].at = "keeping"
        PROVE  (/\ runs[j].keep \subseteq DOMAIN runs
                /\ Exists(runs[j].loop) => LeftOpen(runs[j].loop) \subseteq runs[j].keep)'
    <3>1. /\ runs[j].keep \subseteq DOMAIN runs
          /\ Exists(runs[j].loop) => LeftOpen(runs[j].loop) \subseteq runs[j].keep
      BY <2>3 DEF LoopInv, KeepsLeft
    <3>2. runs[j].loop \in Loops BY <1>1, RunFields
    <3>3. LeftOpen(runs[j].loop)' \subseteq LeftOpen(runs[j].loop) BY DEF LeftOpen
    <3>4. Exists(runs[j].loop)' => Exists(runs[j].loop) BY <3>2 DEF Exists
    <3>. QED BY <3>1, <3>3, <3>4
  <2>. QED BY <2>2, <2>3 DEF KeepsLeft
<1>9. HistoryTold'
  <2>1. (\A j \in DOMAIN runs : Exists(runs[j].loop) => j \in shown[runs[j].loop])'
    <3>1. ASSUME NEW j \in DOMAIN runs, Exists(runs[j].loop)'
          PROVE  j \in shown'[runs[j].loop]
      <4>1. runs[j].loop \in Loops BY <1>1, RunFields
      <4>2. Exists(runs[j].loop) /\ shown'[runs[j].loop] = shown[runs[j].loop]
        BY <3>1, <4>1 DEF Exists
      <4>. QED BY <4>2 DEF LoopInv, HistoryTold
    <3>. QED BY <3>1
  <2>. QED BY <2>1 DEF LoopInv, HistoryTold
<1>. QED BY <1>2, <1>3, <1>5, <1>6, <1>7, <1>8, <1>9 DEF LoopInv

\* The same, where the loops stay as they are too.
LEMMA QuietStep ==
  ASSUME LoopInv, UNCHANGED <<runs, running, chain, scheduled, switch, cancelled, shown, kept>>,
         due' \in Seq(SUBSET Loops), open' \subseteq open, alive' \subseteq alive
  PROVE  LoopInv'
<1>1. /\ switch' \in [Loops -> {"on", "off", "gone"}] /\ cancelled' \subseteq Loops
      /\ shown' \in [Loops -> SUBSET DOMAIN runs] /\ kept' \in [Loops -> SUBSET DOMAIN runs]
  BY DEF LoopInv, Typed
<1>2. \A l \in Loops : Cardinality(kept'[l]) <= KeepTabs BY DEF LoopInv, KeepsLeft
<1>3. \A l \in Loops :
         IF Exists(l)' THEN Exists(l) /\ kept'[l] = kept[l] /\ shown'[l] = shown[l]
         ELSE shown'[l] = {}
  BY DEF LoopInv, HistoryTold, Exists
<1>. QED BY <1>1, <1>2, <1>3, UserStep

LEMMA TurnStep ==
  ASSUME LoopInv, NEW l \in Loops, Turn(l)
  PROVE  LoopInv'
<1>1. /\ Typed /\ Exists(l) /\ switch' = [switch EXCEPT ![l] = IF @ = "on" THEN "off" ELSE "on"]
      /\ UNCHANGED <<due, runs, running, shown, kept, chain, scheduled, alive, open>>
  BY DEF Turn, LoopInv
<1>2. switch' \in [Loops -> {"on", "off", "gone"}] BY <1>1 DEF Typed
<1>3. cancelled' \subseteq Loops /\ due' \in Seq(SUBSET Loops) BY <1>1 DEF Turn, Typed
<1>4. shown' \in [Loops -> SUBSET DOMAIN runs] /\ kept' \in [Loops -> SUBSET DOMAIN runs]
  BY <1>1 DEF Typed
<1>5. \A k \in Loops : Cardinality(kept'[k]) <= KeepTabs BY <1>1 DEF LoopInv, KeepsLeft
<1>6. \A k \in Loops : Exists(k)' <=> Exists(k) BY <1>1 DEF Exists, Typed
<1>7. \A k \in Loops :
         IF Exists(k)' THEN Exists(k) /\ kept'[k] = kept[k] /\ shown'[k] = shown[k]
         ELSE shown'[k] = {}
  BY <1>1, <1>6 DEF LoopInv, HistoryTold
<1>. QED BY <1>1, <1>2, <1>3, <1>4, <1>5, <1>7, UserStep

LEMMA RemoveLoopStep ==
  ASSUME LoopInv, NEW l \in Loops, RemoveLoop(l)
  PROVE  LoopInv'
<1>1. /\ Typed /\ Exists(l) /\ switch' = [switch EXCEPT ![l] = "gone"]
      /\ shown' = [shown EXCEPT ![l] = {}] /\ kept' = [kept EXCEPT ![l] = {}]
      /\ UNCHANGED <<due, runs, running, chain, scheduled, alive, open>>
  BY DEF RemoveLoop, LoopInv
<1>2. switch' \in [Loops -> {"on", "off", "gone"}] BY <1>1 DEF Typed
<1>3. cancelled' \subseteq Loops /\ due' \in Seq(SUBSET Loops) BY <1>1 DEF RemoveLoop, Typed
<1>4. shown' \in [Loops -> SUBSET DOMAIN runs] /\ kept' \in [Loops -> SUBSET DOMAIN runs]
  BY <1>1 DEF Typed
<1>5. \A k \in Loops : Cardinality(kept'[k]) <= KeepTabs
  <2>1. Cardinality({}) = 0 /\ KeepTabs \in Nat BY FS_EmptySet, LoopRunsAssumption
  <2>. QED BY <1>1, <2>1 DEF LoopInv, KeepsLeft, Typed
<1>6. \A k \in Loops : Exists(k)' <=> Exists(k) /\ k # l BY <1>1 DEF Exists, Typed
<1>7. \A k \in Loops :
         IF Exists(k)' THEN Exists(k) /\ kept'[k] = kept[k] /\ shown'[k] = shown[k]
         ELSE shown'[k] = {}
  BY <1>1, <1>6 DEF LoopInv, HistoryTold, Typed
<1>. QED BY <1>1, <1>2, <1>3, <1>4, <1>5, <1>7, UserStep

LEMMA OneLoop ==
  ASSUME NEW S, NEW x \in S
  PROVE  <<x>> \in Seq(S) /\ \A j, k \in DOMAIN <<x>> : <<x>>[j] = <<x>>[k] => j = k
OBVIOUS

LEMMA RunNowStep ==
  ASSUME LoopInv, NEW l \in Loops, RunNow(l)
  PROVE  LoopInv' /\ \A j \in DOMAIN runs : runs'[j] = runs[j]
<1>1. <<l>> \in Seq(Loops) /\ \A j, k \in DOMAIN <<l>> : <<l>>[j] = <<l>>[k] => j = k
  BY OneLoop
<1>2. due' \in Seq(SUBSET Loops) BY DEF RunNow, LoopInv, Typed
<1>. QED BY <1>1, <1>2, BeginStep DEF RunNow

LEMMA SetToSeqFacts ==
  ASSUME NEW S, NEW T \in SUBSET S, IsFiniteSet(T)
  PROVE  /\ SetToSeq(T) \in Seq(S)
         /\ \A j, k \in DOMAIN SetToSeq(T) : SetToSeq(T)[j] = SetToSeq(T)[k] => j = k
<1>1. Cardinality(T) \in Nat /\ ExistsBijection(1 .. Cardinality(T), T) BY FS_CardinalityType
<1>2. PICK f \in Bijection(1 .. Cardinality(T), T) : TRUE BY <1>1 DEF ExistsBijection
<1>3. f \in [1 .. Cardinality(T) -> T] /\ IsInjective(f)
  BY <1>2 DEF Bijection, Injection, IsInjective
<1>4. SetToSeq(T) \in [1 .. Cardinality(T) -> T] /\ IsInjective(SetToSeq(T))
  BY <1>3 DEF SetToSeq
<1>5. SetToSeq(T) \in Seq(S) BY <1>1, <1>4
<1>. QED BY <1>4, <1>5 DEF IsInjective

LEMMA LoopTickSavedStep ==
  ASSUME LoopInv, LoopTickSaved
  PROVE  LoopInv' /\ \A j \in DOMAIN runs : runs'[j] = runs[j]
<1>1. /\ due' \in Seq(SUBSET Loops) /\ Head(due) \subseteq Loops
      /\ UNCHANGED <<switch, cancelled, kept, chain, scheduled, alive, open>>
  BY DEF LoopTickSaved, LoopInv, Typed
<1>2. CASE Begin(SetToSeq(Head(due)), "schedule")
  <2>. DEFINE first == Head(due)
  <2>1. IsFiniteSet(first) BY <1>1, FS_Subset, LoopRunsAssumption
  <2>2. /\ SetToSeq(first) \in Seq(Loops)
        /\ \A j, k \in DOMAIN SetToSeq(first) : SetToSeq(first)[j] = SetToSeq(first)[k] => j = k
    BY <1>1, <2>1, SetToSeqFacts
  <2>. HIDE DEF LoopInv
  <2>. QED BY <1>1, <1>2, <2>2, BeginStep
<1>3. CASE UNCHANGED <<runs, running, shown>>
  <2>. QED BY <1>1, <1>3, QuietStep
<1>. QED BY <1>2, <1>3 DEF LoopTickSaved

-----------------------------------------------------------------------------
LEMMA InitInv == LoopInit => LoopInv
<1>. SUFFICES ASSUME LoopInit PROVE LoopInv OBVIOUS
<1>1. Typed BY FS_EmptySet DEF LoopInit, Typed
<1>2. DOMAIN runs = {} BY DEF LoopInit
<1>3. Cardinality({}) = 0 /\ KeepTabs \in Nat /\ TabCap \in Nat
  BY FS_EmptySet, LoopRunsAssumption
<1>4. RoomLeft
  <2>1. Counted = {} BY DEF LoopInit, Counted
  <2>. QED BY <1>2, <1>3, <2>1 DEF RoomLeft
<1>5. KeepsLeft
  <2>1. \A l : LeftOpen(l) = {} BY DEF LoopInit, LeftOpen
  <2>2. \A l \in Loops : Cardinality(kept[l]) <= KeepTabs BY <1>3 DEF LoopInit
  <2>. QED BY <1>2, <2>1, <2>2 DEF KeepsLeft
<1>6. OneByOne BY <1>2 DEF OneByOne
<1>7. SpacesNamed BY <1>2 DEF LoopInit, SpacesNamed
<1>8. NumbersApart BY DEF LoopInit, NumbersApart
<1>9. HistoryTold BY <1>2 DEF LoopInit, HistoryTold
<1>. QED BY <1>1, <1>4, <1>5, <1>6, <1>7, <1>8, <1>9 DEF LoopInv

LEMMA RunInv ==
  ASSUME LoopInv, NEW i \in DOMAIN runs, RunStep(i)
  PROVE  LoopInv'
BY LookUpStep, PlaceTabStep, CreateSpaceStep, OpenTabStep, SavedOpenStep, SentStepStep,
   FinishedStep, CloseOldestStep, LastSaveStep DEF RunStep

LEMMA NextInv ==
  ASSUME LoopInv, [LoopNext]_loopVars
  PROVE  LoopInv'
<1>1. CASE LoopTick
  <2>1. PICK ls \in SUBSET Loops : due' = Append(due, ls) BY <1>1 DEF LoopTick
  <2>2. due' \in Seq(SUBSET Loops) BY <2>1 DEF LoopInv, Typed
  <2>. QED BY <1>1, <2>2, QuietStep DEF LoopTick
<1>2. CASE LoopTickSaved BY <1>2, LoopTickSavedStep
<1>3. ASSUME NEW i \in DOMAIN runs, RunStep(i) PROVE LoopInv' BY <1>3, RunInv
<1>4. ASSUME NEW i \in DOMAIN runs, CloseTab(i) PROVE LoopInv'
  <2>1. due' \in Seq(SUBSET Loops) BY <1>4 DEF CloseTab, LoopInv, Typed
  <2>2. open' \subseteq open BY <1>4 DEF CloseTab
  <2>. QED BY <1>4, <2>1, <2>2, QuietStep DEF CloseTab
<1>5. ASSUME NEW l \in Loops, RunNow(l) \/ Turn(l) \/ RemoveLoop(l) PROVE LoopInv'
  BY <1>5, RunNowStep, TurnStep, RemoveLoopStep
<1>6. ASSUME NEW s \in scheduled, DeleteSpace(s) PROVE LoopInv'
  <2>1. due' \in Seq(SUBSET Loops) BY <1>6 DEF DeleteSpace, LoopInv, Typed
  <2>2. open' \subseteq open /\ alive' \subseteq alive BY <1>6 DEF DeleteSpace
  <2>. QED BY <1>6, <2>1, <2>2, QuietStep DEF DeleteSpace
<1>7. CASE UNCHANGED loopVars
  <2>1. due' \in Seq(SUBSET Loops) BY <1>7 DEF loopVars, LoopInv, Typed
  <2>. QED BY <1>7, <2>1, QuietStep DEF loopVars
<1>. QED BY <1>1, <1>2, <1>3, <1>4, <1>5, <1>6, <1>7 DEF LoopNext

\* The inductive invariant holds in every state.
THEOREM LoopInvHolds == LoopSpec => []LoopInv
<1>1. LoopInit => LoopInv BY InitInv
<1>2. LoopInv /\ [LoopNext]_loopVars => LoopInv' BY NextInv
<1>. QED BY <1>1, <1>2, PTL DEF LoopSpec

\* The tabs of the runs that ended are among those the loop keeps: no run of a loop that is
\* not running is at work on them.
LEMMA KeepsFew == LoopInv => KeepsAtMost
<1>. SUFFICES ASSUME LoopInv, NEW l \in Loops, Exists(l), ~Busy(l)
              PROVE  Cardinality({i \in open : runs[i].loop = l /\ runs[i].at = "ended"
                                            /\ ~runs[i].lost}) <= KeepTabs
  BY DEF KeepsAtMost
<1>. DEFINE ended == {i \in open : runs[i].loop = l /\ runs[i].at = "ended" /\ ~runs[i].lost}
<1>1. \A i \in DOMAIN runs : runs[i].loop = l => runs[i].at # "keeping"
  BY DEF LoopInv, OneByOne, Active, Busy
<1>2. ended \subseteq kept[l] /\ Cardinality(kept[l]) <= KeepTabs
  <2>1. LeftOpen(l) \subseteq kept[l] BY <1>1 DEF LoopInv, KeepsLeft
  <2>2. ended \subseteq LeftOpen(l) BY DEF LeftOpen
  <2>. QED BY <2>1, <2>2 DEF LoopInv, KeepsLeft
<1>3. IsFiniteSet(kept[l])
  <2>1. kept[l] \in SUBSET DOMAIN runs BY DEF LoopInv, Typed
  <2>. QED BY <2>1, FiniteRuns DEF LoopInv
<1>4. /\ Cardinality(ended) <= Cardinality(kept[l]) /\ Cardinality(kept[l]) \in Nat
      /\ Cardinality(ended) \in Nat
  BY <1>2, <1>3, FS_Subset, FS_CardinalityType
<1>5. KeepTabs \in Nat BY LoopRunsAssumption
<1>. QED BY <1>2, <1>4, <1>5

LEMMA HistoryTrue == LoopInv => HistoryIsTrue
<1>. SUFFICES ASSUME LoopInv PROVE HistoryIsTrue OBVIOUS
<1>1. \A l \in Loops : shown[l] \subseteq DOMAIN runs BY DEF LoopInv, Typed
<1>2. \A i \in DOMAIN runs : ~Active(i) => runs[i].result # "running"
  BY DEF LoopInv, HistoryTold, Active, Over
<1>. QED BY <1>1, <1>2 DEF LoopInv, HistoryTold, HistoryIsTrue

\* Runs that overlap, with users at work and failures meanwhile, leave the tabs within the cap,
\* workspace numbers apart, each loop with no more tabs than it keeps, and a true history.
THEOREM TabsAndHistoryHold == LoopSpec => []TabsAndHistory
<1>1. LoopInv => WithinTabCap
  <2>1. UNION {TabsIn(s) : s \in {s \in scheduled : s.id \in alive}} = Counted
    BY DEF TabsIn, Counted, Known
  <2>. QED BY <2>1 DEF LoopInv, RoomLeft, WithinTabCap
<1>2. LoopInv => NumbersApart BY DEF LoopInv
<1>3. LoopInv => TabsAndHistory BY <1>1, <1>2, KeepsFew, HistoryTrue DEF TabsAndHistory
<1>. QED BY <1>3, LoopInvHolds, PTL

-----------------------------------------------------------------------------
\* A run comes to its next step only where the loop was looked at and was not cancelled; no
\* step of another run sends one for it.
LEMMA SendsUncancelled ==
  ASSUME LoopInv, LoopNext, NEW i \in DOMAIN runs, runs'[i].at = "sending",
         runs[i].at # "sending" \/ runs'[i].sent # runs[i].sent
  PROVE  runs[i].loop \notin cancelled
<1>1. Typed BY DEF LoopInv
<1>2. ASSUME NEW j \in DOMAIN runs, RunOnly(j), j # i PROVE FALSE
  BY <1>2 DEF RunOnly
<1>3. ASSUME NEW j \in DOMAIN runs, RunStep(j)
      PROVE  runs[i].loop \notin cancelled
  <2>1. CASE LookUp(j) BY <1>1, <1>2, <2>1, LookUpOnly
  <2>2. CASE PlaceTab(j) BY <1>1, <1>2, <2>2, PlaceTabOnly DEF Placing
  <2>3. CASE CreateSpace(j) BY <1>1, <1>2, <2>3, CreateSpaceOnly
  <2>4. CASE OpenTab(j) BY <1>1, <1>2, <2>4, OpenTabOnly
  <2>5. CASE SavedOpen(j) BY <1>1, <1>2, <2>5, SavedOpenOnly
  <2>6. CASE SentStep(j) BY <1>1, <1>2, <2>6, SentStepOnly
  <2>7. CASE Finished(j) BY <1>2, <2>7, FinishedStep
  <2>8. CASE CloseOldest(j) BY <1>2, <2>8, CloseOldestStep
  <2>9. CASE LastSave(j) BY <1>2, <2>9, LastSaveStep
  <2>. QED BY <1>3, <2>1, <2>2, <2>3, <2>4, <2>5, <2>6, <2>7, <2>8, <2>9 DEF RunStep
<1>4. CASE runs' = runs BY <1>4
<1>5. CASE LoopTickSaved BY <1>5, LoopTickSavedStep
<1>6. ASSUME NEW l \in Loops, RunNow(l) PROVE FALSE BY <1>6, RunNowStep
<1>. QED BY <1>3, <1>4, <1>5, <1>6 DEF LoopNext, LoopTick, Turn, RemoveLoop, CloseTab, DeleteSpace

\* A loop that was turned off or deleted while it ran starts no further step, whatever the run
\* was waiting for.
THEOREM CancelledSend == LoopSpec => CancelledSendsNoMore
<1>1. LoopInv /\ [LoopNext]_loopVars =>
         [\A i \in DOMAIN runs :
             /\ runs'[i].at = "sending"
             /\ runs[i].at # "sending" \/ runs'[i].sent # runs[i].sent
             => runs[i].loop \notin cancelled]_loopVars
  BY SendsUncancelled
<1>. QED BY <1>1, LoopInvHolds, PTL DEF LoopSpec, CancelledSendsNoMore
=============================================================================
