------------------------------ MODULE StoreProofs ------------------------------
(***************************************************************************)
(* Proofs about what is stored: WorkspaceTabs and, further below, the      *)
(* files of one store, StorePublish.                                       *)
(*                                                                         *)
(* WorkspaceTabs, for any workspaces, tabs and numbers of operations,      *)
(* failed writes and crashes: what was answered about a tab stands         *)
(* (AnswersStand).  Three documents must agree with what was answered: the *)
(* store, the one that is being written, and memory.  An operation that    *)
(* has made its change shows in memory at once (InMemory), in the document *)
(* of its own write (HeadShown), and, when it is done, in the store and in *)
(* every document that may still become the store (InStore).               *)
(*                                                                         *)
(* StorePublish, for any number of processes, retries, failures and        *)
(* crashes: a temp file belongs to one publish, so it holds what that      *)
(* publish wrote (TempInv).  The store is torn only before the first       *)
(* recovery; whoever copies it to the backup, or publishes without having  *)
(* recovered, has seen it whole (SeenWhole), and a recovery leaves the     *)
(* backup alone.                                                           *)
(***************************************************************************)
EXTENDS WorkspaceTabs, StorePublish, TLAPS, SequenceTheorems

Memory == Document(spaces, listed, tab)

TabObject == [ws : Workspaces, session : Nat, stopped : BOOLEAN]

IsDocument(d) ==
    /\ d = [spaces |-> d.spaces, tabs |-> d.tabs]
    /\ d.spaces \subseteq Workspaces
    /\ DOMAIN d.tabs \subseteq Tabs
    /\ d.tabs = [t \in DOMAIN d.tabs |-> d.tabs[t]]
    /\ \A t \in DOMAIN d.tabs : d.tabs[t] \in TabObject

Operation ==
    [kind : {"none", "add", "delete", "drop", "restart", "exit"},
     at : {"idle", "saving", "ending", "removing", "undoing", "done", "failed", "lost", "cut"},
     tab : Tabs, ws : Workspaces, before : SUBSET Tabs, ends : SUBSET (Tabs \X Nat)]

WsTypes ==
    /\ phase \in {"up", "booting", "down"}
    /\ spaces \subseteq Workspaces /\ listed \subseteq Tabs
    /\ tab \in [Tabs -> TabObject]
    /\ made \in [Tabs -> Nat]
    /\ sessions \subseteq Tabs \X Nat
    /\ ops \in [TabOps -> Operation]
    /\ writes \in Seq(0 .. MaxTabOps)
    /\ IsDocument(doc) /\ IsDocument(disk)
    /\ flushTimer \in BOOLEAN
    /\ spent \in [moves : Nat, failures : Nat, crashes : Nat]

\* Where an operation may be; a server that is not up works on none.
OpFits(op, p) ==
    /\ op.kind = "none" <=> op.at = "idle"
    /\ op.at = "undoing" => op.kind \in {"add", "restart"}
    /\ op.at = "ending" => op.kind \in {"delete", "drop", "restart"}
    /\ op.at = "removing" => op.kind \in {"delete", "drop"}
    /\ op.kind = "restart" /\ op.at = "saving" =>
          \E a, b \in Nat : op.ends = {<<op.tab, a>>, <<op.tab, b>>}
    /\ op.at \in {"saving", "ending", "removing", "undoing"} => p = "up"

OpsFit == \A i \in TabOps : OpFits(ops[i], phase)

\* Every write but the timer's is of an operation that waits for it, and of one only.
Waiting == {i \in TabOps : ops[i].at \in {"saving", "removing"}}

WritesFit ==
    /\ phase = "down" => writes = <<>>
    /\ phase = "booting" => writes = <<0>> /\ doc = Memory
    /\ \A k \in DOMAIN writes : writes[k] # 0 => writes[k] \in Waiting
    /\ \A k, l \in DOMAIN writes : k # l => writes[k] = 0 \/ writes[k] # writes[l]
    /\ writes = <<>> => doc = disk

\* A tab is added once.
AddedOnce ==
    /\ \A t \in listed \union DOMAIN doc.tabs \union DOMAIN disk.tabs : made[t] >= 1
    /\ \A i \in TabOps : ops[i].kind \in {"add", "delete"} => made[ops[i].tab] >= 1
    /\ \A i, j \in TabOps :
          ops[i].kind = "add" /\ ops[j].kind = "add" /\ ops[i].tab = ops[j].tab => i = j

\* The tabs that a deletion is about, and those that somebody restarted.
Removals == {t \in Tabs : Removed(t)}
Restarts == {ops[i].tab : i \in {j \in TabOps : ops[j].kind = "restart"}}

\* The change of an operation shows in a document, for those removals.
Shows(d, op, removals) ==
    /\ op.kind = "add" /\ op.at \in {"saving", "done"} /\ op.tab \notin removals
          => op.tab \in DOMAIN d.tabs
    /\ op.kind = "delete" /\ op.at \in {"removing", "done"} => op.tab \notin DOMAIN d.tabs
    /\ op.kind = "drop" /\ op.at \in {"removing", "done"}
          => /\ op.ws \notin d.spaces
             /\ \A t \in DOMAIN d.tabs : d.tabs[t].ws # op.ws

\* The mark of a deletion is in a document, for those restarts and failures.
Marks(d, op, restarts, failures) ==
    /\ failures = 0 /\ op.kind = "delete" /\ op.tab \notin restarts
    /\ op.at \in {"saving", "ending", "removing", "cut", "done"}
    /\ op.tab \in DOMAIN d.tabs
    => d.tabs[op.tab].stopped

\* A document that everything shows in, and one that shows what was answered.
ShowsAll(d, all, removals, restarts, failures) ==
    \A i \in TabOps : Shows(d, all[i], removals) /\ Marks(d, all[i], restarts, failures)

ShowsDone(d, all, removals, restarts, failures) ==
    \A i \in TabOps :
        /\ all[i].at = "done" => Shows(d, all[i], removals)
        /\ all[i].at # "saving" => Marks(d, all[i], restarts, failures)

InMemory == phase # "down" => ShowsAll(Memory, ops, Removals, Restarts, spent.failures)

InStore ==
    /\ ShowsDone(disk, ops, Removals, Restarts, spent.failures)
    /\ ShowsDone(doc, ops, Removals, Restarts, spent.failures)

HeadShown ==
    writes # <<>> /\ writes[1] # 0 =>
        /\ Shows(doc, ops[writes[1]], Removals)
        /\ Marks(doc, ops[writes[1]], Restarts, spent.failures)

\* A tab that nobody restarted has no session but its own, which a deletion ends.
SessionsFit ==
    /\ phase = "down" => sessions = {}
    /\ \A s \in sessions : made[s[1]] >= 1
    /\ \A s \in sessions : s[1] \notin Restarts => s[2] = tab[s[1]].session
    /\ \A i \in TabOps : ops[i].kind = "delete" /\ ops[i].tab \notin Restarts =>
          /\ ops[i].at = "ending" => ops[i].ends = {<<ops[i].tab, tab[ops[i].tab].session>>}
          /\ spent.failures = 0 /\ ops[i].at \in {"removing", "cut", "done"}
                => \A s \in sessions : s[1] # ops[i].tab

\* The document of the last write is memory, or a save is due.
Saved ==
    phase = "up" /\ spent.failures = 0
    => \/ flushTimer \/ Len(writes) > 1 \/ doc = Memory
       \/ \E i \in TabOps : ops[i].kind = "delete" /\ ops[i].at = "failed"

TabsInv ==
    /\ WsTypes /\ OpsFit /\ WritesFit /\ AddedOnce
    /\ InMemory /\ InStore /\ HeadShown /\ SessionsFit /\ Saved

-----------------------------------------------------------------------------
(* Documents.                                                              *)

LEMMA MemoryParts ==
    /\ Memory.spaces = spaces
    /\ DOMAIN Memory.tabs = listed
    /\ \A t \in listed : Memory.tabs[t] = tab[t]
BY DEF Memory, Document

LEMMA DocumentType ==
    ASSUME NEW s \in SUBSET Workspaces, NEW l \in SUBSET Tabs, NEW objects \in [Tabs -> TabObject]
    PROVE  IsDocument(Document(s, l, objects))
BY DEF IsDocument, Document

\* What is asked of a document only weakens when there are more deletions, restarts and failures.
LEMMA ShowsLess ==
    ASSUME NEW d, NEW op, NEW g, NEW h, g \subseteq h, Shows(d, op, g)
    PROVE  Shows(d, op, h)
BY DEF Shows

LEMMA MarksLess ==
    ASSUME NEW d, NEW op, NEW r, NEW q, NEW f, NEW e,
           r \subseteq q, e = 0 => f = 0, Marks(d, op, r, f)
    PROVE  Marks(d, op, q, e)
BY DEF Marks

\* The operations from which a document has nothing to show.
Silent(op) == \/ op.at \in {"idle", "undoing", "failed", "lost"}
              \/ op.kind \in {"none", "restart", "exit"}

LEMMA SilentShows ==
    ASSUME NEW d, NEW op, NEW g, NEW r, NEW f, Silent(op)
    PROVE  Shows(d, op, g) /\ Marks(d, op, r, f)
BY DEF Silent, Shows, Marks

\* Operations go on: what each is about stays.
Same(op, new) == new.kind = op.kind /\ new.tab = op.tab /\ new.ws = op.ws

Grows == /\ \A i \in TabOps : ops[i].kind # "none" => Same(ops[i], ops'[i])
         /\ spent'.failures = 0 => spent.failures = 0

LEMMA GrowsMore ==
    ASSUME WsTypes, Grows
    PROVE  Removals \subseteq Removals' /\ Restarts \subseteq Restarts'
<1>1. Removals \subseteq Removals'
  BY DEF Removals, Removed, Grows, Same
<1>2. Restarts \subseteq Restarts'
  BY DEF Restarts, Grows, Same
<1> QED  BY <1>1, <1>2

\* When nothing but the progress of operations changes, deletions and restarts are the same.
LEMMA GrowsSame ==
    ASSUME WsTypes, \A i \in TabOps : Same(ops[i], ops'[i])
    PROVE  Removals' = Removals /\ Restarts' = Restarts
<1>1. Removals' = Removals
  BY DEF Removals, Removed, Same
<1>2. Restarts' = Restarts
  BY DEF Restarts, Same
<1> QED  BY <1>1, <1>2

\* How an operation may go on without a new claim about the store.
Carries(old, new) ==
    \/ new = old
    \/ new.at = "saving"
    \/ Silent(new)
    \/ old.at \in {"ending", "removing"} /\ new.at \in {"removing", "cut"} /\ Same(old, new)

LEMMA CarriesMarks ==
    ASSUME NEW d, NEW old, NEW new, NEW r, NEW f, Marks(d, old, r, f),
           old.at \in {"ending", "removing"}, Same(old, new)
    PROVE  Marks(d, new, r, f)
BY DEF Marks, Same

\* A document that stays shows what it did.
LEMMA DoneLess ==
    ASSUME NEW d, NEW all, NEW new, NEW g, NEW h, NEW r, NEW q, NEW f, NEW e,
           ShowsDone(d, all, g, r, f), g \subseteq h, r \subseteq q, e = 0 => f = 0,
           \A i \in TabOps : Carries(all[i], new[i])
    PROVE  ShowsDone(d, new, h, q, e)
<1> SUFFICES ASSUME NEW i \in TabOps
             PROVE  /\ new[i].at = "done" => Shows(d, new[i], h)
                    /\ new[i].at # "saving" => Marks(d, new[i], q, e)
  BY DEF ShowsDone
<1>1. CASE new[i] = all[i]
  BY <1>1, ShowsLess, MarksLess DEF ShowsDone
<1>2. CASE new[i].at = "saving"
  BY <1>2
<1>3. CASE Silent(new[i])
  BY <1>3, SilentShows
<1>4. CASE /\ all[i].at \in {"ending", "removing"} /\ new[i].at \in {"removing", "cut"}
           /\ Same(all[i], new[i])
  <2>1. Marks(d, all[i], r, f)
    BY <1>4 DEF ShowsDone
  <2>2. Marks(d, new[i], r, f)
    BY <1>4, <2>1, CarriesMarks
  <2> QED  BY <1>4, <2>2, MarksLess
<1> QED  BY <1>1, <1>2, <1>3, <1>4 DEF Carries

LEMMA AllIsDone ==
    ASSUME NEW d, NEW all, NEW g, NEW r, NEW f, ShowsAll(d, all, g, r, f)
    PROVE  ShowsDone(d, all, g, r, f)
BY DEF ShowsAll, ShowsDone

-----------------------------------------------------------------------------
(* The parts of an action.                                                 *)

LEMMA OpsType == ASSUME WsTypes, NEW i \in TabOps PROVE ops[i] \in Operation
BY DEF WsTypes

LEMMA IdleType == Idle \in Operation /\ Idle.kind = "none" /\ Idle.at = "idle"
BY WorkspaceAssumption DEF Idle, Operation

\* The writes after a save: those that waited, and its own as the last.
LEMMA SaveWrites ==
    ASSUME WsTypes, NEW i \in 0 .. MaxTabOps, SaveNow(i)
    PROVE  /\ writes' \in Seq(0 .. MaxTabOps) /\ writes' # <<>>
           /\ Len(writes') = Len(writes) + 1
           /\ \A k \in DOMAIN writes : writes'[k] = writes[k]
           /\ writes'[Len(writes) + 1] = i
           /\ writes = <<>> => doc' = Memory' /\ writes' = <<i>>
           /\ writes # <<>> => doc' = doc /\ writes'[1] = writes[1] /\ Len(writes') > 1
           /\ flushTimer' = FALSE /\ disk' = disk
<1>1. writes \in Seq(0 .. MaxTabOps) /\ writes' = Append(writes, i)
  BY DEF SaveNow, WsTypes
<1>2. /\ writes' \in Seq(0 .. MaxTabOps) /\ writes' # <<>>
      /\ Len(writes') = Len(writes) + 1
      /\ \A k \in DOMAIN writes : writes'[k] = writes[k]
      /\ writes'[Len(writes) + 1] = i
  BY <1>1
<1>5. writes = <<>> => writes' = <<i>>
  BY <1>1
<1>3. writes # <<>> => writes'[1] = writes[1] /\ Len(writes') > 1
  BY <1>1
<1>4. doc' = (IF writes = <<>> THEN Memory' ELSE doc)
  BY DEF SaveNow, Memory
<1> QED  BY <1>2, <1>3, <1>4, <1>5 DEF SaveNow

\* The queue of writes after a save.
LEMMA SaveQueue ==
    ASSUME WsTypes, WritesFit, NEW i \in 0 .. MaxTabOps, SaveNow(i),
           phase = "up" /\ phase' = "up",
           i # 0 => i \in Waiting' /\ i \notin Waiting, Waiting \subseteq Waiting'
    PROVE  WritesFit'
<1>1. /\ writes' \in Seq(0 .. MaxTabOps) /\ writes' # <<>>
      /\ Len(writes') = Len(writes) + 1
      /\ \A k \in DOMAIN writes : writes'[k] = writes[k]
      /\ writes'[Len(writes) + 1] = i
  BY SaveWrites
<1>2. DOMAIN writes = 1 .. Len(writes) /\ DOMAIN writes' = 1 .. Len(writes) + 1 /\ Len(writes) \in Nat
  BY <1>1 DEF WsTypes
<1>3. \A k \in DOMAIN writes' : k \in DOMAIN writes \/ k = Len(writes) + 1
  BY <1>2
<1>4. \A k \in DOMAIN writes' : writes'[k] # 0 => writes'[k] \in Waiting'
  BY <1>1, <1>3 DEF WritesFit
<1>5. ASSUME NEW k \in DOMAIN writes', NEW l \in DOMAIN writes', k # l
      PROVE  writes'[k] = 0 \/ writes'[k] # writes'[l]
  <2>1. CASE k \in DOMAIN writes /\ l \in DOMAIN writes
    BY <1>1, <1>5, <2>1 DEF WritesFit
  <2>2. CASE k \in DOMAIN writes /\ l = Len(writes) + 1
    BY <1>1, <1>4, <2>2 DEF WritesFit
  <2>3. CASE k = Len(writes) + 1 /\ l \in DOMAIN writes
    BY <1>1, <1>4, <2>3 DEF WritesFit
  <2> QED  BY <1>3, <1>5, <2>1, <2>2, <2>3
<1> QED  BY <1>1, <1>4, <1>5 DEF WritesFit

\* The store and the documents on their way, after a save by an operation that shows in memory.
LEMMA SaveShows ==
    ASSUME TabsInv, NEW i \in 0 .. MaxTabOps, SaveNow(i), Grows, InMemory', phase' = "up",
           \A j \in TabOps : Carries(ops[j], ops'[j]),
           \A j \in Waiting : ops'[j] = ops[j]
    PROVE  InStore' /\ HeadShown' /\ Saved'
<1>1. WsTypes /\ WritesFit /\ InStore /\ HeadShown
  BY DEF TabsInv
<1>2. /\ writes = <<>> => doc' = Memory' /\ writes' = <<i>>
      /\ writes # <<>> => doc' = doc /\ writes'[1] = writes[1] /\ Len(writes') > 1
      /\ disk' = disk
  BY <1>1, SaveWrites
<1>3. Removals \subseteq Removals' /\ Restarts \subseteq Restarts'
      /\ (spent'.failures = 0 => spent.failures = 0)
  BY <1>1, GrowsMore DEF Grows
<1>4. ShowsAll(Memory', ops', Removals', Restarts', spent'.failures)
  BY DEF InMemory
<1>5. ShowsDone(disk', ops', Removals', Restarts', spent'.failures)
  BY <1>1, <1>2, <1>3, DoneLess DEF InStore
<1>6. ShowsDone(doc', ops', Removals', Restarts', spent'.failures)
  <2>1. CASE writes = <<>>
    BY <1>2, <1>4, <2>1, AllIsDone
  <2>2. CASE writes # <<>>
    BY <1>1, <1>2, <1>3, <2>2, DoneLess DEF InStore
  <2> QED  BY <2>1, <2>2
<1>7. HeadShown'
  <2>1. CASE writes = <<>>
    BY <1>2, <1>4, <2>1 DEF HeadShown, ShowsAll, TabOps
  <2>2. CASE writes # <<>>
    <3> SUFFICES ASSUME writes[1] # 0
                 PROVE  /\ Shows(doc', ops'[writes[1]], Removals')
                        /\ Marks(doc', ops'[writes[1]], Restarts', spent'.failures)
      BY <1>2, <2>2 DEF HeadShown
    <3>1. writes[1] \in Waiting
      BY <1>1, <2>2 DEF WritesFit, WsTypes
    <3>2. Shows(doc, ops[writes[1]], Removals) /\ Marks(doc, ops[writes[1]], Restarts, spent.failures)
      BY <1>1, <2>2 DEF HeadShown
    <3>3. ops'[writes[1]] = ops[writes[1]]
      BY <3>1
    <3> QED  BY <1>2, <1>3, <2>2, <3>2, <3>3, ShowsLess, MarksLess
  <2> QED  BY <2>1, <2>2
<1>8. Saved'
  BY <1>2 DEF Saved
<1> QED  BY <1>5, <1>6, <1>7, <1>8 DEF InStore

\* What memory shows, in its own terms.
LEMMA DocumentShows ==
    ASSUME NEW s, NEW l, NEW objects, NEW op, NEW g, NEW r, NEW f
    PROVE  /\ Shows(Document(s, l, objects), op, g) <=>
                 /\ op.kind = "add" /\ op.at \in {"saving", "done"} /\ op.tab \notin g => op.tab \in l
                 /\ op.kind = "delete" /\ op.at \in {"removing", "done"} => op.tab \notin l
                 /\ op.kind = "drop" /\ op.at \in {"removing", "done"}
                       => op.ws \notin s /\ \A t \in l : objects[t].ws # op.ws
           /\ Marks(Document(s, l, objects), op, r, f) <=>
                 (/\ f = 0 /\ op.kind = "delete" /\ op.tab \notin r
                  /\ op.at \in {"saving", "ending", "removing", "cut", "done"}
                  /\ op.tab \in l
                  => objects[op.tab].stopped)
<1> DEFINE d == Document(s, l, objects)
<1>1. d.spaces = s /\ DOMAIN d.tabs = l /\ \A t \in l : d.tabs[t] = objects[t]
  BY DEF Document
<1> HIDE DEF d
<1>2. Shows(d, op, g) <=>
         /\ op.kind = "add" /\ op.at \in {"saving", "done"} /\ op.tab \notin g => op.tab \in l
         /\ op.kind = "delete" /\ op.at \in {"removing", "done"} => op.tab \notin l
         /\ op.kind = "drop" /\ op.at \in {"removing", "done"}
               => op.ws \notin s /\ \A t \in l : objects[t].ws # op.ws
  BY <1>1 DEF Shows
<1>3. Marks(d, op, r, f) <=>
         (/\ f = 0 /\ op.kind = "delete" /\ op.tab \notin r
          /\ op.at \in {"saving", "ending", "removing", "cut", "done"}
          /\ op.tab \in l
          => objects[op.tab].stopped)
  BY <1>1 DEF Marks
<1> QED  BY <1>2, <1>3 DEF d

\* When a new request shows in memory.
LEMMA RequestShows ==
    ASSUME NEW s, NEW l, NEW objects, NEW op, NEW g, NEW r, NEW f, op.at = "saving",
           op.kind = "add" => op.tab \in l,
           op.kind = "delete" => objects[op.tab].stopped
    PROVE  Shows(Document(s, l, objects), op, g) /\ Marks(Document(s, l, objects), op, r, f)
<1>1. /\ op.kind = "add" /\ op.at \in {"saving", "done"} /\ op.tab \notin g => op.tab \in l
      /\ op.kind = "delete" /\ op.at \in {"removing", "done"} => op.tab \notin l
      /\ op.kind = "drop" /\ op.at \in {"removing", "done"}
            => op.ws \notin s /\ \A t \in l : objects[t].ws # op.ws
  OBVIOUS
<1>2. Shows(Document(s, l, objects), op, g)
  BY ONLY <1>1, DocumentShows
<1>3. Marks(Document(s, l, objects), op, r, f)
  BY DocumentShows
<1> QED  BY <1>2, <1>3

\* When a removal shows in memory.
LEMMA RemovalShows ==
    ASSUME NEW s, NEW l, NEW objects, NEW op, NEW g, NEW r, NEW f, op.at = "removing",
           op.kind # "add",
           op.kind = "delete" => op.tab \notin l,
           op.kind = "drop" => op.ws \notin s /\ \A t \in l : objects[t].ws # op.ws
    PROVE  Shows(Document(s, l, objects), op, g) /\ Marks(Document(s, l, objects), op, r, f)
<1>1. /\ op.kind = "add" /\ op.at \in {"saving", "done"} /\ op.tab \notin g => op.tab \in l
      /\ op.kind = "delete" /\ op.at \in {"removing", "done"} => op.tab \notin l
      /\ op.kind = "drop" /\ op.at \in {"removing", "done"}
            => op.ws \notin s /\ \A t \in l : objects[t].ws # op.ws
  OBVIOUS
<1>2. Shows(Document(s, l, objects), op, g)
  BY ONLY <1>1, DocumentShows
<1>3. Marks(Document(s, l, objects), op, r, f)
  BY DocumentShows
<1> QED  BY <1>2, <1>3

\* A change of memory that an operation may see: no tab leaves but by a deletion, none comes
\* that was there before, none gets a workspace that is gone, no mark is lost but by a restart.
Follows(s, l, o, u, m, p, op, h, q, e) ==
    /\ op.kind = "add" /\ op.tab \in l => op.tab \in m \/ op.tab \in h
    /\ op.kind = "delete" => op.tab \in l \/ op.tab \notin m
    /\ u \subseteq s
    /\ \A t \in m : (t \in l /\ p[t].ws = o[t].ws) \/ p[t].ws \in s
    /\ e = 0 /\ op.tab \in l /\ op.tab \in m /\ o[op.tab].stopped
          => p[op.tab].stopped \/ op.tab \in q

LEMMA FollowsShows ==
    ASSUME NEW s, NEW l, NEW o, NEW u, NEW m, NEW p, NEW op, NEW g, NEW h, NEW r, NEW q, NEW f, NEW e,
           Follows(s, l, o, u, m, p, op, h, q, e), g \subseteq h, r \subseteq q, e = 0 => f = 0,
           Shows(Document(s, l, o), op, g), Marks(Document(s, l, o), op, r, f)
    PROVE  Shows(Document(u, m, p), op, h) /\ Marks(Document(u, m, p), op, q, e)
<1>1. /\ op.kind = "add" /\ op.at \in {"saving", "done"} /\ op.tab \notin g => op.tab \in l
      /\ op.kind = "delete" /\ op.at \in {"removing", "done"} => op.tab \notin l
      /\ op.kind = "drop" /\ op.at \in {"removing", "done"}
            => op.ws \notin s /\ \A t \in l : o[t].ws # op.ws
  BY DocumentShows
<1>2. /\ f = 0 /\ op.kind = "delete" /\ op.tab \notin r
      /\ op.at \in {"saving", "ending", "removing", "cut", "done"}
      /\ op.tab \in l
      => o[op.tab].stopped
  BY DocumentShows
<1>3. /\ op.kind = "add" /\ op.at \in {"saving", "done"} /\ op.tab \notin h => op.tab \in m
      /\ op.kind = "delete" /\ op.at \in {"removing", "done"} => op.tab \notin m
      /\ op.kind = "drop" /\ op.at \in {"removing", "done"}
            => op.ws \notin u /\ \A t \in m : p[t].ws # op.ws
  BY <1>1 DEF Follows
<1>4. /\ e = 0 /\ op.kind = "delete" /\ op.tab \notin q
      /\ op.at \in {"saving", "ending", "removing", "cut", "done"}
      /\ op.tab \in m
      => p[op.tab].stopped
  BY <1>2 DEF Follows
<1>5. Shows(Document(u, m, p), op, h)
  BY ONLY <1>3, DocumentShows
<1>6. Marks(Document(u, m, p), op, q, e)
  BY ONLY <1>4, DocumentShows
<1> QED  BY <1>5, <1>6

\* An operation begins.
LEMMA BeginFacts ==
    ASSUME WsTypes, OpsFit, NEW i \in TabOps, NEW op \in Operation, op.at = "saving",
           op.kind # "none", Begins(i, op)
    PROVE  /\ phase = "up" /\ phase' = "up" /\ spent' = spent
           /\ ops' \in [TabOps -> Operation] /\ ops'[i] = op
           /\ \A j \in TabOps \ {i} : ops'[j] = ops[j]
           /\ ops[i].at = "idle" /\ ops[i].kind = "none"
           /\ Grows /\ \A j \in TabOps : Carries(ops[j], ops'[j])
           /\ i \notin Waiting /\ Waiting \subseteq Waiting' /\ i \in Waiting'
           /\ \A j \in Waiting : ops'[j] = ops[j]
<1>1. /\ phase = "up" /\ phase' = "up" /\ spent' = spent
      /\ ops[i].at = "idle" /\ ops[i].kind = "none"
  BY IdleType DEF Begins
<1>2. /\ ops' \in [TabOps -> Operation] /\ ops'[i] = op
      /\ \A j \in TabOps \ {i} : ops'[j] = ops[j]
  BY DEF Begins, WsTypes
<1>3. Grows
  BY <1>1, <1>2 DEF Grows, Same
<1>4. \A j \in TabOps : Carries(ops[j], ops'[j])
  BY <1>2 DEF Carries
<1>5. i \notin Waiting /\ Waiting \subseteq Waiting' /\ i \in Waiting'
  BY <1>1, <1>2 DEF Waiting
<1>6. \A j \in Waiting : ops'[j] = ops[j]
  BY <1>2, <1>5 DEF Waiting
<1> QED  BY <1>1, <1>2, <1>3, <1>4, <1>5, <1>6

\* A request is like any other in all but memory and the sessions.
LEMMA RequestStep ==
    ASSUME TabsInv, NEW i \in TabOps, NEW op \in Operation, op.at = "saving", op.kind # "none",
           OpFits(op, "up"), Begins(i, op), SaveNow(i),
           spaces' \subseteq Workspaces, listed' \subseteq Tabs, tab' \in [Tabs -> TabObject],
           made' \in [Tabs -> Nat], sessions' \subseteq Tabs \X Nat,
           \A t \in Tabs : made'[t] >= made[t],
           \A t \in listed' : made'[t] >= 1,
           op.kind \in {"add", "delete"} => made'[op.tab] >= 1,
           op.kind = "add" => made[op.tab] = 0,
           InMemory', SessionsFit'
    PROVE  TabsInv'
<1>1. WsTypes /\ OpsFit /\ WritesFit /\ AddedOnce
  BY DEF TabsInv
<1>2. /\ phase = "up" /\ phase' = "up" /\ spent' = spent
      /\ ops' \in [TabOps -> Operation] /\ ops'[i] = op
      /\ \A j \in TabOps \ {i} : ops'[j] = ops[j]
      /\ Grows /\ \A j \in TabOps : Carries(ops[j], ops'[j])
      /\ i \notin Waiting /\ Waiting \subseteq Waiting' /\ i \in Waiting'
      /\ \A j \in Waiting : ops'[j] = ops[j]
  BY <1>1, BeginFacts
<1>3. i \in 0 .. MaxTabOps /\ i # 0
  BY WorkspaceAssumption DEF TabOps
<1>4. InStore' /\ HeadShown' /\ Saved'
  BY <1>2, <1>3, SaveShows
<1>5. WritesFit'
  BY <1>1, <1>2, <1>3, SaveQueue
<1>6. /\ writes' \in Seq(0 .. MaxTabOps) /\ disk' = disk /\ flushTimer' = FALSE
      /\ doc' = doc \/ doc' = Memory'
  BY <1>1, <1>3, SaveWrites
<1>7. IsDocument(Memory') /\ DOMAIN Memory'.tabs = listed'
  <2>1. Memory' = Document(spaces', listed', tab')
    BY DEF Memory
  <2>2. IsDocument(Document(spaces', listed', tab'))
    BY DocumentType
  <2> QED  BY <2>1, <2>2 DEF Document
<1>8. WsTypes'
  BY <1>1, <1>2, <1>6, <1>7 DEF WsTypes
<1>9. OpsFit'
  BY <1>1, <1>2 DEF OpsFit
<1>10. AddedOnce'
  <2>1. ASSUME NEW t \in listed' \union DOMAIN doc'.tabs \union DOMAIN disk'.tabs
        PROVE  made'[t] >= 1
    <3>1. CASE t \in listed'
      BY <3>1
    <3>2. CASE t \in DOMAIN doc.tabs \union DOMAIN disk.tabs
      <4>1. made[t] >= 1 /\ t \in Tabs
        BY <1>1, <3>2 DEF AddedOnce, WsTypes, IsDocument
      <4> QED  BY <1>1, <4>1 DEF WsTypes
    <3> QED  BY <1>6, <1>7, <2>1, <3>1, <3>2
  <2>2. ASSUME NEW j \in TabOps, ops'[j].kind \in {"add", "delete"}
        PROVE  made'[ops'[j].tab] >= 1
    <3>1. CASE j = i
      BY <1>2, <2>2, <3>1
    <3>2. CASE j # i
      <4>1. ops'[j] = ops[j] /\ ops[j].tab \in Tabs
        BY <1>1, <1>2, <3>2 DEF WsTypes, Operation
      <4>2. made[ops[j].tab] >= 1
        BY <1>1, <2>2, <4>1 DEF AddedOnce
      <4> QED  BY <1>1, <4>1, <4>2 DEF WsTypes
    <3> QED  BY <3>1, <3>2
  <2>3. ASSUME NEW j \in TabOps, NEW k \in TabOps, ops'[j].kind = "add", ops'[k].kind = "add",
               ops'[j].tab = ops'[k].tab
        PROVE  j = k
    <3>1. ASSUME NEW a \in TabOps, a # i, ops[a].kind = "add", op.kind = "add"
          PROVE  ops[a].tab # op.tab
      BY <1>1, <3>1 DEF AddedOnce
    <3> QED  BY <1>1, <1>2, <2>3, <3>1 DEF AddedOnce
  <2> QED  BY <2>1, <2>2, <2>3 DEF AddedOnce
<1> QED  BY <1>4, <1>5, <1>8, <1>9, <1>10 DEF TabsInv

\* What memory shows of the other operations, when it follows.
LEMMA OthersShown ==
    ASSUME TabsInv, phase = "up", NEW i,
           Removals \subseteq Removals', Restarts \subseteq Restarts',
           spent'.failures = 0 => spent.failures = 0,
           \A j \in TabOps \ {i} : ops'[j] = ops[j],
           \A j \in TabOps \ {i} :
              Follows(spaces, listed, tab, spaces', listed', tab', ops[j],
                      Removals', Restarts', spent'.failures),
           i \in TabOps => /\ Shows(Memory', ops'[i], Removals')
                           /\ Marks(Memory', ops'[i], Restarts', spent'.failures)
    PROVE  InMemory'
<1>1. Memory = Document(spaces, listed, tab) /\ Memory' = Document(spaces', listed', tab')
  BY DEF Memory
<1>2. ASSUME NEW j \in TabOps, j # i
      PROVE  Shows(Memory', ops'[j], Removals') /\ Marks(Memory', ops'[j], Restarts', spent'.failures)
  <2>1. Shows(Memory, ops[j], Removals) /\ Marks(Memory, ops[j], Restarts, spent.failures)
    BY DEF TabsInv, InMemory, ShowsAll
  <2>2. /\ ops'[j] = ops[j]
        /\ Follows(spaces, listed, tab, spaces', listed', tab', ops[j],
                   Removals', Restarts', spent'.failures)
    BY <1>2
  <2> QED  BY <1>1, <2>1, <2>2, FollowsShows
<1> QED  BY <1>2 DEF InMemory, ShowsAll

-----------------------------------------------------------------------------
(* Requests.                                                               *)

LEMMA TabType ==
    ASSUME WsTypes, NEW t \in Tabs
    PROVE  /\ tab[t] \in TabObject /\ tab[t].ws \in Workspaces /\ tab[t].session \in Nat
           /\ tab[t].stopped \in BOOLEAN /\ made[t] \in Nat
BY DEF WsTypes, TabObject

LEMMA AddTabKeeps ==
    ASSUME TabsInv, NEW i \in TabOps, NEW w \in Workspaces, NEW t \in Tabs, AddTab(i, w, t)
    PROVE  TabsInv'
<1> DEFINE op == [Idle EXCEPT !.kind = "add", !.at = "saving", !.tab = t, !.ws = w,
                              !.before = listed]
<1>1. WsTypes /\ OpsFit /\ WritesFit /\ AddedOnce /\ SessionsFit
  BY DEF TabsInv
<1>2. /\ op \in Operation /\ op.kind = "add" /\ op.at = "saving" /\ op.tab = t /\ op.ws = w
  BY <1>1, IdleType DEF Operation, WsTypes
<1>3. Begins(i, op) /\ SaveNow(i)
  BY DEF AddTab
<1>4. /\ w \in spaces /\ made[t] = 0 /\ listed' = listed \cup {t} /\ spaces' = spaces
      /\ sessions' = sessions \cup {<<t, 1>>}
  BY DEF AddTab, NewSession
<1>5. /\ tab' \in [Tabs -> TabObject] /\ tab'[t] = [ws |-> w, session |-> 1, stopped |-> FALSE]
      /\ \A x \in Tabs \ {t} : tab'[x] = tab[x]
  BY <1>1 DEF AddTab, WsTypes, TabObject
<1>6. /\ made' \in [Tabs -> Nat] /\ made'[t] = 1 /\ \A x \in Tabs \ {t} : made'[x] = made[x]
  BY <1>1, <1>4 DEF AddTab, NewSession, WsTypes
<1> HIDE DEF op
<1>7. OpFits(op, "up")
  BY <1>2 DEF OpFits
<1>8. /\ phase = "up" /\ phase' = "up" /\ spent' = spent
      /\ ops' \in [TabOps -> Operation] /\ ops'[i] = op
      /\ \A j \in TabOps \ {i} : ops'[j] = ops[j]
      /\ Grows
  BY <1>1, <1>2, <1>3, BeginFacts
<1>9. Removals \subseteq Removals' /\ Restarts \subseteq Restarts'
  BY <1>1, <1>8, GrowsMore
<1>10. \A x \in listed : made[x] >= 1 /\ x \in Tabs
  BY <1>1 DEF AddedOnce, WsTypes
<1>11. \A j \in TabOps : ops[j].kind = "delete" => ops[j].tab # t /\ ops[j].tab \in Tabs
  BY <1>1, <1>4 DEF AddedOnce, WsTypes, Operation
<1>12. InMemory'
  <2>1. ASSUME NEW j \in TabOps
        PROVE  Follows(spaces, listed, tab, spaces', listed', tab', ops[j],
                      Removals', Restarts', spent'.failures)
    BY <1>4, <1>5, <1>10, <1>11 DEF Follows
  <2>2. Shows(Memory', op, Removals') /\ Marks(Memory', op, Restarts', spent'.failures)
    <3>1. Memory' = Document(spaces', listed', tab')
      BY DEF Memory
    <3>2. /\ op.at = "saving" /\ (op.kind = "add" => op.tab \in listed')
          /\ (op.kind = "delete" => tab'[op.tab].stopped)
      BY <1>2, <1>4
    <3> QED  BY <3>1, <3>2, RequestShows
  <2> QED  BY <1>8, <1>9, <2>1, <2>2, OthersShown
<1>13. SessionsFit'
  <2>1. \A s \in sessions : s[1] \in Tabs /\ s[1] # t /\ made[s[1]] >= 1
    BY <1>1, <1>4 DEF SessionsFit, WsTypes
  <2>2. \A s \in sessions' : s \in sessions \/ s = <<t, 1>>
    BY <1>4
  <2>3. \A s \in sessions' : made'[s[1]] >= 1
    BY <1>6, <2>1, <2>2
  <2>4. \A s \in sessions' : s[1] \notin Restarts' => s[2] = tab'[s[1]].session
    BY <1>1, <1>5, <1>9, <2>1, <2>2 DEF SessionsFit
  <2>5. ASSUME NEW j \in TabOps, ops'[j].kind = "delete", ops'[j].tab \notin Restarts'
        PROVE  /\ ops'[j].at = "ending" =>
                     ops'[j].ends = {<<ops'[j].tab, tab'[ops'[j].tab].session>>}
               /\ spent'.failures = 0 /\ ops'[j].at \in {"removing", "cut", "done"}
                     => \A s \in sessions' : s[1] # ops'[j].tab
    <3>1. j # i
      BY <1>2, <1>8, <2>5
    <3>2. ops'[j] = ops[j] /\ ops[j].tab \in Tabs \ {t} /\ ops[j].tab \notin Restarts
      BY <1>8, <1>9, <1>11, <2>5, <3>1
    <3>3. \A s \in sessions' : s \in sessions \/ s[1] # ops[j].tab
      BY <2>2, <3>2
    <3> QED  BY <1>1, <1>5, <1>8, <2>5, <3>2, <3>3 DEF SessionsFit
  <2> QED  BY <1>8, <2>3, <2>4, <2>5 DEF SessionsFit
<1>14. \A x \in Tabs : made'[x] >= made[x]
  BY <1>1, <1>4, <1>6 DEF WsTypes
<1>15. \A x \in listed' : made'[x] >= 1
  BY <1>4, <1>6, <1>10
<1>16. spaces' \subseteq Workspaces /\ listed' \subseteq Tabs /\ sessions' \subseteq Tabs \X Nat
  BY <1>1, <1>4 DEF WsTypes
<1> QED
  BY <1>2, <1>3, <1>4, <1>5, <1>6, <1>7, <1>12, <1>13, <1>14, <1>15, <1>16, RequestStep

\* A request that marks tabs and ends or begins no session.
LEMMA MarkingKeeps ==
    ASSUME TabsInv, NEW i \in TabOps, NEW op \in Operation, op.at = "saving", op.kind \in {"delete", "drop", "exit"},
           Begins(i, op), SaveNow(i), NEW ts \in SUBSET Tabs, tab' = MarkedStopped(tab, ts),
           op.kind = "delete" => op.tab \in ts /\ op.tab \in listed,
           sessions' \subseteq sessions, UNCHANGED <<spaces, listed, made>>
    PROVE  TabsInv'
<1>1. WsTypes /\ OpsFit /\ WritesFit /\ AddedOnce /\ SessionsFit
  BY DEF TabsInv
<1>2. ASSUME NEW x \in Tabs
      PROVE  /\ tab'[x] = [tab[x] EXCEPT !.stopped = @ \/ x \in ts]
             /\ tab'[x] \in TabObject /\ tab'[x].ws = tab[x].ws
             /\ tab'[x].session = tab[x].session
             /\ (tab[x].stopped => tab'[x].stopped)
             /\ (x \in ts => tab'[x].stopped)
  <2>1. tab[x] \in TabObject
    BY <1>1, TabType
  <2>2. tab'[x] = [tab[x] EXCEPT !.stopped = @ \/ x \in ts]
    BY DEF MarkedStopped
  <2> QED  BY <2>1, <2>2 DEF TabObject
<1>3. tab' \in [Tabs -> TabObject]
  BY <1>2 DEF MarkedStopped
<1>4. OpFits(op, "up") /\ op.kind # "none"
  BY DEF OpFits
<1>5. /\ phase = "up" /\ phase' = "up" /\ spent' = spent
      /\ ops' \in [TabOps -> Operation] /\ ops'[i] = op
      /\ \A j \in TabOps \ {i} : ops'[j] = ops[j]
      /\ Grows
  BY <1>1, <1>4, BeginFacts
<1>6. Removals \subseteq Removals' /\ Restarts \subseteq Restarts'
  BY <1>1, <1>5, GrowsMore
<1>7. listed \subseteq Tabs /\ \A x \in listed : made[x] >= 1
  BY <1>1 DEF AddedOnce, WsTypes
<1>8. InMemory'
  <2>1. ASSUME NEW j \in TabOps
        PROVE  Follows(spaces, listed, tab, spaces', listed', tab', ops[j],
                      Removals', Restarts', spent'.failures)
    BY <1>2, <1>7 DEF Follows
  <2>2. Shows(Memory', op, Removals') /\ Marks(Memory', op, Restarts', spent'.failures)
    <3>1. Memory' = Document(spaces', listed', tab')
      BY DEF Memory
    <3>2. op.kind = "delete" => tab'[op.tab].stopped
      BY <1>2
    <3> QED  BY <3>1, <3>2, RequestShows
  <2> QED  BY <1>5, <1>6, <2>1, <2>2, OthersShown
<1>9. SessionsFit'
  <2>1. \A s \in sessions : s[1] \in Tabs
    BY <1>1 DEF WsTypes
  <2>2. \A s \in sessions' : s \in sessions /\ made'[s[1]] >= 1
    BY <1>1 DEF SessionsFit
  <2>5. \A x \in Tabs : tab'[x].session = tab[x].session
    BY <1>2
  <2>6. \A s \in sessions : s[1] \notin Restarts => s[2] = tab[s[1]].session
    BY <1>1 DEF SessionsFit
  <2>3. \A s \in sessions' : s[1] \notin Restarts' => s[2] = tab'[s[1]].session
    BY <1>6, <2>1, <2>2, <2>5, <2>6
  <2>4. ASSUME NEW j \in TabOps, ops'[j].kind = "delete", ops'[j].tab \notin Restarts'
        PROVE  /\ ops'[j].at = "ending" =>
                     ops'[j].ends = {<<ops'[j].tab, tab'[ops'[j].tab].session>>}
               /\ spent'.failures = 0 /\ ops'[j].at \in {"removing", "cut", "done"}
                     => \A s \in sessions' : s[1] # ops'[j].tab
    <3>1. CASE j = i
      BY <1>5, <3>1
    <3>2. CASE j # i
      <4>1. ops'[j] = ops[j] /\ ops[j].tab \in Tabs /\ ops[j].tab \notin Restarts
        BY <1>1, <1>5, <1>6, <2>4, <3>2 DEF WsTypes, Operation
      <4>2. /\ ops[j].at = "ending" => ops[j].ends = {<<ops[j].tab, tab[ops[j].tab].session>>}
            /\ spent.failures = 0 /\ ops[j].at \in {"removing", "cut", "done"}
                  => \A s \in sessions : s[1] # ops[j].tab
        BY <1>1, <2>4, <4>1 DEF SessionsFit
      <4>3. tab'[ops[j].tab].session = tab[ops[j].tab].session
        BY <2>5, <4>1
      <4> QED  BY <1>5, <2>2, <4>1, <4>2, <4>3
    <3> QED  BY <3>1, <3>2
  <2> QED  BY <1>5, <2>2, <2>3, <2>4 DEF SessionsFit
<1>10. op.kind \in {"add", "delete"} => made'[op.tab] >= 1
  BY <1>7
<1>11. /\ made' \in [Tabs -> Nat] /\ sessions' \subseteq Tabs \X Nat /\ spaces' \subseteq Workspaces
       /\ listed' \subseteq Tabs /\ \A x \in Tabs : made'[x] >= made[x]
  BY <1>1 DEF WsTypes
<1>12. \A x \in listed' : made'[x] >= 1
  BY <1>7
<1>13. op.kind = "add" => made[op.tab] = 0
  OBVIOUS
<1> QED  BY <1>3, <1>4, <1>8, <1>9, <1>10, <1>11, <1>12, <1>13, RequestStep

LEMMA DeletingKeeps ==
    ASSUME TabsInv, NEW i \in TabOps,
           \/ \E t \in Tabs : DeleteTab(i, t)
           \/ \E w \in Workspaces : DeleteWorkspace(i, w)
           \/ \E s \in sessions : SessionExits(i, s)
    PROVE  TabsInv'
<1>1. WsTypes
  BY DEF TabsInv
<1>2. ASSUME NEW t \in Tabs, DeleteTab(i, t)
      PROVE  TabsInv'
  <2> DEFINE op == [Idle EXCEPT !.kind = "delete", !.at = "saving", !.tab = t, !.ws = tab[t].ws,
                                !.before = {x \in {t} : tab[x].stopped}]
  <2>1. op \in Operation /\ op.kind = "delete" /\ op.at = "saving" /\ op.tab = t
    BY <1>1, IdleType, TabType DEF Operation
  <2>2. /\ Begins(i, op) /\ SaveNow(i) /\ tab' = MarkedStopped(tab, {t}) /\ t \in listed
        /\ sessions' \subseteq sessions /\ UNCHANGED <<spaces, listed, made>>
    BY <1>2 DEF DeleteTab
  <2> HIDE DEF op
  <2> QED  BY <2>1, <2>2, MarkingKeeps
<1>3. ASSUME NEW w \in Workspaces, DeleteWorkspace(i, w)
      PROVE  TabsInv'
  <2> DEFINE op == [Idle EXCEPT !.kind = "drop", !.at = "saving", !.ws = w,
                                !.before = {x \in TabsOf(w) : tab[x].stopped},
                                !.ends = {CurrentSession(t) : t \in TabsOf(w)}]
  <2>1. TabsOf(w) \subseteq Tabs /\ {CurrentSession(t) : t \in TabsOf(w)} \subseteq Tabs \X Nat
    BY <1>1, TabType DEF TabsOf, CurrentSession, WsTypes
  <2>2. op \in Operation /\ op.kind = "drop" /\ op.at = "saving"
    BY <2>1, IdleType DEF Operation
  <2>3. /\ Begins(i, op) /\ SaveNow(i) /\ tab' = MarkedStopped(tab, TabsOf(w))
        /\ sessions' \subseteq sessions /\ UNCHANGED <<spaces, listed, made>>
    BY <1>3 DEF DeleteWorkspace
  <2> HIDE DEF op
  <2> QED  BY <2>1, <2>2, <2>3, MarkingKeeps
<1>4. ASSUME NEW s \in sessions, SessionExits(i, s)
      PROVE  TabsInv'
  <2> DEFINE op == [Idle EXCEPT !.kind = "exit", !.at = "saving", !.tab = s[1],
                                !.before = {x \in {s[1]} : tab[x].stopped}]
  <2>1. s[1] \in Tabs
    BY <1>1 DEF WsTypes
  <2>2. op \in Operation /\ op.kind = "exit" /\ op.at = "saving"
    BY <2>1, IdleType DEF Operation
  <2>3. /\ Begins(i, op) /\ SaveNow(i) /\ tab' = MarkedStopped(tab, {s[1]})
        /\ sessions' \subseteq sessions /\ UNCHANGED <<spaces, listed, made>>
    BY <1>4 DEF SessionExits
  <2> HIDE DEF op
  <2> QED  BY <2>1, <2>2, <2>3, MarkingKeeps
<1> QED  BY <1>2, <1>3, <1>4

LEMMA RestartTabKeeps ==
    ASSUME TabsInv, NEW i \in TabOps, NEW t \in Tabs, RestartTab(i, t)
    PROVE  TabsInv'
<1> DEFINE n == made[t] + 1
           op == [Idle EXCEPT !.kind = "restart", !.at = "saving", !.tab = t,
                              !.before = {x \in {t} : tab[x].stopped},
                              !.ends = {CurrentSession(t), <<t, made[t] + 1>>}]
<1>1. WsTypes /\ OpsFit /\ WritesFit /\ AddedOnce /\ SessionsFit
  BY DEF TabsInv
<1>2. n \in Nat /\ made[t] \in Nat /\ CurrentSession(t) = <<t, tab[t].session>> /\ tab[t].session \in Nat
  BY <1>1, TabType DEF CurrentSession
<1>3. /\ op \in Operation /\ op.kind = "restart" /\ op.at = "saving" /\ op.tab = t
      /\ op.ends = {<<t, tab[t].session>>, <<t, n>>}
  <2> DEFINE E == {CurrentSession(t), <<t, made[t] + 1>>}
             B == {x \in {t} : tab[x].stopped}
  <2>1. E \in SUBSET (Tabs \X Nat) /\ B \in SUBSET Tabs
    BY <1>2
  <2>2. E = {<<t, tab[t].session>>, <<t, n>>}
    BY <1>2
  <2> HIDE DEF E, B
  <2>3. Idle \in Operation
    BY IdleType
  <2>4. op = [Idle EXCEPT !.kind = "restart", !.at = "saving", !.tab = t, !.before = B, !.ends = E]
    BY DEF E, B
  <2> HIDE DEF op, n
  <2>5. op \in Operation /\ op.kind = "restart" /\ op.at = "saving" /\ op.tab = t /\ op.ends = E
    BY <2>1, <2>3, <2>4 DEF Operation
  <2> QED  BY <2>2, <2>5
<1>4. OpFits(op, "up")
  BY <1>2, <1>3 DEF OpFits
<1>5. Begins(i, op) /\ SaveNow(i)
  BY DEF RestartTab
<1>6. /\ t \in listed /\ UNCHANGED <<spaces, listed>> /\ sessions' = sessions \cup {<<t, n>>}
      /\ made' = [made EXCEPT ![t] = @ + 1]
      /\ tab' = [tab EXCEPT ![t].session = made[t] + 1, ![t].stopped = FALSE]
  BY DEF RestartTab, NewSession
<1>7. made' \in [Tabs -> Nat] /\ made'[t] = n /\ \A x \in Tabs \ {t} : made'[x] = made[x]
  BY <1>1, <1>2, <1>6 DEF WsTypes
<1>8. /\ tab' \in [Tabs -> TabObject] /\ \A x \in Tabs \ {t} : tab'[x] = tab[x]
      /\ tab'[t].ws = tab[t].ws
  <2>1. tab \in [Tabs -> TabObject] /\ tab[t] \in TabObject
    BY <1>1 DEF WsTypes
  <2>2. tab' = [tab EXCEPT ![t] = [@ EXCEPT !.session = n, !.stopped = FALSE]]
    BY <1>6, <2>1
  <2>3. [tab[t] EXCEPT !.session = n, !.stopped = FALSE] \in TabObject
    BY <1>2, <2>1 DEF TabObject
  <2>4. [tab[t] EXCEPT !.session = n, !.stopped = FALSE].ws = tab[t].ws
    BY <2>1 DEF TabObject
  <2> QED  BY <2>1, <2>2, <2>3, <2>4
<1> HIDE DEF op, n
<1>9. /\ phase = "up" /\ phase' = "up" /\ spent' = spent
      /\ ops' \in [TabOps -> Operation] /\ ops'[i] = op
      /\ \A j \in TabOps \ {i} : ops'[j] = ops[j]
      /\ Grows
  BY <1>1, <1>3, <1>5, BeginFacts
<1>10. Removals \subseteq Removals' /\ Restarts \subseteq Restarts' /\ t \in Restarts'
  <2>1. Removals \subseteq Removals' /\ Restarts \subseteq Restarts'
    BY <1>1, <1>9, GrowsMore
  <2>2. t \in Restarts'
    BY <1>3, <1>9 DEF Restarts
  <2> QED  BY <2>1, <2>2
<1>11. \A x \in listed : made[x] >= 1 /\ x \in Tabs
  BY <1>1 DEF AddedOnce, WsTypes
<1>12. InMemory'
  <2>1. ASSUME NEW j \in TabOps
        PROVE  Follows(spaces, listed, tab, spaces', listed', tab', ops[j],
                       Removals', Restarts', spent'.failures)
    BY <1>6, <1>8, <1>10, <1>11 DEF Follows
  <2>2. Shows(Memory', op, Removals') /\ Marks(Memory', op, Restarts', spent'.failures)
    <3>1. Memory' = Document(spaces', listed', tab')
      BY DEF Memory
    <3> QED  BY <1>3, <3>1, RequestShows
  <2> QED  BY <1>9, <1>10, <2>1, <2>2, OthersShown
<1>13. SessionsFit'
  <2>1. \A s \in sessions : s[1] \in Tabs /\ made[s[1]] >= 1
    BY <1>1 DEF SessionsFit, WsTypes
  <2>2. \A s \in sessions' : s \in sessions \/ s[1] = t
    BY <1>6
  <2>3. \A s \in sessions' : made'[s[1]] >= 1
    BY <1>2, <1>7, <2>1, <2>2 DEF n
  <2>4. \A s \in sessions' : s[1] \notin Restarts' => s[2] = tab'[s[1]].session
    BY <1>1, <1>8, <1>10, <2>1, <2>2 DEF SessionsFit
  <2>5. ASSUME NEW j \in TabOps, ops'[j].kind = "delete", ops'[j].tab \notin Restarts'
        PROVE  /\ ops'[j].at = "ending" =>
                     ops'[j].ends = {<<ops'[j].tab, tab'[ops'[j].tab].session>>}
               /\ spent'.failures = 0 /\ ops'[j].at \in {"removing", "cut", "done"}
                     => \A s \in sessions' : s[1] # ops'[j].tab
    <3>1. j # i
      BY <1>3, <1>9, <2>5
    <3>2. ops'[j] = ops[j] /\ ops[j].tab \in Tabs \ {t} /\ ops[j].tab \notin Restarts
      BY <1>1, <1>9, <1>10, <2>5, <3>1 DEF WsTypes, Operation
    <3>3. \A s \in sessions' : s \in sessions \/ s[1] # ops[j].tab
      BY <2>2, <3>2
    <3> QED  BY <1>1, <1>8, <1>9, <2>5, <3>2, <3>3 DEF SessionsFit
  <2> QED  BY <1>9, <2>3, <2>4, <2>5 DEF SessionsFit
<1>14. \A x \in Tabs : made'[x] >= made[x]
  <2>1. made'[t] >= made[t]
    BY <1>2, <1>7 DEF n
  <2>2. \A x \in Tabs \ {t} : made'[x] = made[x] /\ made[x] \in Nat
    BY <1>1, <1>7 DEF WsTypes
  <2> QED  BY <2>1, <2>2
<1>15. \A x \in listed' : made'[x] >= 1
  BY <1>2, <1>6, <1>7, <1>11 DEF n
<1>16. spaces' \subseteq Workspaces /\ listed' \subseteq Tabs /\ sessions' \subseteq Tabs \X Nat
  BY <1>1, <1>2, <1>6 DEF WsTypes
<1> QED
  BY <1>3, <1>4, <1>5, <1>7, <1>8, <1>12, <1>13, <1>14, <1>15, <1>16, RequestStep

-----------------------------------------------------------------------------
(* Moves, the timer, and the sessions that were ended.                     *)

\* No write begins or ends.
LEMMA StoreStays ==
    ASSUME TabsInv, UNCHANGED <<writes, doc, disk>>, Grows,
           \A j \in TabOps : Carries(ops[j], ops'[j]),
           \A j \in Waiting : ops'[j] = ops[j]
    PROVE  InStore' /\ HeadShown'
<1>1. WsTypes /\ WritesFit /\ InStore /\ HeadShown
  BY DEF TabsInv
<1>2. Removals \subseteq Removals' /\ Restarts \subseteq Restarts'
      /\ (spent'.failures = 0 => spent.failures = 0)
  BY <1>1, GrowsMore DEF Grows
<1>3. InStore'
  BY <1>1, <1>2, DoneLess DEF InStore
<1>4. HeadShown'
  <2> SUFFICES ASSUME writes # <<>>, writes[1] # 0
               PROVE  /\ Shows(doc, ops'[writes[1]], Removals')
                      /\ Marks(doc, ops'[writes[1]], Restarts', spent'.failures)
    BY DEF HeadShown
  <2>1. writes[1] \in Waiting
    BY <1>1 DEF WritesFit, WsTypes
  <2>2. Shows(doc, ops[writes[1]], Removals) /\ Marks(doc, ops[writes[1]], Restarts, spent.failures)
    BY <1>1 DEF HeadShown
  <2>3. ops'[writes[1]] = ops[writes[1]]
    BY <2>1
  <2> QED  BY <1>2, <2>2, <2>3, ShowsLess, MarksLess
<1> QED  BY <1>3, <1>4

LEMMA SameGrows ==
    ASSUME WsTypes, ops' = ops, spent'.failures = spent.failures
    PROVE  /\ Grows /\ Removals' = Removals /\ Restarts' = Restarts /\ Waiting' = Waiting
           /\ \A j \in TabOps : Carries(ops[j], ops'[j])
<1>1. \A j \in TabOps : Same(ops[j], ops'[j]) /\ Carries(ops[j], ops'[j])
  BY DEF Same, Carries
<1>2. Removals' = Removals /\ Restarts' = Restarts
  BY <1>1, GrowsSame
<1> QED  BY <1>1, <1>2 DEF Grows, Waiting

LEMMA MoveTabKeeps ==
    ASSUME TabsInv, NEW t \in Tabs, NEW w \in Workspaces, MoveTab(t, w)
    PROVE  TabsInv'
<1>1. WsTypes /\ OpsFit /\ WritesFit /\ AddedOnce /\ SessionsFit
  BY DEF TabsInv
<1>2. /\ phase = "up" /\ phase' = "up" /\ w \in spaces /\ flushTimer' = TRUE
      /\ tab' = [tab EXCEPT ![t].ws = w] /\ spent' = [spent EXCEPT !.moves = @ + 1]
      /\ UNCHANGED <<spaces, listed, made, sessions, ops, writes, doc, disk>>
  BY DEF MoveTab, SaveSoon
<1>3. spent' \in [moves : Nat, failures : Nat, crashes : Nat] /\ spent'.failures = spent.failures
  <2>1. spent \in [moves : Nat, failures : Nat, crashes : Nat]
    BY <1>1 DEF WsTypes
  <2>2. spent' = [spent EXCEPT !.moves = @ + 1]
    BY <1>2
  <2> QED  BY ONLY <2>1, <2>2
<1>4. /\ tab' \in [Tabs -> TabObject]
      /\ \A x \in Tabs : /\ tab'[x].session = tab[x].session /\ tab'[x].stopped = tab[x].stopped
                         /\ tab'[x].ws \in {tab[x].ws, w}
  <2>1. tab \in [Tabs -> TabObject] /\ tab[t] \in TabObject
    BY <1>1 DEF WsTypes
  <2>2. tab' = [tab EXCEPT ![t] = [@ EXCEPT !.ws = w]]
    BY <1>2, <2>1
  <2>3. LET o == [tab[t] EXCEPT !.ws = w]
        IN  o \in TabObject /\ o.session = tab[t].session /\ o.stopped = tab[t].stopped /\ o.ws = w
    BY <2>1 DEF TabObject
  <2> QED  BY <2>1, <2>2, <2>3
<1>5. /\ Grows /\ Removals' = Removals /\ Restarts' = Restarts /\ Waiting' = Waiting
      /\ \A j \in TabOps : Carries(ops[j], ops'[j])
  BY <1>1, <1>2, <1>3, SameGrows
<1>6. InMemory'
  <2>1. listed \subseteq Tabs
    BY <1>1 DEF WsTypes
  <2>2. ASSUME NEW j \in TabOps
        PROVE  Follows(spaces, listed, tab, spaces', listed', tab', ops[j],
                       Removals', Restarts', spent'.failures)
    BY <1>2, <1>4, <2>1 DEF Follows
  <2>3. 0 \notin TabOps
    BY DEF TabOps
  <2> QED  BY <1>2, <1>3, <1>5, <2>2, <2>3, OthersShown
<1>7. InStore' /\ HeadShown'
  BY <1>2, <1>5, StoreStays
<1>8. WsTypes'
  BY <1>1, <1>2, <1>3, <1>4 DEF WsTypes
<1>9. OpsFit' /\ AddedOnce' /\ Saved'
  BY <1>1, <1>2 DEF OpsFit, AddedOnce, Saved
<1>10. WritesFit'
  BY <1>1, <1>2, <1>5 DEF WritesFit
<1>11. SessionsFit'
  <2>1. \A s \in sessions : s[1] \in Tabs
    BY <1>1 DEF WsTypes
  <2>2. \A j \in TabOps : ops[j].tab \in Tabs
    BY <1>1 DEF WsTypes, Operation
  <2> QED  BY <1>1, <1>2, <1>3, <1>4, <1>5, <2>1, <2>2 DEF SessionsFit
<1> QED  BY <1>6, <1>7, <1>8, <1>9, <1>10, <1>11 DEF TabsInv

LEMMA TimerKeeps == ASSUME TabsInv, FlushTimerFires PROVE TabsInv'
<1>1. WsTypes /\ OpsFit /\ WritesFit /\ AddedOnce /\ SessionsFit /\ InMemory
  BY DEF TabsInv
<1>2. /\ phase = "up" /\ phase' = "up" /\ SaveNow(0)
      /\ UNCHANGED <<spaces, listed, tab, made, sessions, ops, spent>>
  BY DEF FlushTimerFires
<1>3. /\ Grows /\ Removals' = Removals /\ Restarts' = Restarts /\ Waiting' = Waiting
      /\ \A j \in TabOps : Carries(ops[j], ops'[j])
  BY <1>1, <1>2, SameGrows
<1>4. 0 \in 0 .. MaxTabOps
  BY WorkspaceAssumption
<1>5. InMemory'
  BY <1>1, <1>2, <1>3 DEF InMemory, Memory
<1>6. InStore' /\ HeadShown' /\ Saved'
  BY <1>2, <1>3, <1>4, <1>5, SaveShows DEF Waiting
<1>7. WritesFit'
  BY <1>1, <1>2, <1>3, <1>4, SaveQueue
<1>8. /\ writes' \in Seq(0 .. MaxTabOps) /\ disk' = disk /\ flushTimer' = FALSE
      /\ doc' = doc \/ doc' = Memory
  BY <1>1, <1>2, <1>4, SaveWrites DEF Memory
<1>9. IsDocument(Memory) /\ DOMAIN Memory.tabs = listed
  BY <1>1, DocumentType, MemoryParts DEF Memory, WsTypes
<1>10. WsTypes'
  BY <1>1, <1>2, <1>8, <1>9 DEF WsTypes
<1>11. OpsFit' /\ SessionsFit'
  BY <1>1, <1>2, <1>3 DEF OpsFit, SessionsFit
<1>12. AddedOnce'
  <2>1. DOMAIN doc'.tabs \subseteq DOMAIN doc.tabs \union listed
    BY <1>8, <1>9
  <2> QED  BY <1>1, <1>2, <1>8, <2>1 DEF AddedOnce
<1> QED  BY <1>5, <1>6, <1>7, <1>10, <1>11, <1>12 DEF TabsInv

\* An operation that has ended its sessions: a deletion removes its tabs with another write.
LEMMA SessionsEndedKeeps == ASSUME TabsInv, NEW i \in TabOps, SessionsEnded(i) PROVE TabsInv'
<1> DEFINE op == ops[i]
           vanished == op.kind = "delete" /\ op.ws \notin spaces
           removes == op.kind \in {"delete", "drop"} /\ ~vanished
           next == IF removes THEN "removing"
                   ELSE IF op.at = "undoing" \/ vanished THEN "failed" ELSE "done"
<1>1. WsTypes /\ OpsFit /\ WritesFit /\ AddedOnce /\ SessionsFit
  BY DEF TabsInv
<1>2. /\ phase = "up" /\ phase' = "up" /\ op.at \in {"ending", "undoing"}
      /\ sessions' = sessions \ op.ends
      /\ UNCHANGED <<tab, made, spent>>
      /\ listed' = CASE op.kind = "delete" -> listed \ {op.tab}
                     [] op.kind = "drop"   -> listed \ TabsOf(op.ws)
                     [] OTHER -> listed
      /\ spaces' = IF op.kind = "drop" THEN spaces \ {op.ws} ELSE spaces
  BY DEF SessionsEnded
<1>3. op \in Operation /\ OpFits(op, "up")
  BY <1>1, <1>2 DEF OpsFit, WsTypes
<1>4. /\ op.at = "undoing" => op.kind \in {"add", "restart"}
      /\ op.at = "ending" => op.kind \in {"delete", "drop", "restart"}
  BY <1>3 DEF OpFits
<1>5. /\ removes => SaveNow(i)
      /\ ~removes => UNCHANGED <<writes, doc, disk, flushTimer>>
  BY DEF SessionsEnded
<1>6. ops' = [ops EXCEPT ![i] = [op EXCEPT !.at = next, !.ends = {}]]
  <2>1. ops' = [ops EXCEPT ![i].at = next, ![i].ends = {}]
    BY DEF SessionsEnded
  <2> QED  BY <2>1
<1>7. /\ ops' \in [TabOps -> Operation] /\ Same(op, ops'[i])
      /\ ops'[i].at = next /\ \A j \in TabOps \ {i} : ops'[j] = ops[j]
  <2> DEFINE new == [op EXCEPT !.at = next, !.ends = {}]
  <2>1. next \in {"removing", "failed", "done"}
    OBVIOUS
  <2> HIDE DEF next
  <2>2. new \in Operation /\ new.kind = op.kind /\ new.tab = op.tab /\ new.ws = op.ws /\ new.at = next
    BY <1>3, <2>1 DEF Operation
  <2> HIDE DEF new
  <2>3. ops' = [ops EXCEPT ![i] = new]
    BY <1>6 DEF new
  <2> QED  BY <1>1, <2>2, <2>3 DEF WsTypes, Same
<1>8. \A j \in TabOps : Same(ops[j], ops'[j])
  BY <1>7 DEF Same
<1>9. Grows /\ Removals' = Removals /\ Restarts' = Restarts
  BY <1>1, <1>2, <1>8, GrowsSame DEF Grows
<1>10. Waiting \subseteq Waiting' /\ i \notin Waiting /\ (i \in Waiting' <=> removes)
       /\ (~removes => Waiting' = Waiting)
  BY <1>2, <1>7 DEF Waiting
<1>11. \A j \in Waiting : ops'[j] = ops[j]
  BY <1>7, <1>10 DEF Waiting
<1>12. Carries(op, ops'[i])
  BY <1>2, <1>4, <1>7 DEF Carries, Silent, Same
<1>13. \A j \in TabOps : Carries(ops[j], ops'[j])
  BY <1>7, <1>12 DEF Carries
<1>14. listed' \subseteq listed /\ spaces' \subseteq spaces
  BY <1>2
<1>15. InMemory'
  <2>1. \A x \in listed : x \notin listed' => x \in Removals'
    <3>1. op.kind = "drop" => Removals = Tabs
      BY DEF Removals, Removed
    <3>2. op.kind = "delete" => op.tab \in Removals
      BY <1>3 DEF Removals, Removed, Operation
    <3> QED  BY <1>1, <1>2, <1>9, <3>1, <3>2 DEF WsTypes
  <2>2. ASSUME NEW j \in TabOps
        PROVE  Follows(spaces, listed, tab, spaces', listed', tab', ops[j],
                       Removals', Restarts', spent'.failures)
    BY <1>2, <1>14, <2>1 DEF Follows
  <2>3. Shows(Memory', ops'[i], Removals') /\ Marks(Memory', ops'[i], Restarts', spent'.failures)
    <3>1. CASE removes
      <4>1. Memory' = Document(spaces', listed', tab') /\ ops'[i].at = "removing"
        BY <1>7, <3>1 DEF Memory
      <4>2. /\ ops'[i].kind # "add" /\ ops'[i].kind = op.kind /\ ops'[i].tab = op.tab
            /\ ops'[i].ws = op.ws
        BY <1>7, <3>1 DEF Same
      <4>3. ops'[i].kind = "delete" => ops'[i].tab \notin listed'
        BY <1>2, <4>2
      <4>4. ops'[i].kind = "drop" =>
               ops'[i].ws \notin spaces' /\ \A x \in listed' : tab'[x].ws # ops'[i].ws
        BY <1>2, <4>2 DEF TabsOf
      <4> QED  BY <4>1, <4>2, <4>3, <4>4, RemovalShows
    <3>2. CASE ~removes
      <4>1. Silent(ops'[i])
        BY <1>2, <1>4, <1>7, <3>2 DEF Silent, Same
      <4> QED  BY <4>1, SilentShows
    <3> QED  BY <3>1, <3>2
  <2> QED  BY <1>2, <1>7, <1>9, <2>2, <2>3, OthersShown
<1>16. i \in 0 .. MaxTabOps /\ i # 0
  BY WorkspaceAssumption DEF TabOps
<1>17. InStore' /\ HeadShown'
  BY <1>2, <1>5, <1>9, <1>11, <1>13, <1>15, <1>16, SaveShows, StoreStays
<1>18. Saved'
  <2>1. CASE removes
    BY <1>2, <1>5, <1>9, <1>11, <1>13, <1>15, <1>16, <2>1, SaveShows
  <2>2. CASE ~removes /\ vanished
    BY <1>7, <2>2 DEF Saved, Same
  <2>3. CASE ~removes /\ ~vanished
    <3>1. Memory' = Memory
      BY <1>2, <2>3 DEF Memory, Document
    <3>2. \A j \in TabOps : ops[j].kind = "delete" /\ ops[j].at = "failed"
             => ops'[j].kind = "delete" /\ ops'[j].at = "failed"
      BY <1>2, <1>7
    <3>3. Saved
      BY DEF TabsInv
    <3> QED  BY <1>2, <1>5, <2>3, <3>1, <3>2, <3>3 DEF Saved
  <2> QED  BY <2>1, <2>2, <2>3
<1>19. WritesFit'
  <2>1. CASE removes
    BY <1>1, <1>2, <1>5, <1>10, <1>16, <2>1, SaveQueue
  <2>2. CASE ~removes
    BY <1>1, <1>2, <1>5, <1>10, <2>2 DEF WritesFit
  <2> QED  BY <2>1, <2>2
<1>20. /\ writes' \in Seq(0 .. MaxTabOps) /\ disk' = disk /\ flushTimer' \in BOOLEAN
       /\ doc' = doc \/ doc' = Memory'
  <2>1. CASE removes
    BY <1>1, <1>5, <1>16, <2>1, SaveWrites
  <2>2. CASE ~removes
    BY <1>1, <1>5, <2>2 DEF WsTypes
  <2> QED  BY <2>1, <2>2
<1>21. IsDocument(Memory') /\ DOMAIN Memory'.tabs = listed'
  <2>1. Memory' = Document(spaces', listed', tab')
    BY DEF Memory
  <2>2. IsDocument(Document(spaces', listed', tab'))
    BY <1>1, <1>2, <1>14, DocumentType DEF WsTypes
  <2> QED  BY <2>1, <2>2 DEF Document
<1>22. WsTypes'
  <2>1. IsDocument(doc') /\ IsDocument(disk')
    BY <1>1, <1>20, <1>21 DEF WsTypes
  <2> QED  BY <1>1, <1>2, <1>7, <1>14, <1>20, <2>1 DEF WsTypes
<1>23. OpsFit'
  <2>1. OpFits(ops'[i], "up")
    BY <1>2, <1>4, <1>7 DEF OpFits, Same
  <2> QED  BY <1>1, <1>2, <1>7, <2>1 DEF OpsFit
<1>24. AddedOnce'
  <2>1. DOMAIN doc'.tabs \subseteq DOMAIN doc.tabs \union listed
    BY <1>14, <1>20, <1>21
  <2>2. \A x \in listed' \union DOMAIN doc'.tabs \union DOMAIN disk'.tabs : made'[x] >= 1
    BY <1>1, <1>2, <1>14, <1>20, <2>1 DEF AddedOnce
  <2>3. \A j \in TabOps : ops'[j].kind = ops[j].kind /\ ops'[j].tab = ops[j].tab
    BY <1>8 DEF Same
  <2> QED  BY <1>1, <1>2, <2>2, <2>3 DEF AddedOnce
<1>25. SessionsFit'
  <2>1. \A s \in sessions : s[1] \in Tabs /\ s = <<s[1], s[2]>>
    BY <1>1 DEF WsTypes
  <2>2. \A s \in sessions' : s \in sessions /\ s \notin op.ends
    BY <1>2
  <2>3. ASSUME NEW j \in TabOps, ops'[j].kind = "delete", ops'[j].tab \notin Restarts'
        PROVE  /\ ops'[j].at = "ending" =>
                     ops'[j].ends = {<<ops'[j].tab, tab'[ops'[j].tab].session>>}
               /\ spent'.failures = 0 /\ ops'[j].at \in {"removing", "cut", "done"}
                     => \A s \in sessions' : s[1] # ops'[j].tab
    <3>1. CASE j # i
      BY <1>1, <1>2, <1>7, <1>9, <2>2, <2>3, <3>1 DEF SessionsFit
    <3>2. CASE j = i
      <4>1. op.kind = "delete" /\ op.tab \notin Restarts /\ ops'[i].tab = op.tab
        BY <1>7, <1>9, <2>3, <3>2 DEF Same
      <4>2. op.at = "ending"
        BY <1>2, <1>4, <4>1
      <4>3. op.ends = {<<op.tab, tab[op.tab].session>>}
        BY <1>1, <4>1, <4>2 DEF SessionsFit
      <4>4. \A s \in sessions : s[1] = op.tab => s[2] = tab[op.tab].session
        BY <1>1, <4>1 DEF SessionsFit
      <4>5. \A s \in sessions' : s[1] # op.tab
        BY <2>1, <2>2, <4>3, <4>4
      <4> QED  BY <1>7, <3>2, <4>1, <4>5
    <3> QED  BY <3>1, <3>2
  <2> QED  BY <1>1, <1>2, <1>9, <2>2, <2>3 DEF SessionsFit
<1> QED  BY <1>15, <1>17, <1>18, <1>19, <1>22, <1>23, <1>24, <1>25 DEF TabsInv

\* An operation that could not end its sessions stops where it is.
LEMMA EndingFailsKeeps == ASSUME TabsInv, NEW i \in TabOps, EndingFails(i) PROVE TabsInv'
<1>1. WsTypes /\ OpsFit /\ WritesFit /\ AddedOnce /\ SessionsFit /\ InMemory /\ Saved
  BY DEF TabsInv
<1>2. /\ phase = "up" /\ ops[i].at \in {"ending", "undoing"} /\ sessions' \subseteq sessions
      /\ ops' = [ops EXCEPT ![i] = [ops[i] EXCEPT !.at = "failed", !.ends = {}]]
      /\ UNCHANGED <<phase, spaces, listed, tab, made, writes, doc, disk, flushTimer, spent>>
  <2>1. ops' = [ops EXCEPT ![i].at = "failed", ![i].ends = {}]
    BY DEF EndingFails
  <2> QED  BY <2>1 DEF EndingFails
<1>3. /\ ops' \in [TabOps -> Operation] /\ Same(ops[i], ops'[i]) /\ ops'[i].at = "failed"
      /\ \A j \in TabOps \ {i} : ops'[j] = ops[j]
  <2> DEFINE new == [ops[i] EXCEPT !.at = "failed", !.ends = {}]
  <2>1. new \in Operation /\ Same(ops[i], new) /\ new.at = "failed"
    BY <1>1, OpsType DEF Operation, Same
  <2> HIDE DEF new
  <2>2. ops' = [ops EXCEPT ![i] = new]
    BY <1>2 DEF new
  <2> QED  BY <1>1, <2>1, <2>2 DEF WsTypes
<1>4. \A j \in TabOps : Same(ops[j], ops'[j]) /\ Carries(ops[j], ops'[j])
  BY <1>3 DEF Same, Carries, Silent
<1>5. Grows /\ Removals' = Removals /\ Restarts' = Restarts
  BY <1>1, <1>2, <1>4, GrowsSame DEF Grows
<1>6. Waiting' = Waiting /\ \A j \in Waiting : ops'[j] = ops[j]
  BY <1>2, <1>3 DEF Waiting
<1>7. InStore' /\ HeadShown'
  BY <1>2, <1>4, <1>5, <1>6, StoreStays
<1>8. InMemory'
  <2>1. Memory' = Memory
    BY <1>2 DEF Memory
  <2>2. Silent(ops'[i])
    BY <1>3 DEF Silent
  <2> QED  BY <1>1, <1>2, <1>3, <1>5, <2>1, <2>2, SilentShows DEF InMemory, ShowsAll
<1>9. Saved'
  <2>1. Memory' = Memory
    BY <1>2 DEF Memory
  <2>2. \A j \in TabOps : ops[j].kind = "delete" /\ ops[j].at = "failed"
           => ops'[j].kind = "delete" /\ ops'[j].at = "failed"
    BY <1>2, <1>3
  <2> QED  BY <1>1, <1>2, <2>1, <2>2 DEF Saved
<1>10. WsTypes' /\ WritesFit'
  BY <1>1, <1>2, <1>3, <1>6 DEF WsTypes, WritesFit, Memory
<1>11. OpsFit'
  <2>1. OpFits(ops'[i], "up")
    BY <1>1, <1>2, <1>3 DEF OpsFit, OpFits, Same
  <2> QED  BY <1>1, <1>2, <1>3, <2>1 DEF OpsFit
<1>12. AddedOnce'
  BY <1>1, <1>2, <1>4 DEF AddedOnce, Same
<1>13. SessionsFit'
  BY <1>1, <1>2, <1>3, <1>5 DEF SessionsFit
<1> QED  BY <1>7, <1>8, <1>9, <1>10, <1>11, <1>12, <1>13 DEF TabsInv

-----------------------------------------------------------------------------
(* A write ends.                                                           *)

LEMMA TailFacts ==
    ASSUME NEW S, NEW w \in Seq(S), w # <<>>
    PROVE  /\ Tail(w) \in Seq(S) /\ Len(Tail(w)) = Len(w) - 1 /\ Len(w) \in Nat \ {0}
           /\ 1 \in DOMAIN w /\ w[1] \in S
           /\ \A k \in DOMAIN Tail(w) : k + 1 \in DOMAIN w /\ k + 1 # 1 /\ Tail(w)[k] = w[k + 1]
           /\ Tail(w) = <<>> <=> ~(Len(w) > 1)
<1>1. Tail(w) \in Seq(S) /\ Len(Tail(w)) = Len(w) - 1 /\ Len(w) \in Nat \ {0}
  OBVIOUS
<1>2. 1 \in DOMAIN w /\ w[1] \in S
  OBVIOUS
<1>3. \A k \in DOMAIN Tail(w) : k + 1 \in DOMAIN w /\ k + 1 # 1 /\ Tail(w)[k] = w[k + 1]
  OBVIOUS
<1>4. Tail(w) = <<>> <=> ~(Len(w) > 1)
  <2> DEFINE t == Tail(w)
  <2>1. t \in Seq(S) /\ Len(t) = Len(w) - 1 /\ Len(w) \in Nat \ {0}
    BY <1>1
  <2> HIDE DEF t
  <2>2. t = <<>> <=> Len(t) = 0
    BY <2>1, EmptySeq
  <2> QED  BY <2>1, <2>2 DEF t
<1> QED  BY <1>1, <1>2, <1>3, <1>4

\* The queue of writes when its first one has ended and its operation goes on.
LEMMA TailQueue ==
    ASSUME WsTypes, WritesFit, phase = "up", phase' = "up", writes # <<>>, writes' = Tail(writes),
           \A j \in TabOps : j # writes[1] => ops'[j] = ops[j],
           ~(Len(writes) > 1) => doc' = disk'
    PROVE  /\ WritesFit' /\ writes' \in Seq(0 .. MaxTabOps) /\ (writes[1] # 0 => writes[1] \in Waiting)
           /\ Len(writes) > 1 => writes' # <<>> /\ Len(writes') >= 1
           /\ \A k \in DOMAIN writes' : writes'[k] # 0 =>
                 writes'[k] \in Waiting /\ writes'[k] # writes[1]
<1>1. writes \in Seq(0 .. MaxTabOps)
  BY DEF WsTypes
<1>2. /\ writes' \in Seq(0 .. MaxTabOps) /\ Len(writes') = Len(writes) - 1 /\ Len(writes) \in Nat \ {0}
      /\ 1 \in DOMAIN writes
      /\ \A k \in DOMAIN writes' : k + 1 \in DOMAIN writes /\ k + 1 # 1 /\ writes'[k] = writes[k + 1]
      /\ writes' = <<>> <=> ~(Len(writes) > 1)
  BY <1>1, TailFacts
<1>3. ASSUME NEW k \in DOMAIN writes', writes'[k] # 0
      PROVE  writes'[k] \in Waiting /\ writes'[k] # writes[1]
  BY <1>2, <1>3 DEF WritesFit
<1>4. ASSUME NEW k \in DOMAIN writes', NEW l \in DOMAIN writes', k # l
      PROVE  writes'[k] = 0 \/ writes'[k] # writes'[l]
  <2>1. k + 1 \in DOMAIN writes /\ l + 1 \in DOMAIN writes
    BY <1>2
  <2>2. k \in Nat /\ l \in Nat
    BY <1>2
  <2>3. k + 1 # l + 1
    BY <1>4, <2>2
  <2>4. writes[k + 1] = 0 \/ writes[k + 1] # writes[l + 1]
    BY <2>1, <2>3 DEF WritesFit
  <2> QED  BY <1>2, <2>4
<1>5. \A k \in DOMAIN writes' : writes'[k] # 0 => writes'[k] \in Waiting'
  BY <1>3 DEF Waiting
<1>6. writes' = <<>> => doc' = disk'
  BY <1>2
<1>7. WritesFit'
  BY <1>4, <1>5, <1>6 DEF WritesFit
<1>8. writes[1] # 0 => writes[1] \in Waiting
  BY <1>2 DEF WritesFit
<1> QED  BY <1>2, <1>3, <1>7, <1>8

\* An operation whose write is done shows wherever it showed before.
LEMMA WrittenFacts ==
    ASSUME NEW op \in Operation, OpFits(op, "up"), op.at \in {"saving", "removing"},
           NEW e, e = EndsNext(op), e \subseteq Tabs \X Nat
    PROVE  /\ Written(op) \in Operation /\ Same(op, Written(op)) /\ OpFits(Written(op), "up")
           /\ Written(op).at \in {"ending", "done"}
           /\ Written(op).at = "ending" => op.at = "saving" /\ Written(op).ends = e
           /\ Written(op).at = "done" /\ op.kind \in {"delete", "drop"} => op.at = "removing"
           /\ op.kind = "add" => op.at = "saving"
<1>1. CASE op.at = "saving" /\ op.kind \in {"delete", "drop", "restart"}
  <2>1. Written(op) = [op EXCEPT !.at = "ending", !.ends = e, !.before = {}]
    BY <1>1 DEF Written
  <2>2. /\ Written(op) \in Operation /\ Same(op, Written(op))
        /\ Written(op).at = "ending" /\ Written(op).ends = e
    BY <2>1 DEF Operation, Same
  <2> QED  BY <1>1, <2>2 DEF OpFits, Same
<1>2. CASE ~(op.at = "saving" /\ op.kind \in {"delete", "drop", "restart"})
  <2>1. Written(op) = [op EXCEPT !.at = "done", !.ends = {}, !.before = {}]
    BY <1>2 DEF Written
  <2>2. /\ Written(op) \in Operation /\ Same(op, Written(op)) /\ Written(op).at = "done"
    BY <2>1 DEF Operation, Same
  <2> QED  BY <1>2, <2>2 DEF OpFits, Same
<1> QED  BY <1>1, <1>2

LEMMA WrittenShows ==
    ASSUME NEW op \in Operation, NEW new, Same(op, new), new.at \in {"ending", "done"},
           op.at \in {"saving", "removing"},
           new.at = "done" /\ op.kind \in {"delete", "drop"} => op.at = "removing",
           op.kind = "add" => op.at = "saving",
           NEW d, NEW g, NEW r, NEW f, Shows(d, op, g), Marks(d, op, r, f)
    PROVE  Shows(d, new, g) /\ Marks(d, new, r, f)
<1>1. Shows(d, new, g)
  BY DEF Shows, Same
<1>2. Marks(d, new, r, f)
  BY DEF Marks, Same
<1> QED  BY <1>1, <1>2

LEMMA EndsNextType ==
    ASSUME WsTypes, OpsFit, NEW i \in TabOps
    PROVE  EndsNext(ops[i]) \subseteq Tabs \X Nat
<1>1. ops[i] \in Operation
  BY OpsType
<1>2. ops[i].ends \subseteq Tabs \X Nat /\ ops[i].tab \in Tabs
  BY <1>1 DEF Operation
<1>3. CurrentSession(ops[i].tab) \in Tabs \X Nat
  BY <1>2, TabType DEF CurrentSession
<1>4. CASE ops[i].kind = "delete"
  BY <1>3, <1>4 DEF EndsNext
<1>5. CASE ops[i].kind = "restart"
  BY <1>2, <1>5 DEF EndsNext
<1>6. CASE ops[i].kind \notin {"delete", "restart"}
  BY <1>2, <1>6 DEF EndsNext
<1> QED  BY <1>4, <1>5, <1>6

\* The write was done.
LEMMA WriteDoneKeeps ==
    ASSUME TabsInv, phase = "up", writes # <<>>, writes' = Tail(writes), disk' = doc,
           ops' = IF writes[1] = 0 THEN ops ELSE [ops EXCEPT ![writes[1]] = Written(@)],
           doc' = IF Len(writes) > 1 THEN NextDocument ELSE disk',
           UNCHANGED <<phase, spaces, listed, tab, made, sessions, flushTimer, spent>>
    PROVE  TabsInv'
<1> DEFINE h == writes[1]
<1>1. WsTypes /\ OpsFit /\ WritesFit /\ AddedOnce /\ SessionsFit /\ InMemory /\ InStore /\ HeadShown /\ Saved
  BY DEF TabsInv
<1>2. \A j \in TabOps : j # h => ops'[j] = ops[j]
  BY <1>1 DEF WsTypes
<1>3. /\ WritesFit' /\ writes' \in Seq(0 .. MaxTabOps) /\ (h # 0 => h \in Waiting)
      /\ Len(writes) > 1 => writes' # <<>> /\ Len(writes') >= 1
      /\ \A k \in DOMAIN writes' : writes'[k] # 0 => writes'[k] \in Waiting /\ writes'[k] # h
  BY <1>1, <1>2, TailQueue
<1>4. Memory' = Memory /\ NextDocument = Memory
  BY DEF Memory, NextDocument, Document
<1>5. ASSUME h # 0
      PROVE  /\ h \in TabOps /\ ops[h] \in Operation /\ OpFits(ops[h], "up")
             /\ ops[h].at \in {"saving", "removing"} /\ ops'[h] = Written(ops[h])
             /\ Written(ops[h]) \in Operation /\ Same(ops[h], ops'[h]) /\ OpFits(ops'[h], "up")
             /\ ops'[h].at \in {"ending", "done"}
             /\ ops'[h].at = "ending" => ops[h].at = "saving" /\ ops'[h].ends = EndsNext(ops[h])
             /\ ops'[h].at = "done" /\ ops[h].kind \in {"delete", "drop"} => ops[h].at = "removing"
             /\ ops[h].kind = "add" => ops[h].at = "saving"
  <2>1. h \in TabOps /\ ops[h].at \in {"saving", "removing"}
    BY <1>3, <1>5 DEF Waiting
  <2>2. ops[h] \in Operation /\ OpFits(ops[h], "up")
    BY <1>1, <2>1 DEF OpsFit, WsTypes
  <2>3. ops'[h] = Written(ops[h])
    BY <1>1, <1>5, <2>1 DEF WsTypes
  <2>4. EndsNext(ops[h]) \subseteq Tabs \X Nat
    BY <1>1, <2>1, EndsNextType
  <2> QED  BY <2>1, <2>2, <2>3, <2>4, WrittenFacts
<1>6. \A j \in TabOps : Same(ops[j], ops'[j])
  BY <1>2, <1>5 DEF Same
<1>7. Removals' = Removals /\ Restarts' = Restarts
  BY <1>1, <1>6, GrowsSame
<1>8. ASSUME NEW d, h # 0, Shows(d, ops[h], Removals), Marks(d, ops[h], Restarts, spent.failures)
      PROVE  Shows(d, ops'[h], Removals) /\ Marks(d, ops'[h], Restarts, spent.failures)
  BY <1>5, <1>8, WrittenShows
<1>9. ShowsAll(Memory, ops, Removals, Restarts, spent.failures)
  BY <1>1 DEF InMemory
<1>10. ShowsAll(Memory, ops', Removals, Restarts, spent.failures)
  <2> SUFFICES ASSUME NEW j \in TabOps
               PROVE  Shows(Memory, ops'[j], Removals) /\ Marks(Memory, ops'[j], Restarts, spent.failures)
    BY DEF ShowsAll
  <2>1. Shows(Memory, ops[j], Removals) /\ Marks(Memory, ops[j], Restarts, spent.failures)
    BY <1>9 DEF ShowsAll
  <2>2. CASE j # h
    BY <1>2, <2>1, <2>2
  <2>3. CASE j = h
    <3>1. h # 0
      BY <2>3 DEF TabOps
    <3> QED  BY <1>8, <2>1, <2>3, <3>1
  <2> QED  BY <2>2, <2>3
<1>11. InMemory'
  BY <1>4, <1>7, <1>10 DEF InMemory
<1>12. ShowsDone(doc, ops', Removals, Restarts, spent.failures)
  <2> SUFFICES ASSUME NEW j \in TabOps
               PROVE  /\ ops'[j].at = "done" => Shows(doc, ops'[j], Removals)
                      /\ ops'[j].at # "saving" => Marks(doc, ops'[j], Restarts, spent.failures)
    BY DEF ShowsDone
  <2>1. CASE j # h
    BY <1>1, <1>2, <2>1 DEF InStore, ShowsDone
  <2>2. CASE j = h
    <3>1. h # 0
      BY <2>2 DEF TabOps
    <3>2. Shows(doc, ops[h], Removals) /\ Marks(doc, ops[h], Restarts, spent.failures)
      BY <1>1, <3>1 DEF HeadShown
    <3> QED  BY <1>8, <2>2, <3>1, <3>2
  <2> QED  BY <2>1, <2>2
<1>13. doc' = doc \/ doc' = Memory
  BY <1>4
<1>14. InStore'
  <2>1. ShowsDone(Memory, ops', Removals, Restarts, spent.failures)
    BY <1>10, AllIsDone
  <2> QED  BY <1>7, <1>12, <1>13, <2>1 DEF InStore
<1>15. HeadShown'
  <2> SUFFICES ASSUME writes' # <<>>, writes'[1] # 0
               PROVE  /\ Shows(doc', ops'[writes'[1]], Removals')
                      /\ Marks(doc', ops'[writes'[1]], Restarts', spent'.failures)
    BY DEF HeadShown
  <2>1. 1 \in DOMAIN writes' /\ Len(writes) > 1
    BY <1>1, <1>3, TailFacts DEF WsTypes
  <2>2. writes'[1] \in TabOps
    BY <1>3, <2>1 DEF Waiting
  <2>3. doc' = Memory
    BY <1>4, <2>1
  <2> QED  BY <1>7, <1>10, <2>2, <2>3 DEF ShowsAll
<1>16. IsDocument(Memory) /\ DOMAIN Memory.tabs = listed
  BY <1>1, DocumentType, MemoryParts DEF Memory, WsTypes
<1>17. WsTypes'
  <2>1. ops' \in [TabOps -> Operation]
    BY <1>1, <1>5 DEF WsTypes
  <2>2. IsDocument(doc') /\ IsDocument(disk')
    BY <1>1, <1>13, <1>16 DEF WsTypes
  <2> QED  BY <1>1, <1>3, <2>1, <2>2 DEF WsTypes
<1>18. OpsFit'
  BY <1>1, <1>2, <1>5 DEF OpsFit
<1>19. AddedOnce'
  <2>1. \A j \in TabOps : ops'[j].kind = ops[j].kind /\ ops'[j].tab = ops[j].tab
    BY <1>6 DEF Same
  <2>2. DOMAIN doc'.tabs \subseteq DOMAIN doc.tabs \union listed
    BY <1>13, <1>16
  <2> QED  BY <1>1, <2>1, <2>2 DEF AddedOnce
<1>20. SessionsFit'
  <2>1. ASSUME NEW j \in TabOps, ops'[j].kind = "delete", ops'[j].tab \notin Restarts
        PROVE  /\ ops'[j].at = "ending" => ops'[j].ends = {<<ops'[j].tab, tab[ops'[j].tab].session>>}
               /\ spent.failures = 0 /\ ops'[j].at \in {"removing", "cut", "done"}
                     => \A s \in sessions : s[1] # ops'[j].tab
    <3>1. CASE j # h
      BY <1>1, <1>2, <2>1, <3>1 DEF SessionsFit
    <3>2. CASE j = h
      <4>1. h # 0
        BY <3>2 DEF TabOps
      <4>2. ops[h].kind = "delete" /\ ops'[h].tab = ops[h].tab
        BY <1>6, <2>1, <3>2 DEF Same
      <4>3. EndsNext(ops[h]) = {<<ops[h].tab, tab[ops[h].tab].session>>}
        BY <4>2 DEF EndsNext, CurrentSession
      <4>4. ops[h].at = "removing" /\ spent.failures = 0 => \A s \in sessions : s[1] # ops[h].tab
        BY <1>1, <1>5, <2>1, <3>2, <4>1, <4>2 DEF SessionsFit
      <4> QED  BY <1>5, <3>2, <4>1, <4>2, <4>3, <4>4
    <3> QED  BY <3>1, <3>2
  <2> QED  BY <1>1, <1>7, <2>1 DEF SessionsFit
<1>21. Saved'
  <2>1. \A j \in TabOps : ops[j].kind = "delete" /\ ops[j].at = "failed"
           => ops'[j].kind = "delete" /\ ops'[j].at = "failed"
    BY <1>2, <1>5
  <2> QED  BY <1>1, <1>4, <2>1 DEF Saved
<1> QED  BY <1>3, <1>11, <1>14, <1>15, <1>17, <1>18, <1>19, <1>20, <1>21 DEF TabsInv

\* The tabs after a change was taken back: only marks and, for a restart, the session.
LEMMA RestoredFacts ==
    ASSUME WsTypes, OpsFit, NEW i \in TabOps, ops[i].at = "saving"
    PROVE  /\ Restored(ops[i]) \in [Tabs -> TabObject]
           /\ \A t \in Tabs : Restored(ops[i])[t].ws = tab[t].ws
           /\ \A t \in Tabs : t \notin Restarts => Restored(ops[i])[t].session = tab[t].session
<1> DEFINE op == ops[i]
           R == Restored(op)
<1>1. op \in Operation /\ OpFits(op, "up")
  <2>1. phase = "up"
    BY DEF OpsFit, OpFits
  <2> QED  BY <2>1 DEF OpsFit, WsTypes
<1>2. tab \in [Tabs -> TabObject] /\ op.tab \in Tabs
  BY <1>1 DEF WsTypes, Operation
<1>3. ASSUME NEW t \in Tabs, NEW b \in BOOLEAN
      PROVE  LET o == [tab[t] EXCEPT !.stopped = b]
             IN  o \in TabObject /\ o.ws = tab[t].ws /\ o.session = tab[t].session
  BY <1>2 DEF TabObject
<1>4. CASE op.kind \in {"delete", "exit"}
  <2> DEFINE b == op.before # {}
  <2>1. R = [tab EXCEPT ![op.tab] = [@ EXCEPT !.stopped = b]]
    BY <1>2, <1>4 DEF Restored
  <2>2. b \in BOOLEAN
    OBVIOUS
  <2> HIDE DEF R, b
  <2> QED  BY <1>2, <1>3, <2>1, <2>2 DEF R
<1>5. CASE op.kind = "drop"
  <2> DEFINE N(t) == IF \E s \in op.ends : s[1] = t
                     THEN [tab[t] EXCEPT !.stopped = t \in op.before] ELSE tab[t]
  <2>1. R = [t \in Tabs |-> N(t)]
    BY <1>5 DEF Restored
  <2>2. ASSUME NEW t \in Tabs
        PROVE  N(t) \in TabObject /\ N(t).ws = tab[t].ws /\ N(t).session = tab[t].session
    <3>1. (t \in op.before) \in BOOLEAN
      OBVIOUS
    <3>2. CASE \E s \in op.ends : s[1] = t
      BY <1>3, <3>1, <3>2
    <3>3. CASE ~\E s \in op.ends : s[1] = t
      BY <1>2, <3>3
    <3> QED  BY <3>2, <3>3
  <2> HIDE DEF N, R
  <2> QED  BY <2>1, <2>2 DEF R
<1>6. CASE op.kind = "restart"
  <2> DEFINE n == CHOOSE m \in {s[2] : s \in op.ends} : \A r \in op.ends : m <= r[2]
             b == op.before # {}
  <2>1. R = [tab EXCEPT ![op.tab].stopped = b, ![op.tab].session = n]
    BY <1>6 DEF Restored
  <2>2. n \in Nat
    <3>1. PICK x \in Nat, y \in Nat : op.ends = {<<op.tab, x>>, <<op.tab, y>>}
      BY <1>1, <1>6 DEF OpFits
    <3>2. x \in {s[2] : s \in op.ends} /\ y \in {s[2] : s \in op.ends}
      BY <3>1
    <3>3. \E m \in {s[2] : s \in op.ends} : \A r \in op.ends : m <= r[2]
      <4>1. CASE x <= y
        <5>1. \A r \in op.ends : x <= r[2]
          BY <3>1, <4>1
        <5> QED  BY <3>2, <5>1
      <4>2. CASE y <= x
        <5>1. \A r \in op.ends : y <= r[2]
          BY <3>1, <4>2
        <5> QED  BY <3>2, <5>1
      <4> QED  BY <3>1, <4>1, <4>2
    <3>4. n \in {s[2] : s \in op.ends}
      BY <3>3
    <3> QED  BY <3>1, <3>4
  <2>3. b \in BOOLEAN
    OBVIOUS
  <2>4. op.tab \in Restarts
    BY <1>6 DEF Restarts
  <2> HIDE DEF n, b, R
  <2>5. R = [tab EXCEPT ![op.tab] = [[@ EXCEPT !.stopped = b] EXCEPT !.session = n]]
    BY <1>2, <2>1
  <2>6. LET o == [[tab[op.tab] EXCEPT !.stopped = b] EXCEPT !.session = n]
        IN  o \in TabObject /\ o.ws = tab[op.tab].ws
    BY <1>2, <2>2, <2>3 DEF TabObject
  <2> QED  BY <1>2, <2>4, <2>5, <2>6 DEF R
<1>7. CASE op.kind \notin {"delete", "exit", "drop", "restart"}
  <2>1. R = tab
    BY <1>7 DEF Restored
  <2> QED  BY <1>2, <2>1
<1> QED  BY <1>4, <1>5, <1>6, <1>7

LEMMA TakeBackFacts ==
    ASSUME WsTypes, OpsFit, NEW i \in TabOps, ops[i].at \in {"saving", "removing"},
           TakeBack(i, ops[i])
    PROVE  /\ tab' \in [Tabs -> TabObject] /\ \A t \in Tabs : tab'[t].ws = tab[t].ws
           /\ \A t \in Tabs : t \notin Restarts => tab'[t].session = tab[t].session
           /\ listed' \subseteq listed
           /\ \A t \in listed : t \notin listed' => ops[i].kind = "add" /\ t = ops[i].tab
           /\ ops' \in [TabOps -> Operation] /\ Same(ops[i], ops'[i]) /\ OpFits(ops'[i], "up")
           /\ ops'[i].at \in {"undoing", "failed"}
           /\ \A j \in TabOps : j # i => ops'[j] = ops[j]
<1> DEFINE op == ops[i]
           new == CASE op.kind = "add" -> [op EXCEPT !.at = "undoing", !.ends = {<<op.tab, 1>>}]
                    [] op.kind = "restart" ->
                          [op EXCEPT !.at = "undoing",
                                     !.ends = {s \in op.ends : \A r \in op.ends : s[2] >= r[2]}]
                    [] OTHER -> [op EXCEPT !.at = "failed", !.ends = {}]
<1>1. phase = "up" /\ op \in Operation /\ OpFits(op, "up")
  BY DEF OpsFit, OpFits, WsTypes
<1>2. /\ tab' = IF op.at = "saving" THEN Restored(op) ELSE tab
      /\ listed' = IF op.kind = "add" THEN listed \ {op.tab} ELSE listed
      /\ ops' = [ops EXCEPT ![i] = new]
  BY DEF TakeBack, RestTabs
<1>3. /\ tab' \in [Tabs -> TabObject] /\ \A t \in Tabs : tab'[t].ws = tab[t].ws
      /\ \A t \in Tabs : t \notin Restarts => tab'[t].session = tab[t].session
  <2>1. CASE op.at = "saving"
    BY <1>2, <2>1, RestoredFacts
  <2>2. CASE op.at # "saving"
    BY <1>2, <2>2 DEF WsTypes
  <2> QED  BY <2>1, <2>2
<1>4. new \in Operation /\ Same(op, new) /\ OpFits(new, "up") /\ new.at \in {"undoing", "failed"}
  <2>1. CASE op.kind = "add"
    <3>1. new = [op EXCEPT !.at = "undoing", !.ends = {<<op.tab, 1>>}]
      BY <2>1
    <3>2. {<<op.tab, 1>>} \in SUBSET (Tabs \X Nat)
      BY <1>1 DEF Operation
    <3>3. new \in Operation /\ Same(op, new) /\ new.at = "undoing"
      BY <1>1, <3>1, <3>2 DEF Operation, Same
    <3> QED  BY <2>1, <3>3 DEF OpFits, Same
  <2>2. CASE op.kind = "restart"
    <3> DEFINE E == {s \in op.ends : \A r \in op.ends : s[2] >= r[2]}
    <3>1. new = [op EXCEPT !.at = "undoing", !.ends = E]
      BY <2>2
    <3>2. E \in SUBSET (Tabs \X Nat)
      BY <1>1 DEF Operation
    <3> HIDE DEF E
    <3>3. new \in Operation /\ Same(op, new) /\ new.at = "undoing"
      BY <1>1, <3>1, <3>2 DEF Operation, Same
    <3> QED  BY <2>2, <3>3 DEF OpFits, Same
  <2>3. CASE op.kind \notin {"add", "restart"}
    <3>1. new = [op EXCEPT !.at = "failed", !.ends = {}]
      BY <2>3
    <3>2. new \in Operation /\ Same(op, new) /\ new.at = "failed"
      BY <1>1, <3>1 DEF Operation, Same
    <3>3. op.kind # "none"
      BY <1>1 DEF OpFits
    <3> QED  BY <2>3, <3>2, <3>3 DEF OpFits, Same
  <2> QED  BY <2>1, <2>2, <2>3
<1> HIDE DEF new
<1>5. /\ ops' \in [TabOps -> Operation] /\ ops'[i] = new
      /\ \A j \in TabOps : j # i => ops'[j] = ops[j]
  BY <1>2, <1>4 DEF WsTypes
<1> QED  BY <1>2, <1>3, <1>4, <1>5

\* The write failed.
LEMMA WriteFailedKeeps ==
    ASSUME TabsInv, phase = "up", writes # <<>>, writes' = Tail(writes), disk' = disk,
           spent' = [spent EXCEPT !.failures = @ + 1],
           IF writes[1] = 0 THEN UNCHANGED <<ops, tab, listed>>
                            ELSE TakeBack(writes[1], ops[writes[1]]),
           doc' = IF Len(writes) > 1 THEN NextDocument ELSE disk',
           UNCHANGED <<phase, spaces, made, sessions, flushTimer>>
    PROVE  TabsInv'
<1> DEFINE h == writes[1]
<1>1. WsTypes /\ OpsFit /\ WritesFit /\ AddedOnce /\ SessionsFit /\ InMemory /\ InStore
  BY DEF TabsInv
<1>2. spent' \in [moves : Nat, failures : Nat, crashes : Nat] /\ spent'.failures # 0
  <2>1. spent \in [moves : Nat, failures : Nat, crashes : Nat]
    BY <1>1 DEF WsTypes
  <2> QED  BY ONLY <2>1, spent' = [spent EXCEPT !.failures = @ + 1]
<1>3. h # 0 => h \in Waiting
  BY <1>1, TailFacts DEF WritesFit, WsTypes
<1>4. ASSUME h # 0
      PROVE  /\ h \in TabOps /\ ops[h].at \in {"saving", "removing"}
             /\ tab' \in [Tabs -> TabObject] /\ \A t \in Tabs : tab'[t].ws = tab[t].ws
             /\ \A t \in Tabs : t \notin Restarts => tab'[t].session = tab[t].session
             /\ listed' \subseteq listed
             /\ \A t \in listed : t \notin listed' => ops[h].kind = "add" /\ t = ops[h].tab
             /\ ops' \in [TabOps -> Operation] /\ Same(ops[h], ops'[h]) /\ OpFits(ops'[h], "up")
             /\ ops'[h].at \in {"undoing", "failed"}
             /\ \A j \in TabOps : j # h => ops'[j] = ops[j]
  <2>1. h \in TabOps /\ ops[h].at \in {"saving", "removing"}
    BY <1>3, <1>4 DEF Waiting
  <2>2. TakeBack(h, ops[h])
    BY <1>4
  <2> HIDE DEF h
  <2> QED  BY <1>1, <2>1, <2>2, TakeBackFacts
<1>5. /\ tab' \in [Tabs -> TabObject] /\ \A t \in Tabs : tab'[t].ws = tab[t].ws
      /\ \A t \in Tabs : t \notin Restarts => tab'[t].session = tab[t].session
      /\ listed' \subseteq listed
      /\ ops' \in [TabOps -> Operation]
      /\ \A j \in TabOps : j # h => ops'[j] = ops[j]
  <2>1. CASE h = 0
    BY <1>1, <2>1 DEF WsTypes
  <2>2. CASE h # 0
    BY <1>4, <2>2
  <2> QED  BY <2>1, <2>2
<1>6. \A j \in TabOps : Same(ops[j], ops'[j]) /\ Carries(ops[j], ops'[j])
  <2> SUFFICES ASSUME NEW j \in TabOps PROVE Same(ops[j], ops'[j]) /\ Carries(ops[j], ops'[j])
    OBVIOUS
  <2>1. CASE j # h
    BY <1>5, <2>1 DEF Same, Carries
  <2>2. CASE j = h
    <3>1. h # 0
      BY <2>2 DEF TabOps
    <3> QED  BY <1>4, <2>2, <3>1 DEF Carries, Silent
  <2> QED  BY <2>1, <2>2
<1>7. Removals' = Removals /\ Restarts' = Restarts
  BY <1>1, <1>6, GrowsSame
<1>8. /\ WritesFit' /\ writes' \in Seq(0 .. MaxTabOps)
      /\ Len(writes) > 1 => writes' # <<>> /\ Len(writes') >= 1
      /\ \A k \in DOMAIN writes' : writes'[k] # 0 => writes'[k] \in Waiting /\ writes'[k] # h
  BY <1>1, <1>5, TailQueue
<1>9. NextDocument = Memory /\ (doc' = disk \/ doc' = Memory)
  BY DEF Memory, NextDocument
<1>10. InMemory'
  <2>1. ASSUME NEW j \in TabOps, j # h
        PROVE  Follows(spaces, listed, tab, spaces', listed', tab', ops[j],
                       Removals', Restarts', spent'.failures)
    <3>1. ops[j].kind = "add" /\ ops[j].tab \in listed => ops[j].tab \in listed'
      <4>1. CASE h = 0
        BY <4>1
      <4>2. CASE h # 0
        BY <1>1, <1>4, <2>1, <4>2 DEF AddedOnce
      <4> QED  BY <4>1, <4>2
    <3>2. listed \subseteq Tabs
      BY <1>1 DEF WsTypes
    <3> QED  BY <1>2, <1>5, <3>1, <3>2 DEF Follows
  <2>2. ASSUME h \in TabOps
        PROVE  Shows(Memory', ops'[h], Removals') /\ Marks(Memory', ops'[h], Restarts', spent'.failures)
    <3>1. h # 0
      BY <2>2 DEF TabOps
    <3>2. Silent(ops'[h])
      BY <1>4, <3>1 DEF Silent
    <3> QED  BY <3>2, SilentShows
  <2> HIDE DEF h
  <2> QED  BY <1>2, <1>5, <1>7, <2>1, <2>2, OthersShown
<1>11. ShowsAll(Memory, ops, Removals, Restarts, spent.failures)
  BY <1>1 DEF InMemory
<1>12. InStore'
  <2>1. ASSUME NEW d, ShowsDone(d, ops, Removals, Restarts, spent.failures)
        PROVE  ShowsDone(d, ops', Removals', Restarts', spent'.failures)
    BY <1>2, <1>6, <1>7, <2>1, DoneLess
  <2>2. ShowsDone(Memory, ops, Removals, Restarts, spent.failures)
    BY <1>11, AllIsDone
  <2>3. ShowsDone(Memory, ops', Removals', Restarts', spent'.failures)
    BY <2>1, <2>2
  <2>4. ShowsDone(disk, ops', Removals', Restarts', spent'.failures)
    BY <1>1, <2>1 DEF InStore
  <2> QED  BY <1>9, <2>3, <2>4 DEF InStore
<1>13. HeadShown'
  <2> SUFFICES ASSUME writes' # <<>>, writes'[1] # 0
               PROVE  /\ Shows(doc', ops'[writes'[1]], Removals')
                      /\ Marks(doc', ops'[writes'[1]], Restarts', spent'.failures)
    BY DEF HeadShown
  <2>1. 1 \in DOMAIN writes' /\ Len(writes) > 1
    BY <1>1, <1>8, TailFacts DEF WsTypes
  <2>2. writes'[1] \in TabOps /\ writes'[1] # h
    BY <1>8, <2>1 DEF Waiting
  <2>3. doc' = Memory /\ ops'[writes'[1]] = ops[writes'[1]]
    BY <1>5, <1>9, <2>1, <2>2
  <2>4. Shows(Memory, ops[writes'[1]], Removals) /\ Marks(Memory, ops[writes'[1]], Restarts, spent.failures)
    BY <1>11, <2>2 DEF ShowsAll
  <2> QED  BY <1>2, <1>7, <2>3, <2>4, MarksLess
<1>14. IsDocument(Memory) /\ DOMAIN Memory.tabs = listed
  BY <1>1, DocumentType, MemoryParts DEF Memory, WsTypes
<1>15. WsTypes'
  <2>1. IsDocument(doc') /\ IsDocument(disk')
    BY <1>1, <1>9, <1>14 DEF WsTypes
  <2> QED  BY <1>1, <1>2, <1>5, <1>8, <2>1 DEF WsTypes
<1>16. OpsFit'
  <2> SUFFICES ASSUME NEW j \in TabOps PROVE OpFits(ops'[j], "up")
    BY DEF OpsFit
  <2>1. CASE j # h
    BY <1>1, <1>5, <2>1 DEF OpsFit
  <2>2. CASE j = h
    <3>1. h # 0
      BY <2>2 DEF TabOps
    <3> QED  BY <1>4, <2>2, <3>1
  <2> QED  BY <2>1, <2>2
<1>17. AddedOnce'
  <2>1. \A j \in TabOps : ops'[j].kind = ops[j].kind /\ ops'[j].tab = ops[j].tab
    BY <1>6 DEF Same
  <2>2. DOMAIN doc'.tabs \subseteq DOMAIN disk.tabs \union listed
    BY <1>9, <1>14
  <2>3. \A x \in listed' \union DOMAIN doc'.tabs \union DOMAIN disk'.tabs : made'[x] >= 1
    BY <1>1, <1>5, <2>2 DEF AddedOnce
  <2> QED  BY <1>1, <2>1, <2>3 DEF AddedOnce
<1>18. SessionsFit'
  <2>1. \A s \in sessions : s[1] \in Tabs
    BY <1>1 DEF WsTypes
  <2>2. \A s \in sessions : s[1] \notin Restarts => s[2] = tab'[s[1]].session
    BY <1>1, <1>5, <2>1 DEF SessionsFit
  <2>3. ASSUME NEW j \in TabOps, ops'[j].kind = "delete", ops'[j].tab \notin Restarts,
               ops'[j].at = "ending"
        PROVE  ops'[j].ends = {<<ops'[j].tab, tab'[ops'[j].tab].session>>}
    <3>1. j # h
      <4>1. j # 0
        BY DEF TabOps
      <4> QED  BY <1>4, <2>3, <4>1
    <3>2. ops'[j] = ops[j] /\ ops[j].tab \in Tabs
      BY <1>1, <1>5, <3>1 DEF WsTypes, Operation
    <3> QED  BY <1>1, <1>5, <2>3, <3>2 DEF SessionsFit
  <2> QED  BY <1>1, <1>2, <1>7, <2>2, <2>3 DEF SessionsFit
<1>19. Saved'
  BY <1>2 DEF Saved
<1> QED  BY <1>8, <1>10, <1>12, <1>13, <1>15, <1>16, <1>17, <1>18, <1>19 DEF TabsInv

LEMMA WriteEndsKeeps == ASSUME TabsInv, WriteEnds PROVE TabsInv'
<1>1. /\ phase = "up" /\ writes # <<>> /\ writes' = Tail(writes)
      /\ doc' = IF Len(writes) > 1 THEN NextDocument ELSE disk'
      /\ UNCHANGED <<phase, spaces, made, sessions, flushTimer>>
  BY DEF WriteEnds
<1>2. CASE /\ disk' = doc
           /\ ops' = IF writes[1] = 0 THEN ops ELSE [ops EXCEPT ![writes[1]] = Written(@)]
           /\ UNCHANGED <<tab, listed, spent>>
  BY <1>1, <1>2, WriteDoneKeeps
<1>3. CASE /\ spent' = [spent EXCEPT !.failures = @ + 1]
           /\ IF writes[1] = 0 THEN UNCHANGED <<ops, tab, listed>>
                               ELSE TakeBack(writes[1], ops[writes[1]])
           /\ UNCHANGED disk
  BY <1>1, <1>3, WriteFailedKeeps
<1> QED  BY <1>2, <1>3 DEF WriteEnds

-----------------------------------------------------------------------------
(* The server dies and starts again.                                       *)

LEMMA CrashKeeps == ASSUME TabsInv, Crash PROVE TabsInv'
<1> DEFINE Cut(op) == IF op.at \in {"ending", "removing"}
                      THEN [op EXCEPT !.at = "cut", !.ends = {}, !.before = {}]
                      ELSE IF op.at \in {"saving", "undoing"}
                      THEN [op EXCEPT !.at = "lost", !.ends = {}, !.before = {}] ELSE op
<1>1. WsTypes /\ OpsFit /\ WritesFit /\ AddedOnce /\ SessionsFit /\ InStore
  BY DEF TabsInv
<1>2. /\ phase' = "down" /\ sessions' = {} /\ writes' = <<>> /\ flushTimer' = FALSE
      /\ disk' = disk \/ disk' = doc
      /\ doc' = disk' /\ UNCHANGED <<spaces, listed, tab, made>>
      /\ spent' = [spent EXCEPT !.crashes = @ + 1]
      /\ ops' = [j \in TabOps |-> Cut(ops[j])]
  BY DEF Crash
<1>3. spent' \in [moves : Nat, failures : Nat, crashes : Nat] /\ spent'.failures = spent.failures
  <2>1. spent \in [moves : Nat, failures : Nat, crashes : Nat]
    BY <1>1 DEF WsTypes
  <2>2. spent' = [spent EXCEPT !.crashes = @ + 1]
    BY <1>2
  <2> QED  BY ONLY <2>1, <2>2
<1>4. ASSUME NEW j \in TabOps
      PROVE  /\ ops'[j] \in Operation /\ Same(ops[j], ops'[j]) /\ OpFits(ops'[j], "down")
             /\ Carries(ops[j], ops'[j])
             /\ ops'[j] = ops[j] \/ ops'[j].at \in {"cut", "lost"}
  <2>1. ops[j] \in Operation /\ OpFits(ops[j], phase) /\ ops'[j] = Cut(ops[j])
    BY <1>1, <1>2 DEF WsTypes, OpsFit
  <2>2. CASE ops[j].at \in {"ending", "removing"}
    <3>1. ops'[j] = [ops[j] EXCEPT !.at = "cut", !.ends = {}, !.before = {}]
      BY <2>1, <2>2
    <3>2. ops'[j] \in Operation /\ Same(ops[j], ops'[j]) /\ ops'[j].at = "cut"
      BY <2>1, <3>1 DEF Operation, Same
    <3> QED  BY <2>1, <2>2, <3>2 DEF Carries, OpFits, Same
  <2>3. CASE ops[j].at \in {"saving", "undoing"}
    <3>1. ops'[j] = [ops[j] EXCEPT !.at = "lost", !.ends = {}, !.before = {}]
      BY <2>1, <2>3
    <3>2. ops'[j] \in Operation /\ Same(ops[j], ops'[j]) /\ ops'[j].at = "lost"
      BY <2>1, <3>1 DEF Operation, Same
    <3> QED  BY <2>1, <2>3, <3>2 DEF Carries, Silent, OpFits, Same
  <2>4. CASE ops[j].at \notin {"ending", "removing", "saving", "undoing"}
    <3>1. ops'[j] = ops[j]
      BY <2>1, <2>4
    <3> QED  BY <2>1, <2>4, <3>1 DEF Carries, OpFits, Same
  <2> QED  BY <2>2, <2>3, <2>4
<1> HIDE DEF Cut
<1>5. Removals' = Removals /\ Restarts' = Restarts
  BY <1>1, <1>4, GrowsSame
<1>6. ops' \in [TabOps -> Operation]
  BY <1>2, <1>4
<1>7. WsTypes'
  <2>1. IsDocument(doc') /\ IsDocument(disk')
    BY <1>1, <1>2 DEF WsTypes
  <2>2. writes' \in Seq(0 .. MaxTabOps)
    BY <1>2, EmptySeq
  <2> QED  BY <1>1, <1>2, <1>3, <1>6, <2>1, <2>2 DEF WsTypes
<1>8. OpsFit'
  BY <1>2, <1>4 DEF OpsFit
<1>9. WritesFit'
  BY <1>2 DEF WritesFit
<1>10. AddedOnce'
  <2>1. \A j \in TabOps : ops'[j].kind = ops[j].kind /\ ops'[j].tab = ops[j].tab
    BY <1>4 DEF Same
  <2> QED  BY <1>1, <1>2, <2>1 DEF AddedOnce
<1>11. InStore'
  <2>1. ASSUME NEW d, ShowsDone(d, ops, Removals, Restarts, spent.failures)
        PROVE  ShowsDone(d, ops', Removals', Restarts', spent'.failures)
    BY <1>3, <1>4, <1>5, <2>1, DoneLess
  <2> QED  BY <1>1, <1>2, <2>1 DEF InStore
<1>12. SessionsFit'
  <2>1. \A j \in TabOps : ops'[j].at # "ending"
    BY <1>4 DEF OpFits
  <2> QED  BY <1>2, <2>1 DEF SessionsFit
<1>13. InMemory' /\ HeadShown' /\ Saved'
  BY <1>2 DEF InMemory, HeadShown, Saved
<1> QED  BY <1>7, <1>8, <1>9, <1>10, <1>11, <1>12, <1>13 DEF TabsInv

\* What is read from the store shows what the store showed.
LEMMA ReadShows ==
    ASSUME NEW d, IsDocument(d), NEW objects, NEW op, NEW g, NEW r, NEW f,
           \A t \in DOMAIN d.tabs : objects[t].ws = d.tabs[t].ws /\ objects[t].stopped = d.tabs[t].stopped,
           op.at \notin {"saving", "removing"}
    PROVE  /\ (op.at = "done" => Shows(d, op, g)) => Shows(Document(d.spaces, DOMAIN d.tabs, objects), op, g)
           /\ Marks(d, op, r, f) => Marks(Document(d.spaces, DOMAIN d.tabs, objects), op, r, f)
<1> DEFINE e == Document(d.spaces, DOMAIN d.tabs, objects)
<1>1. /\ e.spaces = d.spaces /\ DOMAIN e.tabs = DOMAIN d.tabs
      /\ \A t \in DOMAIN d.tabs : e.tabs[t] = objects[t]
  BY DEF Document
<1> HIDE DEF e
<1>2. (op.at = "done" => Shows(d, op, g)) => Shows(e, op, g)
  BY <1>1 DEF Shows
<1>3. Marks(d, op, r, f) => Marks(e, op, r, f)
  BY <1>1 DEF Marks
<1> QED  BY <1>2, <1>3 DEF e

LEMMA BootKeeps == ASSUME TabsInv, Boot PROVE TabsInv'
<1>0. PICK revived \in SUBSET {t \in DOMAIN disk.tabs : ~disk.tabs[t].stopped} :
         BootReviving(revived)
  BY DEF Boot
<1>1. WsTypes /\ OpsFit /\ WritesFit /\ AddedOnce /\ SessionsFit /\ InStore
  BY DEF TabsInv
<1>2. /\ phase = "down" /\ spaces' = disk.spaces /\ listed' = DOMAIN disk.tabs
      /\ tab' = [t \in Tabs |-> IF t \in revived THEN [disk.tabs[t] EXCEPT !.session = made[t] + 1]
                                ELSE IF t \in listed' THEN disk.tabs[t] ELSE tab[t]]
      /\ made' = [t \in Tabs |-> made[t] + (IF t \in revived THEN 1 ELSE 0)]
      /\ sessions' = {<<t, made[t] + 1>> : t \in revived}
      /\ UNCHANGED <<ops, spent>>
      /\ revived # {} => phase' = "booting" /\ SaveNow(0)
      /\ revived = {} => phase' = "up" /\ UNCHANGED <<writes, doc, disk, flushTimer>>
  BY <1>0 DEF BootReviving
<1>3. /\ IsDocument(disk) /\ revived \subseteq DOMAIN disk.tabs /\ DOMAIN disk.tabs \subseteq Tabs
      /\ disk.spaces \subseteq Workspaces /\ \A t \in DOMAIN disk.tabs : disk.tabs[t] \in TabObject
      /\ disk = [spaces |-> disk.spaces, tabs |-> disk.tabs]
      /\ disk.tabs = [t \in DOMAIN disk.tabs |-> disk.tabs[t]]
  BY <1>1 DEF WsTypes, IsDocument
<1>4. ASSUME NEW t \in Tabs
      PROVE  /\ made[t] \in Nat /\ made'[t] \in Nat /\ made'[t] >= made[t]
             /\ (t \in revived => made'[t] = made[t] + 1)
  <2>1. made[t] \in Nat
    BY <1>1 DEF WsTypes
  <2>2. made'[t] = made[t] + (IF t \in revived THEN 1 ELSE 0)
    BY <1>2
  <2> QED  BY <2>1, <2>2
<1>5. made' \in [Tabs -> Nat]
  BY <1>2, <1>4
<1>6. ASSUME NEW t \in Tabs
      PROVE  /\ tab'[t] \in TabObject
             /\ t \in DOMAIN disk.tabs => /\ tab'[t].ws = disk.tabs[t].ws
                                          /\ tab'[t].stopped = disk.tabs[t].stopped
             /\ t \in revived => tab'[t].session = made[t] + 1
             /\ t \in DOMAIN disk.tabs \ revived => tab'[t] = disk.tabs[t]
  <2>1. CASE t \in revived
    <3>1. tab'[t] = [disk.tabs[t] EXCEPT !.session = made[t] + 1]
      BY <1>2, <2>1
    <3>2. disk.tabs[t] \in TabObject /\ made[t] + 1 \in Nat
      BY <1>3, <1>4, <2>1
    <3> QED  BY <2>1, <3>1, <3>2 DEF TabObject
  <2>2. CASE t \notin revived /\ t \in DOMAIN disk.tabs
    BY <1>2, <1>3, <2>2
  <2>3. CASE t \notin DOMAIN disk.tabs
    <3>1. tab'[t] = tab[t]
      BY <1>2, <1>3, <2>3
    <3> QED  BY <1>1, <1>3, <2>3, <3>1 DEF WsTypes
  <2> QED  BY <2>1, <2>2, <2>3
<1>7. tab' \in [Tabs -> TabObject]
  BY <1>2, <1>6
<1>8. /\ Grows /\ Removals' = Removals /\ Restarts' = Restarts /\ Waiting' = Waiting
      /\ \A j \in TabOps : Carries(ops[j], ops'[j])
  BY <1>1, <1>2, SameGrows
<1>9. \A j \in TabOps : ops[j].at \notin {"saving", "ending", "removing", "undoing"}
  BY <1>1, <1>2 DEF OpsFit, OpFits
<1>10. Memory' = Document(disk.spaces, DOMAIN disk.tabs, tab')
  BY <1>2 DEF Memory
<1>11. ShowsAll(Memory', ops', Removals', Restarts', spent'.failures)
  <2> SUFFICES ASSUME NEW j \in TabOps
               PROVE  Shows(Memory', ops[j], Removals) /\ Marks(Memory', ops[j], Restarts, spent.failures)
    BY <1>2, <1>8 DEF ShowsAll
  <2>1. /\ ops[j].at = "done" => Shows(disk, ops[j], Removals)
        /\ Marks(disk, ops[j], Restarts, spent.failures)
    BY <1>1, <1>9 DEF InStore, ShowsDone
  <2>2. \A t \in DOMAIN disk.tabs :
           tab'[t].ws = disk.tabs[t].ws /\ tab'[t].stopped = disk.tabs[t].stopped
    BY <1>3, <1>6
  <2>3. ops[j].at \notin {"saving", "removing"}
    BY <1>9
  <2> QED  BY <1>3, <1>10, <2>1, <2>2, <2>3, ReadShows
<1>12. InMemory'
  BY <1>11 DEF InMemory
<1>13. 0 \in 0 .. MaxTabOps /\ writes = <<>>
  BY <1>1, <1>2, WorkspaceAssumption DEF WritesFit
<1>14. IsDocument(Memory') /\ DOMAIN Memory'.tabs = DOMAIN disk.tabs
  <2>1. IsDocument(Memory')
    BY <1>3, <1>7, <1>10, DocumentType
  <2> QED  BY <1>10, <2>1 DEF Document
\* Memory is the document of the write that starts, or of the store that is left as it is.
<1>15. /\ phase' \in {"up", "booting"} /\ disk' = disk /\ doc' = Memory' /\ flushTimer' \in BOOLEAN
       /\ writes' \in Seq(0 .. MaxTabOps)
       /\ phase' = "booting" => writes' = <<0>>
       /\ writes' = <<>> => doc' = disk'
       /\ writes' \in {<<>>, <<0>>}
  <2>1. CASE revived # {}
    <3>1. phase' = "booting" /\ SaveNow(0)
      BY <1>2, <2>1
    <3>2. /\ writes' \in Seq(0 .. MaxTabOps) /\ writes' # <<>> /\ writes' = <<0>> /\ doc' = Memory'
          /\ flushTimer' = FALSE /\ disk' = disk
      BY <1>1, <1>13, <3>1, SaveWrites
    <3> QED  BY <3>1, <3>2
  <2>2. CASE revived = {}
    <3>1. phase' = "up" /\ UNCHANGED <<writes, doc, disk, flushTimer>>
      BY <1>2, <2>2
    <3>2. \A t \in DOMAIN disk.tabs : tab'[t] = disk.tabs[t]
      BY <1>3, <1>6, <2>2
    <3>3. [t \in DOMAIN disk.tabs |-> tab'[t]] = disk.tabs
      <4> QED  BY <1>3, <3>2
    <3>4. Memory' = disk
      <4> QED  BY <1>3, <1>10, <3>3 DEF Document
    <3> QED  BY <1>1, <1>13, <3>1, <3>4 DEF WritesFit, WsTypes
  <2> QED  BY <2>1, <2>2
<1>16. WsTypes'
  <2>1. IsDocument(doc') /\ IsDocument(disk')
    BY <1>3, <1>14, <1>15
  <2>2. sessions' \subseteq Tabs \X Nat
    BY <1>2, <1>3, <1>4
  <2>3. phase' \in {"up", "booting", "down"} /\ spaces' \subseteq Workspaces /\ listed' \subseteq Tabs
    BY <1>2, <1>3, <1>15
  <2>4. ops' \in [TabOps -> Operation] /\ spent' \in [moves : Nat, failures : Nat, crashes : Nat]
    BY <1>1, <1>2 DEF WsTypes
  <2> QED  BY <1>5, <1>7, <1>15, <2>1, <2>2, <2>3, <2>4 DEF WsTypes
<1>17. OpsFit'
  <2>1. ops' = ops
    BY <1>2
  <2> QED  BY <1>1, <1>9, <2>1 DEF OpsFit, OpFits
<1>18. WritesFit'
  <2> QED  BY <1>15 DEF WritesFit
<1>19. AddedOnce'
  <2>1. listed' = DOMAIN disk.tabs /\ DOMAIN doc'.tabs = DOMAIN disk.tabs /\ disk' = disk /\ ops' = ops
    BY <1>2, <1>14, <1>15
  <2>2. \A t \in Tabs : made[t] >= 1 => made'[t] >= 1
    <3> QED  BY <1>4
  <2>3. \A j \in TabOps : ops[j].tab \in Tabs
    BY <1>1, OpsType DEF Operation
  <2> QED  BY <1>1, <1>3, <2>1, <2>2, <2>3 DEF AddedOnce
<1>20. InStore'
  <2>1. ShowsDone(doc', ops', Removals', Restarts', spent'.failures)
    BY <1>11, <1>15, AllIsDone
  <2>2. ShowsDone(disk', ops', Removals', Restarts', spent'.failures)
    BY <1>1, <1>2, <1>8, <1>15 DEF InStore
  <2> QED  BY <2>1, <2>2 DEF InStore
<1>21. HeadShown' /\ Saved'
  <2> QED  BY <1>15 DEF HeadShown, Saved
<1>22. SessionsFit'
  <2>1. ASSUME NEW s \in sessions'
        PROVE  s[1] \in revived /\ made'[s[1]] >= 1 /\ s[2] = tab'[s[1]].session
    <3>1. PICK t \in revived : s = <<t, made[t] + 1>>
      BY <1>2, <2>1
    <3>2. made'[t] = made[t] + 1 /\ made[t] \in Nat /\ tab'[t].session = made[t] + 1
      BY <1>3, <1>4, <1>6, <3>1
    <3> QED  BY <3>1, <3>2
  <2>2. ASSUME NEW j \in TabOps, ops[j].kind = "delete", ops[j].tab \notin Restarts,
               spent.failures = 0, ops[j].at \in {"removing", "cut", "done"}
        PROVE  ops[j].tab \notin revived
    <3>1. Marks(disk, ops[j], Restarts, spent.failures)
      BY <1>1, <2>2 DEF InStore, ShowsDone
    <3> QED  BY <2>2, <3>1 DEF Marks
  <2>3. ops' = ops /\ spent' = spent /\ Restarts' = Restarts /\ phase' # "down"
    BY <1>2, <1>8, <1>15
  <2> QED  BY <1>9, <2>1, <2>2, <2>3 DEF SessionsFit
<1> QED  BY <1>12, <1>16, <1>17, <1>18, <1>19, <1>20, <1>21, <1>22 DEF TabsInv

LEMMA BootEndsKeeps == ASSUME TabsInv, BootEnds PROVE TabsInv'
<1>1. WsTypes /\ OpsFit /\ WritesFit /\ AddedOnce /\ SessionsFit /\ InMemory /\ InStore
  BY DEF TabsInv
<1>2. /\ phase = "booting" /\ phase' = "up" /\ writes' = Tail(writes) /\ disk' = doc
      /\ UNCHANGED <<spaces, listed, tab, made, sessions, ops, doc, flushTimer, spent>>
  BY DEF BootEnds
<1>3. writes' = <<>> /\ doc = Memory
  <2>1. writes = <<0>> /\ doc = Memory
    BY <1>1, <1>2 DEF WritesFit
  <2>2. Tail(<<0>>) = <<>>
    OBVIOUS
  <2> QED  BY <1>2, <2>1, <2>2
<1>4. Removals' = Removals /\ Restarts' = Restarts
  BY <1>1, <1>2, SameGrows
<1>5. Memory' = Memory
  BY <1>2 DEF Memory
<1>6. WsTypes'
  <2>1. writes' \in Seq(0 .. MaxTabOps)
    BY <1>3, EmptySeq
  <2>2. IsDocument(doc') /\ IsDocument(disk')
    BY <1>1, <1>2 DEF WsTypes
  <2> QED  BY <1>1, <1>2, <2>1, <2>2 DEF WsTypes
<1>7. OpsFit'
  BY <1>1, <1>2 DEF OpsFit, OpFits
<1>8. WritesFit'
  BY <1>2, <1>3 DEF WritesFit
<1>9. AddedOnce'
  BY <1>1, <1>2 DEF AddedOnce
<1>10. InMemory' /\ InStore' /\ SessionsFit'
  <2>1. InMemory'
    BY <1>1, <1>2, <1>4, <1>5 DEF InMemory
  <2>2. InStore'
    BY <1>1, <1>2, <1>4 DEF InStore
  <2>3. SessionsFit'
    BY <1>1, <1>2, <1>4 DEF SessionsFit
  <2> QED  BY <2>1, <2>2, <2>3
<1>11. HeadShown' /\ Saved'
  BY <1>2, <1>3, <1>5 DEF HeadShown, Saved
<1> QED  BY <1>6, <1>7, <1>8, <1>9, <1>10, <1>11 DEF TabsInv

-----------------------------------------------------------------------------
(* The invariant, and what it says of the answers.                         *)

LEMMA InitInv == ASSUME WsInit PROVE TabsInv
<1>1. /\ phase = "up" /\ spaces = Workspaces /\ listed \subseteq Tabs
      /\ sessions = listed \X {1} /\ ops = [i \in TabOps |-> Idle] /\ writes = <<>>
      /\ doc = Memory /\ disk = doc /\ flushTimer = FALSE
      /\ spent = [moves |-> 0, failures |-> 0, crashes |-> 0]
      /\ made = [t \in Tabs |-> IF t \in listed THEN 1 ELSE 0]
  BY WorkspaceAssumption DEF WsInit, Memory
<1>2. /\ tab \in [Tabs -> TabObject]
      /\ \A t \in listed : tab[t].session = 1
  <2>1. (CHOOSE w \in Workspaces : TRUE) \in Workspaces
    BY WorkspaceAssumption
  <2>2. tab = [t \in Tabs |-> [ws |-> CHOOSE w \in Workspaces : TRUE,
                               session |-> IF t \in listed THEN 1 ELSE 0,
                               stopped |-> FALSE]]
    BY DEF WsInit
  <2> QED  BY <1>1, <2>1, <2>2 DEF TabObject
<1>3. \A i \in TabOps : ops[i] = Idle
  BY <1>1
<1>4. \A i \in TabOps : Silent(ops[i]) /\ ops[i].kind = "none" /\ ops[i].at = "idle"
  BY <1>3, IdleType DEF Silent
<1>5. IsDocument(Memory) /\ DOMAIN Memory.tabs = listed
  BY <1>1, <1>2, DocumentType, MemoryParts DEF Memory
<1>6. WsTypes
  <2>1. ops \in [TabOps -> Operation]
    BY <1>1, IdleType
  <2>2. writes \in Seq(0 .. MaxTabOps)
    BY <1>1, EmptySeq
  <2>3. made \in [Tabs -> Nat] /\ sessions \subseteq Tabs \X Nat
    BY <1>1
  <2> QED  BY <1>1, <1>2, <1>5, <2>1, <2>2, <2>3 DEF WsTypes
<1>7. OpsFit
  BY <1>1, <1>4 DEF OpsFit, OpFits
<1>8. WritesFit
  BY <1>1 DEF WritesFit
<1>9. AddedOnce
  BY <1>1, <1>4, <1>5 DEF AddedOnce
<1>10. InMemory /\ InStore /\ HeadShown
  <2>1. ASSUME NEW d PROVE ShowsAll(d, ops, Removals, Restarts, spent.failures)
    BY <1>4, SilentShows DEF ShowsAll
  <2> QED  BY <1>1, <2>1, AllIsDone DEF InMemory, InStore, HeadShown
<1>11. SessionsFit
  BY <1>1, <1>2, <1>4 DEF SessionsFit
<1>12. Saved
  BY <1>1 DEF Saved
<1> QED  BY <1>6, <1>7, <1>8, <1>9, <1>10, <1>11, <1>12 DEF TabsInv

LEMMA StutterKeeps == ASSUME TabsInv, UNCHANGED wsVars PROVE TabsInv'
<1>1. UNCHANGED <<phase, spaces, listed, tab, made, sessions, ops, writes, doc, disk, flushTimer, spent>>
  BY DEF wsVars
<1>2. WsTypes /\ OpsFit /\ WritesFit /\ AddedOnce /\ InMemory /\ InStore /\ HeadShown /\ SessionsFit /\ Saved
  BY DEF TabsInv
<1>3. Removals' = Removals /\ Restarts' = Restarts /\ Waiting' = Waiting /\ Memory' = Memory
  BY <1>1, <1>2, SameGrows DEF Memory
<1>4. WsTypes' /\ OpsFit' /\ AddedOnce'
  BY <1>1, <1>2 DEF WsTypes, OpsFit, AddedOnce
<1>5. WritesFit' /\ HeadShown' /\ Saved'
  BY <1>1, <1>2, <1>3 DEF WritesFit, HeadShown, Saved
<1>6. InMemory' /\ InStore' /\ SessionsFit'
  BY <1>1, <1>2, <1>3 DEF InMemory, InStore, SessionsFit
<1> QED  BY <1>4, <1>5, <1>6 DEF TabsInv

\* In every state the store, the document of the write that runs and memory show what the
\* operations on workspaces and tabs have done so far (see TabsInv).
THEOREM TabsInvHolds == WsSpec => []TabsInv
<1>1. WsInit => TabsInv
  BY InitInv
<1>2. TabsInv /\ [WsNext]_wsVars => TabsInv'
  <2> SUFFICES ASSUME TabsInv, [WsNext]_wsVars
               PROVE  TabsInv'
    OBVIOUS
  <2>1. ASSUME NEW i \in TabOps, NEW w \in Workspaces, NEW t \in Tabs, AddTab(i, w, t)
        PROVE  TabsInv'
    BY <2>1, AddTabKeeps
  <2>2. ASSUME NEW i \in TabOps, NEW t \in Tabs, DeleteTab(i, t)
        PROVE  TabsInv'
    BY <2>2, DeletingKeeps
  <2>3. ASSUME NEW i \in TabOps, NEW t \in Tabs, RestartTab(i, t)
        PROVE  TabsInv'
    BY <2>3, RestartTabKeeps
  <2>4. ASSUME NEW i \in TabOps, NEW w \in Workspaces, DeleteWorkspace(i, w)
        PROVE  TabsInv'
    BY <2>4, DeletingKeeps
  <2>5. ASSUME NEW i \in TabOps, NEW s \in sessions, SessionExits(i, s)
        PROVE  TabsInv'
    BY <2>5, DeletingKeeps
  <2>6. ASSUME NEW t \in Tabs, NEW w \in Workspaces, MoveTab(t, w)
        PROVE  TabsInv'
    BY <2>6, MoveTabKeeps
  <2>7. ASSUME NEW i \in TabOps, SessionsEnded(i)
        PROVE  TabsInv'
    BY <2>7, SessionsEndedKeeps
  <2>8. CASE FlushTimerFires
    BY <2>8, TimerKeeps
  <2>9. CASE WriteEnds
    BY <2>9, WriteEndsKeeps
  <2>10. CASE Crash
    BY <2>10, CrashKeeps
  <2>11. CASE Boot
    BY <2>11, BootKeeps
  <2>12. CASE BootEnds
    BY <2>12, BootEndsKeeps
  <2>13. CASE UNCHANGED wsVars
    BY <2>13, StutterKeeps
  <2>14. ASSUME NEW i \in TabOps, EndingFails(i)
         PROVE  TabsInv'
    BY <2>14, EndingFailsKeeps
  <2> QED  BY <2>1, <2>2, <2>3, <2>4, <2>5, <2>6, <2>7, <2>8, <2>9, <2>10, <2>11, <2>12, <2>13,
           <2>14 DEF WsNext
<1> QED  BY <1>1, <1>2, PTL DEF WsSpec

LEMMA InvAnswers == ASSUME TabsInv PROVE AnswersStand
<1>1. WsTypes /\ WritesFit /\ InMemory /\ InStore /\ SessionsFit /\ Saved
  BY DEF TabsInv
<1>2. ASSUME NEW i \in TabOps, ops[i].at = "done"
      PROVE  /\ Shows(disk, ops[i], Removals)
             /\ phase = "up" => Shows(Memory, ops[i], Removals)
  BY <1>1, <1>2 DEF InStore, ShowsDone, InMemory, ShowsAll
<1>3. Memory.spaces = spaces /\ DOMAIN Memory.tabs = listed /\ \A t \in listed : Memory.tabs[t] = tab[t]
  BY MemoryParts
<1>4. AddedStays
  BY <1>2, <1>3 DEF AddedStays, Done, Removals, Shows
<1>5. DeletedGone
  <2>1. ASSUME NEW i \in TabOps, Done(i, "delete")
        PROVE  ops[i].tab \notin DOMAIN disk.tabs /\ (phase = "up" => ops[i].tab \notin listed)
    BY <1>2, <1>3, <2>1 DEF Done, Shows
  <2>2. ASSUME NEW i \in TabOps, Done(i, "drop")
        PROVE  /\ ops[i].ws \notin disk.spaces
               /\ \A t \in DOMAIN disk.tabs : disk.tabs[t].ws # ops[i].ws
               /\ phase = "up" => TabsOf(ops[i].ws) = {}
    BY <1>2, <1>3, <2>2 DEF Done, Shows, TabsOf
  <2> QED  BY <2>1, <2>2 DEF DeletedGone
<1>6. MarkedStaysDead
  BY <1>1 DEF MarkedStaysDead, SessionsFit, Restarts
<1>7. SavedOrScheduled
  <2>1. Len(writes) > 1 => writes # <<>>
    OBVIOUS
  <2> QED  BY <1>1, <2>1 DEF SavedOrScheduled, Saved, WritesFit, Memory
<1> QED  BY <1>4, <1>5, <1>6, <1>7 DEF AnswersStand

\* What was answered about a tab stands (WorkspaceService.ts): a tab whose addition was answered
\* stays until it is deleted, what was deleted does not come back, a deletion that is in the store
\* keeps the shell away, and what is in memory is in the store or on its way, whatever other
\* operations, failed writes and crashes follow.
THEOREM AnswersHold == WsSpec => []AnswersStand
<1>1. TabsInv => AnswersStand
  BY InvAnswers
<1> QED  BY <1>1, TabsInvHolds, PTL

-----------------------------------------------------------------------------
(* The files of one store.                                                 *)

Stages == {"boot", "idle", "write", "read", "backup", "renameBackup", "rename", "defaults", "down"}
TempWritten == {"read", "backup", "renameBackup", "rename"}
Docs == ({0} \cup StoreProcesses) \X Nat
FileType == [doc : Docs, whole : BOOLEAN]
PublishType == [at : Stages, doc : Docs, recovers : BOOLEAN, previous : FileType,
                attempt : Nat, number : Nat]

StoreTypes ==
    /\ files \in [Paths -> FileType]
    /\ writer \in [StoreProcesses -> PublishType]

\* What publish p has in its temp files.
OwnTemps(p) ==
    /\ writer[p].at = "write" => files[PayloadTemp(p)].doc = writer[p].doc
    /\ writer[p].at \in TempWritten => files[PayloadTemp(p)] = WholeFile(writer[p].doc)
    /\ writer[p].at = "renameBackup" => files[BackupTemp(p)] = writer[p].previous

\* When p has seen a store that parses.
SeenWhole(p) ==
    /\ writer[p].at \in {"idle", "read", "backup", "renameBackup"} => files[Store].whole
    /\ writer[p].at \in {"write", "rename"} /\ ~writer[p].recovers => files[Store].whole
    /\ writer[p].at \in {"backup", "renameBackup"} => writer[p].previous.whole

OwnInv == \A p \in StoreProcesses : OwnTemps(p) /\ SeenWhole(p)

StoreInv == StoreTypes /\ OwnInv

-----------------------------------------------------------------------------
LEMMA PathsApart ==
    ASSUME NEW p \in StoreProcesses
    PROVE  /\ PayloadTemp(p) \in Paths /\ BackupTemp(p) \in Paths
           /\ Store \in Paths /\ Backup \in Paths /\ Store # Backup
           /\ PayloadTemp(p) \notin {Store, Backup, BackupTemp(p)}
           /\ BackupTemp(p) \notin {Store, Backup}
           /\ \A q \in StoreProcesses : q # p =>
                 /\ PayloadTemp(p) \notin {PayloadTemp(q), BackupTemp(q)}
                 /\ BackupTemp(p) \notin {PayloadTemp(q), BackupTemp(q)}
BY DEF Paths, PayloadTemp, BackupTemp, Store, Backup

LEMMA StoreInitInv == ASSUME StoreInit PROVE StoreInv
<1>1. /\ NoFile \in FileType /\ WholeFile(Old) \in FileType /\ TornFile(Old) \in FileType
      /\ WholeFile(Older) \in FileType /\ Old \in Docs
  BY DEF NoFile, WholeFile, TornFile, Old, Older, FileType, Docs
<1>2. Starting \in PublishType
  BY <1>1 DEF Starting, Stages, PublishType
<1>3. files \in [Paths -> FileType]
  BY <1>1 DEF StoreInit
<1>4. \A p \in StoreProcesses : writer[p].at = "boot"
  BY DEF StoreInit, Starting
<1>5. StoreTypes
  BY <1>2, <1>3 DEF StoreTypes, StoreInit
<1> QED  BY <1>4, <1>5 DEF StoreInv, OwnInv, OwnTemps, SeenWhole, TempWritten

\* A step of p keeps the invariant when it keeps what is said of p: the temp files of the
\* others are not its own, and it leaves no torn store behind.
LEMMA Frame ==
    ASSUME StoreInv, StoreTypes', NEW p \in StoreProcesses,
           \A q \in StoreProcesses \ {p} : writer'[q] = writer[q],
           \A f \in Paths \ {PayloadTemp(p), BackupTemp(p), Store, Backup} : files'[f] = files[f],
           files[Store].whole => files'[Store].whole,
           OwnTemps(p)', SeenWhole(p)'
    PROVE  StoreInv'
<1>1. ASSUME NEW q \in StoreProcesses \ {p} PROVE OwnTemps(q)' /\ SeenWhole(q)'
  <2>1. writer'[q] = writer[q] /\ OwnTemps(q) /\ SeenWhole(q)
    BY DEF StoreInv, OwnInv
  <2>2. /\ PayloadTemp(q) \in Paths \ {PayloadTemp(p), BackupTemp(p), Store, Backup}
        /\ BackupTemp(q) \in Paths \ {PayloadTemp(p), BackupTemp(p), Store, Backup}
    BY PathsApart
  <2>3. files'[PayloadTemp(q)] = files[PayloadTemp(q)] /\ files'[BackupTemp(q)] = files[BackupTemp(q)]
    BY <2>2
  <2>4. OwnTemps(q)'
    BY <2>1, <2>3 DEF OwnTemps, PayloadTemp, BackupTemp
  <2>5. SeenWhole(q)'
    BY <2>1 DEF SeenWhole
  <2> QED  BY <2>4, <2>5
<1> QED  BY <1>1 DEF StoreInv, OwnInv

\* The stage a process reaches, with the rest of its record.
LEMMA GoToParts ==
    ASSUME StoreTypes, NEW p \in StoreProcesses, NEW at \in Stages, GoTo(p, at)
    PROVE  /\ writer' \in [StoreProcesses -> PublishType]
           /\ \A q \in StoreProcesses \ {p} : writer'[q] = writer[q]
           /\ writer'[p].at = at
           /\ writer'[p].doc = writer[p].doc /\ writer'[p].previous = writer[p].previous
           /\ writer'[p].recovers = writer[p].recovers
BY DEF GoTo, StoreTypes, PublishType

LEMMA FileTypes ==
    /\ NoFile \in FileType
    /\ \A d \in Docs : WholeFile(d) \in FileType /\ TornFile(d) \in FileType
    /\ Old \in Docs /\ Defaults \in Docs
BY DEF NoFile, WholeFile, TornFile, Old, Defaults, FileType, Docs

\* A new publish begins by tearing a temp file of its own.
LEMMA PublishInv ==
    ASSUME StoreInv, NEW p \in StoreProcesses, NEW d \in Docs,
           files' = [files EXCEPT ![PayloadTemp(p)] = TornFile(d)],
           \A q \in StoreProcesses \ {p} : writer'[q] = writer[q],
           writer' \in [StoreProcesses -> PublishType],
           writer'[p].at = "write", writer'[p].doc = d,
           writer'[p].recovers \/ files[Store].whole
    PROVE  StoreInv'
<1>1. PayloadTemp(p) \in Paths /\ PayloadTemp(p) # Store /\ Store \in Paths
      /\ files \in [Paths -> FileType]
  BY PathsApart DEF StoreInv, StoreTypes
<1>2. StoreTypes'
  BY <1>1, FileTypes DEF StoreTypes
<1>3. files'[PayloadTemp(p)].doc = d /\ files'[Store] = files[Store]
      /\ \A f \in Paths \ {PayloadTemp(p)} : files'[f] = files[f]
  BY <1>1 DEF TornFile
<1>4. OwnTemps(p)' /\ SeenWhole(p)'
  BY <1>3 DEF OwnTemps, SeenWhole, TempWritten, PayloadTemp
<1> QED  BY <1>2, <1>3, <1>4, Frame

\* Steps that leave the files alone and reach a stage of which nothing more is said.
LEMMA StageInv ==
    ASSUME StoreInv, NEW p \in StoreProcesses, NEW at \in {"idle", "rename", "down"}, GoTo(p, at),
           UNCHANGED files,
           at = "rename" => writer[p].at \in TempWritten,
           at = "idle" => files[Store].whole
    PROVE  StoreInv'
<1>1. StoreTypes' /\ \A q \in StoreProcesses \ {p} : writer'[q] = writer[q]
  BY GoToParts DEF StoreInv, StoreTypes, Stages
<1>2. writer'[p].at = at /\ writer'[p].doc = writer[p].doc /\ writer'[p].recovers = writer[p].recovers
  BY GoToParts DEF StoreInv, Stages
<1>3. OwnTemps(p) /\ SeenWhole(p)
  BY DEF StoreInv, OwnInv
<1>4. OwnTemps(p)'
  BY <1>2, <1>3 DEF OwnTemps, TempWritten, PayloadTemp
<1>5. SeenWhole(p)'
  BY <1>2, <1>3 DEF SeenWhole, TempWritten
<1> QED  BY <1>1, <1>4, <1>5, Frame

-----------------------------------------------------------------------------
\* The documents and files a step may find or make are of their types.
LEMMA Found ==
    ASSUME StoreInv, NEW p \in StoreProcesses
    PROVE  /\ files \in [Paths -> FileType] /\ writer[p].doc \in Docs
           /\ writer[p].previous \in FileType /\ writer[p].number \in Nat /\ p \in StoreProcesses
           /\ \A f \in Paths : files[f] \in FileType /\ files[f].doc \in Docs
                                /\ files[f].whole \in BOOLEAN
           /\ OwnTemps(p) /\ SeenWhole(p)
BY DEF StoreInv, StoreTypes, OwnInv, FileType, PublishType

\* One process gets a new record.
LEMMA NewRecord ==
    ASSUME StoreTypes, NEW p \in StoreProcesses, NEW r \in PublishType,
           writer' = [writer EXCEPT ![p] = r]
    PROVE  /\ writer' \in [StoreProcesses -> PublishType]
           /\ \A q \in StoreProcesses \ {p} : writer'[q] = writer[q]
           /\ writer'[p] = r
BY DEF StoreTypes

LEMMA PublishTrueInv ==
    ASSUME StoreInv, NEW p \in StoreProcesses, NEW d \in Docs, Publish(p, d, TRUE)
    PROVE  StoreInv'
<1> DEFINE r == [writer[p] EXCEPT !.at = "write", !.doc = d, !.recovers = TRUE,
                                  !.attempt = 0, !.previous = NoFile]
<1>1. files' = [files EXCEPT ![PayloadTemp(p)] = TornFile(d)]
  BY DEF Publish, Write
<1>2. writer \in [StoreProcesses -> PublishType] /\ writer[p] \in PublishType
  BY DEF StoreInv, StoreTypes
<1>3. writer' = [writer EXCEPT ![p] = r]
  BY <1>2 DEF Publish
<1>4. r \in PublishType /\ r.at = "write" /\ r.doc = d /\ r.recovers
  BY <1>2, FileTypes DEF PublishType, Stages
<1> HIDE DEF r
<1>5. /\ writer' \in [StoreProcesses -> PublishType]
      /\ \A q \in StoreProcesses \ {p} : writer'[q] = writer[q]
      /\ writer'[p] = r
  BY <1>3, <1>4, NewRecord DEF StoreInv
<1> QED  BY <1>1, <1>4, <1>5, PublishInv

LEMMA BootInv ==
    ASSUME StoreInv, NEW p \in StoreProcesses, BootStore(p)
    PROVE  StoreInv'
<1>1. CASE files[Store].whole
  BY <1>1, StageInv DEF BootStore
<1>2. CASE ~files[Store].whole
  <2> DEFINE d == IF files[Backup].whole THEN files[Backup].doc ELSE Defaults
  <2>1. d \in Docs
    BY Found, FileTypes, PathsApart
  <2>2. Publish(p, d, TRUE)
    BY <1>2 DEF BootStore
  <2> HIDE DEF d
  <2> QED  BY <2>1, <2>2, PublishTrueInv
<1> QED  BY <1>1, <1>2

LEMMA SaveInv ==
    ASSUME StoreInv, NEW p \in StoreProcesses, Save(p)
    PROVE  StoreInv'
<1> DEFINE n == writer[p].number + 1
           d == <<p, n>>
           r == [Starting EXCEPT !.at = "write", !.doc = d, !.number = n]
<1>1. /\ files' = [files EXCEPT ![PayloadTemp(p)] = TornFile(d)]
      /\ writer' = [writer EXCEPT ![p] = r]
      /\ files[Store].whole
  BY Found DEF Save, Write, SeenWhole
<1>2. n \in Nat /\ d \in Docs
  BY Found DEF Docs
<1> HIDE DEF n, d
<1>3. r \in PublishType /\ r.at = "write" /\ r.doc = d
  BY <1>2, FileTypes DEF Starting, PublishType, Stages
<1> HIDE DEF r
<1>4. /\ writer' \in [StoreProcesses -> PublishType]
      /\ \A q \in StoreProcesses \ {p} : writer'[q] = writer[q]
      /\ writer'[p] = r
  BY <1>1, <1>3, NewRecord DEF StoreInv
<1> QED  BY <1>1, <1>2, <1>3, <1>4, PublishInv

\* A write of a file of its own, or a move, keeps the types.
LEMMA WrittenTypes ==
    ASSUME StoreInv, NEW p \in StoreProcesses, NEW at \in Stages, GoTo(p, at),
           files' \in [Paths -> FileType]
    PROVE  /\ StoreTypes'
           /\ \A q \in StoreProcesses \ {p} : writer'[q] = writer[q]
           /\ writer'[p].at = at
           /\ writer'[p].doc = writer[p].doc /\ writer'[p].previous = writer[p].previous
           /\ writer'[p].recovers = writer[p].recovers
BY GoToParts DEF StoreInv, StoreTypes

\* The payload is complete; only a publish that saw the store whole goes on to back it up.
LEMMA PayloadInv ==
    ASSUME StoreInv, PreserveBackup, NEW p \in StoreProcesses, PayloadWritten(p)
    PROVE  StoreInv'
<1> DEFINE at == IF WritesBackup(p) THEN "read" ELSE "rename"
<1>1. /\ writer[p].at = "write" /\ GoTo(p, at) /\ at \in Stages
      /\ files' = [files EXCEPT ![PayloadTemp(p)] =
                     [doc |-> writer[p].doc, whole |-> files[PayloadTemp(p)].doc = writer[p].doc]]
      /\ files[PayloadTemp(p)].doc = writer[p].doc
  BY Found DEF PayloadWritten, Write, OwnTemps, Stages
<1>2. at = "read" => ~writer[p].recovers
  BY DEF WritesBackup
<1>3. at \in {"read", "rename"}
  OBVIOUS
<1> HIDE DEF at
<1>4. files' = [files EXCEPT ![PayloadTemp(p)] = WholeFile(writer[p].doc)]
  BY <1>1 DEF WholeFile
<1>5. /\ files' \in [Paths -> FileType]
      /\ files'[PayloadTemp(p)] = WholeFile(writer[p].doc)
      /\ \A f \in Paths \ {PayloadTemp(p)} : files'[f] = files[f]
      /\ files'[Store] = files[Store]
  BY <1>4, PathsApart, Found, FileTypes
<1>6. /\ StoreTypes' /\ writer'[p].at = at /\ writer'[p].doc = writer[p].doc
      /\ writer'[p].recovers = writer[p].recovers
      /\ \A q \in StoreProcesses \ {p} : writer'[q] = writer[q]
  BY <1>1, <1>5, WrittenTypes
<1>7. OwnTemps(p)'
  BY <1>3, <1>5, <1>6 DEF OwnTemps, TempWritten, PayloadTemp
<1>8. SeenWhole(p)'
  BY <1>1, <1>2, <1>3, <1>5, <1>6, Found DEF SeenWhole
<1> QED  BY <1>5, <1>6, <1>7, <1>8, Frame

LEMMA ReadInv ==
    ASSUME StoreInv, NEW p \in StoreProcesses, ReadPrevious(p)
    PROVE  StoreInv'
<1>1. CASE files[Store] = NoFile
  <2>1. UNCHANGED files /\ GoTo(p, "rename") /\ writer[p].at = "read"
    BY <1>1 DEF ReadPrevious
  <2> QED  BY <2>1, StageInv DEF TempWritten
<1>2. CASE files[Store] # NoFile
  <2> DEFINE r == [writer[p] EXCEPT !.at = "backup", !.previous = files[Store]]
  <2>1. /\ files' = [files EXCEPT ![BackupTemp(p)] = TornFile(files[Store].doc)]
        /\ writer' = [writer EXCEPT ![p].at = "backup", ![p].previous = files[Store]]
        /\ writer[p].at = "read"
    BY <1>2 DEF ReadPrevious, Write
  <2>2. /\ writer \in [StoreProcesses -> PublishType] /\ writer[p] \in PublishType
        /\ files[Store] \in FileType /\ files[Store].whole /\ TornFile(files[Store].doc) \in FileType
        /\ files[PayloadTemp(p)] = WholeFile(writer[p].doc)
    BY <2>1, Found, PathsApart, FileTypes DEF StoreInv, StoreTypes, SeenWhole, OwnTemps, TempWritten
  <2>3. writer' = [writer EXCEPT ![p] = r]
    BY <2>1, <2>2
  <2>4. /\ r \in PublishType /\ r.at = "backup" /\ r.doc = writer[p].doc
        /\ r.previous = files[Store]
    BY <2>2 DEF PublishType, Stages
  <2> HIDE DEF r
  <2>5. /\ writer' \in [StoreProcesses -> PublishType]
        /\ \A q \in StoreProcesses \ {p} : writer'[q] = writer[q]
        /\ writer'[p] = r
    BY <2>3, <2>4, NewRecord DEF StoreInv
  <2>6. /\ files' \in [Paths -> FileType]
        /\ \A f \in Paths \ {BackupTemp(p)} : files'[f] = files[f]
        /\ files'[Store] = files[Store] /\ files'[PayloadTemp(p)] = files[PayloadTemp(p)]
    BY <2>1, <2>2, PathsApart, Found
  <2>7. StoreTypes'
    BY <2>5, <2>6 DEF StoreTypes
  <2>8. OwnTemps(p)'
    BY <2>2, <2>4, <2>5, <2>6 DEF OwnTemps, PayloadTemp
  <2>9. SeenWhole(p)'
    BY <2>2, <2>4, <2>5, <2>6 DEF SeenWhole
  <2> QED  BY <2>5, <2>6, <2>7, <2>8, <2>9, Frame
<1> QED  BY <1>1, <1>2

LEMMA BackupWrittenInv ==
    ASSUME StoreInv, NEW p \in StoreProcesses, BackupWritten(p)
    PROVE  StoreInv'
<1>1. /\ files' = [files EXCEPT ![BackupTemp(p)] = writer[p].previous]
      /\ writer[p].at = "backup" /\ GoTo(p, "renameBackup") /\ "renameBackup" \in Stages
  BY DEF BackupWritten, Write, Stages
<1>2. /\ files' \in [Paths -> FileType]
      /\ files'[BackupTemp(p)] = writer[p].previous
      /\ \A f \in Paths \ {BackupTemp(p)} : files'[f] = files[f]
      /\ files'[Store] = files[Store] /\ files'[PayloadTemp(p)] = files[PayloadTemp(p)]
  BY <1>1, PathsApart, Found
<1>3. /\ StoreTypes' /\ writer'[p].at = "renameBackup" /\ writer'[p].doc = writer[p].doc
      /\ writer'[p].previous = writer[p].previous
      /\ \A q \in StoreProcesses \ {p} : writer'[q] = writer[q]
  BY <1>1, <1>2, WrittenTypes
<1>4. OwnTemps(p)'
  BY <1>1, <1>2, <1>3, Found DEF OwnTemps, TempWritten, PayloadTemp, BackupTemp
<1>5. SeenWhole(p)'
  BY <1>1, <1>2, <1>3, Found DEF SeenWhole
<1> QED  BY <1>2, <1>3, <1>4, <1>5, Frame

\* The copy becomes the backup: of a store that was seen whole.
LEMMA RenameBackupInv ==
    ASSUME StoreInv, NEW p \in StoreProcesses, RenameBackup(p)
    PROVE  StoreInv' /\ files'[Backup].whole /\ files'[Store] = files[Store]
<1>1. /\ files' = [files EXCEPT ![BackupTemp(p)] = NoFile, ![Backup] = files[BackupTemp(p)]]
      /\ writer[p].at = "renameBackup" /\ GoTo(p, "rename") /\ "rename" \in Stages
  BY DEF RenameBackup, Moved, Stages
<1>2. /\ files' \in [Paths -> FileType]
      /\ files'[Backup] = files[BackupTemp(p)]
      /\ \A f \in Paths \ {BackupTemp(p), Backup} : files'[f] = files[f]
      /\ files'[Store] = files[Store] /\ files'[PayloadTemp(p)] = files[PayloadTemp(p)]
  BY <1>1, PathsApart, Found, FileTypes
<1>3. /\ StoreTypes' /\ writer'[p].at = "rename" /\ writer'[p].doc = writer[p].doc
      /\ writer'[p].recovers = writer[p].recovers
      /\ \A q \in StoreProcesses \ {p} : writer'[q] = writer[q]
  BY <1>1, <1>2, WrittenTypes
<1>4. OwnTemps(p)'
  BY <1>1, <1>2, <1>3, Found DEF OwnTemps, TempWritten, PayloadTemp
<1>5. SeenWhole(p)'
  BY <1>1, <1>2, <1>3, Found DEF SeenWhole
<1>6. files'[Backup].whole
  BY <1>1, <1>2, Found DEF OwnTemps, SeenWhole
<1> QED  BY <1>2, <1>3, <1>4, <1>5, <1>6, Frame

\* The payload becomes the store: complete, and its own.
LEMMA RenameStoreInv ==
    ASSUME StoreInv, NEW p \in StoreProcesses, RenameStore(p)
    PROVE  StoreInv' /\ files'[Store] = WholeFile(writer[p].doc) /\ files'[Backup] = files[Backup]
<1>1. /\ files' = [files EXCEPT ![PayloadTemp(p)] = NoFile, ![Store] = files[PayloadTemp(p)]]
      /\ writer[p].at = "rename" /\ GoTo(p, "idle") /\ "idle" \in Stages
  BY DEF RenameStore, Moved, Stages
<1>2. /\ files' \in [Paths -> FileType]
      /\ files'[Store] = files[PayloadTemp(p)] /\ files'[Backup] = files[Backup]
      /\ \A f \in Paths \ {PayloadTemp(p), Store} : files'[f] = files[f]
  BY <1>1, PathsApart, Found, FileTypes
<1>3. files'[Store] = WholeFile(writer[p].doc) /\ files'[Store].whole
  BY <1>1, <1>2, Found DEF OwnTemps, TempWritten, WholeFile
<1>4. /\ StoreTypes' /\ writer'[p].at = "idle"
      /\ \A q \in StoreProcesses \ {p} : writer'[q] = writer[q]
  BY <1>1, <1>2, WrittenTypes
<1>5. OwnTemps(p)' /\ SeenWhole(p)'
  BY <1>3, <1>4 DEF OwnTemps, SeenWhole, TempWritten
<1> QED  BY <1>2, <1>3, <1>4, <1>5, Frame

LEMMA BusyInv ==
    ASSUME StoreInv, NEW p \in StoreProcesses, RenameBusy(p)
    PROVE  StoreInv'
<1> DEFINE r == [writer[p] EXCEPT !.attempt = @ + 1]
<1>1. writer' = [writer EXCEPT ![p].attempt = @ + 1] /\ UNCHANGED files
  BY DEF RenameBusy
<1>2. writer \in [StoreProcesses -> PublishType] /\ writer[p] \in PublishType
  BY DEF StoreInv, StoreTypes
<1>3. writer' = [writer EXCEPT ![p] = r]
  BY <1>1, <1>2
<1>4. /\ r \in PublishType /\ r.at = writer[p].at /\ r.doc = writer[p].doc
      /\ r.recovers = writer[p].recovers /\ r.previous = writer[p].previous
  BY <1>2 DEF PublishType
<1> HIDE DEF r
<1>5. /\ writer' \in [StoreProcesses -> PublishType]
      /\ \A q \in StoreProcesses \ {p} : writer'[q] = writer[q]
      /\ writer'[p] = r
  BY <1>3, <1>4, NewRecord DEF StoreInv
<1>6. StoreTypes'
  BY <1>1, <1>5 DEF StoreTypes, StoreInv
<1>7. OwnTemps(p)' /\ SeenWhole(p)'
  BY <1>1, <1>4, <1>5, Found DEF OwnTemps, SeenWhole, PayloadTemp, BackupTemp
<1> QED  BY <1>1, <1>5, <1>6, <1>7, Frame

\* A backup that could not be made is left out; its copy goes.
LEMMA BackupFailsInv ==
    ASSUME StoreInv, NEW p \in StoreProcesses, BackupFails(p)
    PROVE  StoreInv' /\ files'[Store] = files[Store] /\ files'[Backup] = files[Backup]
<1>1. /\ files' = [files EXCEPT ![BackupTemp(p)] = NoFile] \/ files' = files
      /\ writer[p].at \in {"read", "backup", "renameBackup"}
      /\ GoTo(p, "rename") /\ "rename" \in Stages
  BY DEF BackupFails, LeavesTemp, WithoutBackupTemp, Stages
<1>2. /\ files' \in [Paths -> FileType]
      /\ \A f \in Paths \ {BackupTemp(p)} : files'[f] = files[f]
      /\ files'[Store] = files[Store] /\ files'[Backup] = files[Backup]
      /\ files'[PayloadTemp(p)] = files[PayloadTemp(p)]
  BY <1>1, PathsApart, Found, FileTypes
<1>3. /\ StoreTypes' /\ writer'[p].at = "rename" /\ writer'[p].doc = writer[p].doc
      /\ writer'[p].recovers = writer[p].recovers
      /\ \A q \in StoreProcesses \ {p} : writer'[q] = writer[q]
  BY <1>1, <1>2, WrittenTypes
<1>4. OwnTemps(p)'
  BY <1>1, <1>2, <1>3, Found DEF OwnTemps, TempWritten, PayloadTemp
<1>5. SeenWhole(p)'
  BY <1>1, <1>2, <1>3, Found DEF SeenWhole
<1> QED  BY <1>2, <1>3, <1>4, <1>5, Frame

LEMMA PublishFailsInv ==
    ASSUME StoreInv, NEW p \in StoreProcesses, PublishFails(p)
    PROVE  StoreInv' /\ files'[Store] = files[Store] /\ files'[Backup] = files[Backup]
<1> DEFINE at == IF ~writer[p].recovers THEN "idle"
                 ELSE IF writer[p].doc = Defaults THEN "down" ELSE "defaults"
<1>1. /\ files' = [files EXCEPT ![PayloadTemp(p)] = NoFile] \/ files' = files
      /\ writer[p].at \in {"write", "rename"} /\ GoTo(p, at) /\ at \in Stages
  BY DEF PublishFails, LeavesTemp, Write, Stages
<1>2. at \in {"idle", "down", "defaults"} /\ (at = "idle" => ~writer[p].recovers)
  OBVIOUS
<1> HIDE DEF at
<1>3. /\ files' \in [Paths -> FileType]
      /\ \A f \in Paths \ {PayloadTemp(p)} : files'[f] = files[f]
      /\ files'[Store] = files[Store] /\ files'[Backup] = files[Backup]
  BY <1>1, PathsApart, Found, FileTypes
<1>4. /\ StoreTypes' /\ writer'[p].at = at
      /\ \A q \in StoreProcesses \ {p} : writer'[q] = writer[q]
  BY <1>1, <1>3, WrittenTypes
<1>5. OwnTemps(p)'
  BY <1>2, <1>4 DEF OwnTemps, TempWritten
<1>6. SeenWhole(p)'
  BY <1>1, <1>2, <1>3, <1>4, Found DEF SeenWhole
<1> QED  BY <1>3, <1>4, <1>5, <1>6, Frame

LEMMA AgainInv ==
    ASSUME StoreInv, NEW p \in StoreProcesses, StartAgain(p)
    PROVE  StoreInv'
<1> DEFINE r == [Starting EXCEPT !.number = writer[p].number]
<1>1. writer' = [writer EXCEPT ![p] = r] /\ UNCHANGED files
  BY DEF StartAgain
<1>2. r \in PublishType /\ r.at = "boot"
  BY Found, FileTypes DEF Starting, PublishType, Stages
<1> HIDE DEF r
<1>3. /\ writer' \in [StoreProcesses -> PublishType]
      /\ \A q \in StoreProcesses \ {p} : writer'[q] = writer[q]
      /\ writer'[p] = r
  BY <1>1, <1>2, NewRecord DEF StoreInv
<1>4. StoreTypes' /\ OwnTemps(p)' /\ SeenWhole(p)'
  BY <1>1, <1>2, <1>3 DEF StoreInv, StoreTypes, OwnTemps, SeenWhole, TempWritten
<1> QED  BY <1>1, <1>3, <1>4, Frame

-----------------------------------------------------------------------------
\* What any step does to the store and the backup.
KeepsStore == files'[Store] = files[Store] /\ files'[Backup] = files[Backup]

\* Steps that touch only temp files of their own.
LEMMA OwnFileOnly ==
    ASSUME StoreInv, NEW p \in StoreProcesses,
           \/ BootStore(p) \/ Save(p) \/ PayloadWritten(p) \/ ReadPrevious(p) \/ BackupWritten(p)
           \/ RenameBusy(p) \/ PublishDefaults(p) \/ Kill(p) \/ StartAgain(p)
    PROVE  KeepsStore
BY PathsApart, Found
DEF BootStore, Save, PayloadWritten, ReadPrevious, BackupWritten, RenameBusy, PublishDefaults, Kill,
    StartAgain, Publish, Write, KeepsStore

LEMMA ActionInv ==
    ASSUME StoreInv, PreserveBackup, NEW p \in StoreProcesses,
           \/ BootStore(p) \/ Save(p) \/ PayloadWritten(p) \/ ReadPrevious(p) \/ BackupWritten(p)
           \/ RenameBusy(p) \/ PublishDefaults(p) \/ Kill(p) \/ StartAgain(p)
    PROVE  StoreInv'
<1>1. CASE PublishDefaults(p)
  BY <1>1, PublishTrueInv, FileTypes DEF PublishDefaults
<1>2. CASE Kill(p)
  BY <1>2, StageInv DEF Kill
<1> QED  BY <1>1, <1>2, BootInv, SaveInv, PayloadInv, ReadInv, BackupWrittenInv, BusyInv, AgainInv

\* Every step keeps the invariant and turns neither file into one that does not parse.
LEMMA StoreStep ==
    ASSUME StoreInv, PreserveBackup, [StoreNext]_storeVars
    PROVE  /\ StoreInv'
           /\ \A f \in {Store, Backup} : files[f].whole => files'[f].whole
<1>1. CASE UNCHANGED storeVars
  <2>1. files' = files /\ writer' = writer
    BY <1>1 DEF storeVars
  <2> QED  BY <2>1 DEF StoreInv, StoreTypes, OwnInv, OwnTemps, SeenWhole, PayloadTemp, BackupTemp
<1>2. ASSUME NEW p \in StoreProcesses,
             \/ BootStore(p) \/ Save(p) \/ PayloadWritten(p) \/ ReadPrevious(p) \/ BackupWritten(p)
             \/ RenameBusy(p) \/ PublishDefaults(p) \/ Kill(p) \/ StartAgain(p)
      PROVE  /\ StoreInv'
             /\ \A f \in {Store, Backup} : files[f].whole => files'[f].whole
  BY <1>2, ActionInv, OwnFileOnly DEF KeepsStore
<1>3. ASSUME NEW p \in StoreProcesses,
             RenameBackup(p) \/ RenameStore(p) \/ BackupFails(p) \/ PublishFails(p)
      PROVE  /\ StoreInv'
             /\ \A f \in {Store, Backup} : files[f].whole => files'[f].whole
  <2>1. CASE RenameBackup(p)
    BY <2>1, RenameBackupInv
  <2>2. CASE RenameStore(p)
    <3>1. StoreInv' /\ files'[Store] = WholeFile(writer[p].doc) /\ files'[Backup] = files[Backup]
      BY <2>2, RenameStoreInv
    <3> QED  BY <3>1 DEF WholeFile
  <2>3. CASE BackupFails(p)
    BY <2>3, BackupFailsInv
  <2>4. CASE PublishFails(p)
    BY <2>4, PublishFailsInv
  <2> QED  BY <1>3, <2>1, <2>2, <2>3, <2>4
<1> QED  BY <1>1, <1>2, <1>3 DEF StoreNext

FaultTypes == faults \in [busy : Nat, failed : Nat, left : Nat, kills : Nat]

LEMMA FaultStep == ASSUME FaultTypes, [StoreNext]_storeVars PROVE FaultTypes'
<1>1. \/ UNCHANGED faults
      \/ \E kind \in {"busy", "failed", "left", "kills"} : Fault(kind)
  BY DEF StoreNext, storeVars, BootStore, Save, PayloadWritten, ReadPrevious, BackupWritten,
         RenameBackup, RenameStore, RenameBusy, BackupFails, PublishFails, PublishDefaults, Kill,
         StartAgain, Publish, CallFails, LeavesTemp
<1> QED  BY <1>1 DEF FaultTypes, Fault

\* Among the steps from the rename to a publish that is done, only the rename itself counts no
\* failure: what fails for lack of a temp file cannot happen to a publish that has its own.
LEMMA DoneIsPlaced ==
    ASSUME StoreInv, FaultTypes, [StoreNext]_storeVars, NEW p \in StoreProcesses,
           writer[p].at = "rename", writer'[p].at = "idle", faults' = faults
    PROVE  files'[Store] = WholeFile(writer[p].doc)
<1>1. PICK q \in StoreProcesses :
         \/ BootStore(q) \/ Save(q) \/ PayloadWritten(q) \/ ReadPrevious(q) \/ BackupWritten(q)
         \/ RenameBackup(q) \/ RenameStore(q) \/ RenameBusy(q) \/ BackupFails(q)
         \/ PublishFails(q) \/ PublishDefaults(q) \/ Kill(q) \/ StartAgain(q)
  BY DEF StoreNext, storeVars
<1>2. writer \in [StoreProcesses -> PublishType]
  BY DEF StoreInv, StoreTypes
<1>3. q = p
  <2>1. SUFFICES ASSUME q # p PROVE writer'[p] = writer[p]
    OBVIOUS
  <2> QED
    BY <1>1, <1>2, <2>1
    DEF BootStore, Save, PayloadWritten, ReadPrevious, BackupWritten, RenameBackup, RenameStore,
        RenameBusy, BackupFails, PublishFails, PublishDefaults, Kill, StartAgain, Publish, GoTo
<1>4. \/ RenameStore(p) \/ PublishFails(p) \/ RenameBusy(p) \/ Kill(p)
  BY <1>1, <1>3 DEF BootStore, Save, PayloadWritten, ReadPrevious, BackupWritten, RenameBackup,
                    BackupFails, PublishDefaults, StartAgain
<1>5. ~RenameBusy(p) /\ ~Kill(p)
  <2>1. \A kind \in {"busy", "kills"} : ~Fault(kind)
    BY DEF FaultTypes, Fault
  <2> QED  BY <2>1 DEF RenameBusy, Kill
<1>6. ~PublishFails(p)
  <2>1. \A kind \in {"busy", "failed", "left"} : ~Fault(kind)
    BY DEF FaultTypes, Fault
  <2>2. files[PayloadTemp(p)] # NoFile
    <3>1. files[PayloadTemp(p)] = WholeFile(writer[p].doc)
      BY Found DEF OwnTemps, TempWritten
    <3>2. WholeFile(writer[p].doc).whole = TRUE /\ NoFile.whole = FALSE
      BY DEF WholeFile, NoFile
    <3> QED  BY <3>1, <3>2
  <2> QED  BY <2>1, <2>2 DEF PublishFails, CallFails, LeavesTemp
<1> QED  BY <1>4, <1>5, <1>6, RenameStoreInv

-----------------------------------------------------------------------------
LEMMA AllHold == ASSUME PreserveBackup PROVE StoreSpec => [](StoreInv /\ FaultTypes)
<1>1. StoreInit => StoreInv /\ FaultTypes
  BY StoreInitInv DEF StoreInit, FaultTypes
<1>2. StoreInv /\ FaultTypes /\ [StoreNext]_storeVars => (StoreInv /\ FaultTypes)'
  BY StoreStep, FaultStep
<1> QED  BY <1>1, <1>2, PTL DEF StoreSpec

\* A recovery that preserves the backup (writeBackup: false) never lets the store, or its
\* backup, turn into a file that does not parse.
THEOREM NeverTorn == ASSUME PreserveBackup PROVE StoreSpec => StaysWhole
<1>1. StoreInv /\ [StoreNext]_storeVars
        => [\A f \in {Store, Backup} : files[f].whole => files'[f].whole]_storeVars
  BY StoreStep
<1> QED  BY <1>1, AllHold, PTL DEF StoreSpec, StaysWhole

\* While the store does not parse its backup does, so a start always finds its documents.
THEOREM AlwaysReadable == ASSUME PreserveBackup PROVE StoreSpec => []SomethingReadable
<1>1. StoreInit => SomethingReadable
  BY DEF StoreInit, SomethingReadable, Paths, Backup, Store, WholeFile
<1>2. StoreInv /\ SomethingReadable /\ [StoreNext]_storeVars => SomethingReadable'
  BY StoreStep DEF SomethingReadable
<1> QED  BY <1>1, <1>2, AllHold, PTL DEF StoreSpec

\* A publish that reports success has placed its own document, whatever other processes that
\* share the file do meanwhile.
THEOREM PlacesItsOwn == ASSUME PreserveBackup PROVE StoreSpec => OwnDocumentPlaced
<1>1. StoreInv /\ FaultTypes /\ [StoreNext]_storeVars
        => [\A p \in StoreProcesses :
               writer[p].at = "rename" /\ writer'[p].at = "idle" /\ faults' = faults
               => files'[Store] = WholeFile(writer[p].doc)]_storeVars
  BY DoneIsPlaced
<1> QED  BY <1>1, AllHold, PTL DEF StoreSpec, OwnDocumentPlaced

\* A publish harms nobody, whatever the processes do: its own document is placed and nothing
\* is torn (PublishesWhole, of publishStoreAtomically).
THEOREM HarmsNobody == ASSUME PreserveBackup PROVE StoreSpec => PublishesWhole
BY NeverTorn, PlacesItsOwn DEF PublishesWhole

-----------------------------------------------------------------------------
\* While nobody was killed, and each removal succeeded, only a publish under way has temp files.
TempsGone(p) ==
    /\ writer[p].at \in {"boot", "idle", "defaults", "down"} => files[PayloadTemp(p)] = NoFile
    /\ writer[p].at \notin {"backup", "renameBackup"} => files[BackupTemp(p)] = NoFile

AllRemoved == faults.kills = 0 /\ faults.left = 0

TempInv == AllRemoved => \A p \in StoreProcesses : TempsGone(p)

\* A step of one process leaves the temp files of the others.
LEMMA OthersTemps ==
    ASSUME NEW p \in StoreProcesses, TempInv, AllRemoved,
           \A q \in StoreProcesses \ {p} : writer'[q] = writer[q],
           \A f \in Paths \ {PayloadTemp(p), BackupTemp(p), Store, Backup} : files'[f] = files[f],
           TempsGone(p)'
    PROVE  TempInv'
<1>1. ASSUME NEW q \in StoreProcesses \ {p} PROVE TempsGone(q)'
  <2>1. writer'[q] = writer[q] /\ TempsGone(q)
    BY DEF TempInv
  <2>2. /\ PayloadTemp(q) \in Paths \ {PayloadTemp(p), BackupTemp(p), Store, Backup}
        /\ BackupTemp(q) \in Paths \ {PayloadTemp(p), BackupTemp(p), Store, Backup}
    BY PathsApart
  <2>3. files'[PayloadTemp(q)] = files[PayloadTemp(q)] /\ files'[BackupTemp(q)] = files[BackupTemp(q)]
    BY <2>2
  <2> QED  BY <2>1, <2>3 DEF TempsGone, PayloadTemp, BackupTemp
<1> QED  BY <1>1 DEF TempInv

\* What a step of p that leaves no temp file does to its record and to the files.
LEMMA StepParts ==
    ASSUME StoreInv, TempInv, FaultTypes, AllRemoved, AllRemoved', NEW p \in StoreProcesses,
           \/ BootStore(p) \/ Save(p) \/ PayloadWritten(p) \/ ReadPrevious(p) \/ BackupWritten(p)
           \/ RenameBackup(p) \/ RenameStore(p) \/ RenameBusy(p) \/ BackupFails(p)
           \/ PublishFails(p) \/ PublishDefaults(p) \/ StartAgain(p)
    PROVE  /\ \A q \in StoreProcesses \ {p} : writer'[q] = writer[q]
           /\ \A f \in Paths \ {PayloadTemp(p), BackupTemp(p), Store, Backup} : files'[f] = files[f]
           /\ TempsGone(p)'
<1>0. /\ writer \in [StoreProcesses -> PublishType] /\ files \in [Paths -> FileType]
      /\ TempsGone(p)
  BY DEF StoreInv, StoreTypes, TempInv
<1>a. ~LeavesTemp
  BY DEF LeavesTemp, Fault, FaultTypes, AllRemoved
<1>1. ASSUME NEW d, Publish(p, d, TRUE), writer[p].at \in {"boot", "defaults"}
      PROVE  /\ \A q \in StoreProcesses \ {p} : writer'[q] = writer[q]
             /\ \A f \in Paths \ {PayloadTemp(p)} : files'[f] = files[f]
             /\ TempsGone(p)'
  BY <1>0, <1>1, PathsApart DEF Publish, Write, TempsGone, PayloadTemp, BackupTemp, PublishType
<1>2. CASE BootStore(p)
  <2>1. CASE files[Store].whole
    BY <1>0, <1>2, <2>1 DEF BootStore, GoTo, TempsGone, PayloadTemp, BackupTemp, PublishType
  <2>2. CASE ~files[Store].whole
    BY <1>1, <1>2, <2>2 DEF BootStore
  <2> QED  BY <2>1, <2>2
<1>3. CASE PublishDefaults(p)
  BY <1>1, <1>3 DEF PublishDefaults
<1>4. CASE Save(p)
  BY <1>0, <1>4, PathsApart DEF Save, Write, TempsGone, PayloadTemp, BackupTemp, PublishType, Starting
<1>5. CASE PayloadWritten(p)
  BY <1>0, <1>5, PathsApart
  DEF PayloadWritten, Write, GoTo, TempsGone, PayloadTemp, BackupTemp, PublishType
<1>6. CASE ReadPrevious(p)
  BY <1>0, <1>6, PathsApart
  DEF ReadPrevious, Write, GoTo, TempsGone, PayloadTemp, BackupTemp, PublishType
<1>7. CASE BackupWritten(p)
  BY <1>0, <1>7, PathsApart
  DEF BackupWritten, Write, GoTo, TempsGone, PayloadTemp, BackupTemp, PublishType
<1>8. CASE RenameBackup(p)
  BY <1>0, <1>8, PathsApart
  DEF RenameBackup, Moved, GoTo, TempsGone, PayloadTemp, BackupTemp, PublishType
<1>9. CASE RenameStore(p)
  BY <1>0, <1>9, PathsApart
  DEF RenameStore, Moved, GoTo, TempsGone, PayloadTemp, BackupTemp, PublishType
<1>10. CASE RenameBusy(p)
  BY <1>0, <1>10 DEF RenameBusy, TempsGone, PayloadTemp, BackupTemp, PublishType
<1>11. CASE BackupFails(p)
  BY <1>0, <1>a, <1>11, PathsApart
  DEF BackupFails, WithoutBackupTemp, GoTo, TempsGone, PayloadTemp, BackupTemp, PublishType
<1>12. CASE PublishFails(p)
  BY <1>0, <1>a, <1>12, PathsApart
  DEF PublishFails, Write, GoTo, TempsGone, PayloadTemp, BackupTemp, PublishType
<1>13. CASE StartAgain(p)
  BY <1>0, <1>13 DEF StartAgain, Starting, TempsGone, PayloadTemp, BackupTemp, PublishType
<1> QED  BY <1>2, <1>3, <1>4, <1>5, <1>6, <1>7, <1>8, <1>9, <1>10, <1>11, <1>12, <1>13

\* A kill and a failed removal are counted, so what they leave behind is not asked for; no other
\* step leaves anything.
LEMMA TempStep ==
    ASSUME StoreInv, FaultTypes, TempInv, [StoreNext]_storeVars
    PROVE  TempInv'
<1>1. CASE UNCHANGED storeVars
  BY <1>1 DEF storeVars, TempInv, AllRemoved, TempsGone, PayloadTemp, BackupTemp
<1>2. ASSUME NEW p \in StoreProcesses, Kill(p) PROVE TempInv'
  BY <1>2 DEF Kill, Fault, FaultTypes, TempInv, AllRemoved
<1>3. ASSUME NEW p \in StoreProcesses,
             \/ BootStore(p) \/ Save(p) \/ PayloadWritten(p) \/ ReadPrevious(p) \/ BackupWritten(p)
             \/ RenameBackup(p) \/ RenameStore(p) \/ RenameBusy(p) \/ BackupFails(p)
             \/ PublishFails(p) \/ PublishDefaults(p) \/ StartAgain(p)
      PROVE  TempInv'
  <2>1. ~AllRemoved => ~AllRemoved'
    <3>1. UNCHANGED faults \/ \E kind \in {"busy", "failed", "left"} : Fault(kind)
      BY <1>3
      DEF BootStore, Save, PayloadWritten, ReadPrevious, BackupWritten, RenameBackup, RenameStore,
          RenameBusy, BackupFails, PublishFails, PublishDefaults, StartAgain, Publish, CallFails,
          LeavesTemp
    <3> QED  BY <3>1 DEF Fault, FaultTypes, AllRemoved
  <2>2. CASE ~AllRemoved'
    BY <2>2 DEF TempInv
  <2>3. CASE AllRemoved /\ AllRemoved'
    BY <1>3, <2>3, StepParts, OthersTemps
  <2> QED  BY <2>1, <2>2, <2>3
<1> QED  BY <1>1, <1>2, <1>3 DEF StoreNext

\* Whenever a process starts the folder has what it needs, and, unless one was killed or could
\* not remove its own, the processes that are done have left no temp file (FolderIsFit).
THEOREM FolderStaysFit == ASSUME PreserveBackup PROVE StoreSpec => []FolderIsFit
<1>1. StoreInit => TempInv
  BY PathsApart DEF StoreInit, Starting, TempInv, AllRemoved, TempsGone
<1>2. StoreInv /\ FaultTypes /\ TempInv /\ [StoreNext]_storeVars => TempInv'
  BY TempStep
<1>3. TempInv => NoStoreTempLeft
  BY DEF TempInv, AllRemoved, TempsGone, NoStoreTempLeft
<1>4. StoreSpec => []NoStoreTempLeft
  BY <1>1, <1>2, <1>3, AllHold, PTL DEF StoreSpec
<1> QED  BY <1>4, AlwaysReadable, PTL DEF FolderIsFit
=============================================================================
