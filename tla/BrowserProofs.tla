----------------------------- MODULE BrowserProofs -----------------------------
(***************************************************************************)
(* Proofs about ScreenReplay and BrowserInput: what the browsers show of a *)
(* shell, and what they send to it.                                        *)
(*                                                                         *)
(* Screens, for any viewers, chunks, queues, resizes, failures, repairs    *)
(* and reconnects, when no output leaves the screen blank: no output is    *)
(* sent over a snapshot that a browser is putting on its screen, and, when *)
(* the headless terminal does not fail under the patch of a repair, none   *)
(* is lost, repeated or out of order.                                      *)
(*                                                                         *)
(* What a viewer will show follows from what the server keeps for it       *)
(* (Shown): a fence holds the chunks between its snapshot and the headless *)
(* terminal, a repair those between its patch and the terminal, and a      *)
(* viewer with neither shows what the terminal shows.  For this to stay    *)
(* so, a chunk that a new snapshot drops must be in it (Sound: what is     *)
(* held is no newer than the terminal), the fence that a refresh finds     *)
(* must survive it (Marked), and an acknowledgement that matches must be   *)
(* of a snapshot that is on the screen (Tokens).                           *)
(*                                                                         *)
(* Inputs, for any numbers of inputs, refusals and disturbances and any    *)
(* limits of the queues: none is sent in a session generation other than   *)
(* the one it was typed in.  KeysFit, the inductive invariant, says that   *)
(* what waits is known by its generation, and that what goes on is of the  *)
(* generation at hand or finds the transport closed: characters that are   *)
(* still gathered when the transport closes are given up before it opens   *)
(* (GatheredFit), because the turn that closes it goes on to flush the     *)
(* sequencer (Closes), or because none wait that long.                     *)
(*                                                                         *)
(* And what waits is in typing order, and each input in one place.         *)
(* HeldFit, inductive too, says so at every step of every turn: what the   *)
(* calls of the turn carry and what waits in outbox, sequencer and view    *)
(* rise in one order, in which each step moves an input from one part to   *)
(* the next (Placed).                                                      *)
(***************************************************************************)
EXTENDS ScreenReplay, BrowserInput, TLAPS, FiniteSetTheorems, SequenceTheorems,
        WellFoundedInduction, NaturalsInduction

Chunk == [id : Nat, seq : Nat]

Headless == [healthy : BOOLEAN, writing : BOOLEAN, shown : Nat, seq : Nat]

OpenFence ==
    [mode : {"authoritative", "fallback"}, seq : Int, held : Seq(Chunk),
     kept : Seq(Chunk), covered : BOOLEAN, unsent : BOOLEAN, repaired : BOOLEAN]

OpenRepair == [stage : {"asked", "sent"}, seq : Nat, held : Seq(Chunk)]

Image ==
    [what : {"patch"}, upto : Nat]
    \cup [what : {"snapshot"}, upto : Nat, current : BOOLEAN]

View ==
    [joined : BOOLEAN, told : BOOLEAN, fence : OpenFence \cup {NoFence},
     repair : OpenRepair \cup {NoRepair}, seen : Seq(Nat),
     applying : Image \cup {Nothing}, acks : SUBSET {"current", "stale"},
     evidence : BOOLEAN]

NoneNewer(chunks, seq) == \A i \in DOMAIN chunks : chunks[i].seq <= seq

\* What a fence and a repair hold is no newer than the terminal, and is there only when
\* the terminal has shown something.
Marked(f) == f.covered \/ f.held # <<>> \/ f.kept # <<>>

FenceSound(f, h) ==
    /\ f.seq <= h.seq /\ NoneNewer(f.held, h.seq) /\ NoneNewer(f.kept, h.seq)
    /\ Marked(f) => ~Snapshot(h).blank

RepairSound(p, h) ==
    /\ p.seq <= h.seq /\ NoneNewer(p.held, h.seq)
    /\ p.held # <<>> => ~Snapshot(h).blank

Sound(v, h) ==
    /\ Fenced(v) => FenceSound(v.fence, h)
    /\ Repairing(v) => RepairSound(v.repair, h)

\* A snapshot on its way has a fence and a patch its repair; an acknowledgement of the
\* current snapshot is on its way only after that snapshot was put on the screen.
Tokens(v) ==
    /\ ~v.joined => v = Away
    /\ v.applying.what = "snapshot" /\ ~v.told => Fenced(v)
    /\ v.applying.what = "patch" => ~Fenced(v) /\ v.repair.stage = "sent"
    /\ Fenced(v) /\ v.fence.seq = -1 =>
          /\ "current" \notin v.acks
          /\ v.applying.what = "snapshot" => ~v.applying.current
    /\ Fenced(v) /\ v.fence.seq # -1 /\ v.applying.what = "snapshot" =>
          /\ "current" \notin v.acks
          /\ v.applying.current

\* No image shows more than the terminal.
UpTo(v, h) == v.applying # Nothing => v.applying.upto <= h.shown

Kept(v, h) == v \in View /\ Sound(v, h) /\ Tokens(v) /\ UpTo(v, h)

\* Chunks n + 1 to m.
Follows(chunks, n, m) ==
    /\ Len(chunks) = m - n
    /\ \A i \in DOMAIN chunks : chunks[i].id = n + i

\* The last chunk that is in the snapshot of a viewer.
Base(v) == IF v.applying.what = "snapshot" THEN v.applying.upto ELSE Len(v.seen)

\* What a viewer shows and what waits for it make what the terminal shows.
Shown(v, h) ==
    v.joined /\ ~v.told =>
      /\ Fenced(v) /\ v.fence.seq # -1 =>
            /\ v.applying.what # "snapshot" => v.seen = First(Len(v.seen))
            /\ Follows(v.fence.held, Base(v), h.shown)
      /\ ~Fenced(v) /\ ~Repairing(v) => v.seen = First(h.shown)
      /\ ~Fenced(v) /\ v.applying.what = "patch" =>
            Follows(Newer(v.repair.held, v.repair.seq), v.applying.upto, h.shown)

\* A failure under the patch of a repair loses what was held for it.
Fit(v, h) == Kept(v, h) /\ (~FailsInRepair => Shown(v, h))

\* No output is sent while a snapshot is on its way to the screen.
Quiet(v, r) == v.applying.what = "snapshot" /\ r.applying = v.applying => r.seen = v.seen

-----------------------------------------------------------------------------
LEMMA NewerOfOld ==
    ASSUME NEW chunks \in Seq(Chunk), NEW n \in Int, NoneNewer(chunks, n)
    PROVE  Newer(chunks, n) = <<>>
<1> DEFINE older == {i \in DOMAIN chunks : chunks[i].seq <= n}
<1>1. older = 1 .. Len(chunks) /\ Len(chunks) \in Nat
  BY DEF NoneNewer
<1>2. Cardinality(older) = Len(chunks)
  <2>1. \A m \in Nat : Cardinality(1 .. m) = m
    BY FS_Interval
  <2> QED  BY <1>1, <2>1
<1>3. Newer(chunks, n) = SubSeq(chunks, Len(chunks) + 1, Len(chunks))
  BY <1>2 DEF Newer
<1> HIDE DEF older
<1> QED  BY <1>1, <1>3, SubSeqEmpty

LEMMA NewerAppend ==
    ASSUME NEW chunks \in Seq(Chunk), NEW n \in Int, NEW k \in Chunk, k.seq > n
    PROVE  /\ Newer(chunks, n) \in Seq(Chunk)
           /\ Newer(Append(chunks, k), n) = Append(Newer(chunks, n), k)
<1> DEFINE older == {i \in DOMAIN chunks : chunks[i].seq <= n}
           all == Append(chunks, k)
           c == Cardinality(older)
           m == Len(chunks)
<1>1. m \in Nat /\ DOMAIN chunks = 1 .. m
  OBVIOUS
<1>2. /\ all \in Seq(Chunk) /\ Len(all) = m + 1 /\ DOMAIN all = 1 .. m + 1
      /\ all[m + 1] = k
      /\ \A i \in 1 .. m : all[i] = chunks[i]
  BY <1>1
<1>3. {i \in DOMAIN all : all[i].seq <= n} = older
  <2>1. k.seq \in Nat /\ ~(k.seq <= n)
    BY DEF Chunk
  <2> HIDE DEF all
  <2> QED  BY <1>1, <1>2, <2>1
<1>4. c \in Nat /\ c <= m
  <2>1. older \in SUBSET (1 .. m)
    BY <1>1
  <2>2. IsFiniteSet(1 .. m) /\ Cardinality(1 .. m) = m
    BY SMTT(30), <1>1, FS_Interval
  <2>3. IsFiniteSet(older) /\ c <= Cardinality(1 .. m)
    BY <2>1, <2>2, FS_Subset
  <2> QED  BY <2>2, <2>3, FS_CardinalityType
<1>5. Newer(chunks, n) = SubSeq(chunks, c + 1, m)
  BY DEF Newer
<1>6. Newer(all, n) = SubSeq(all, c + 1, m + 1)
  BY <1>2, <1>3 DEF Newer
<1> HIDE DEF older, c, all, m
<1>7. /\ SubSeq(chunks, c + 1, m) \in Seq(Chunk)
      /\ Len(SubSeq(chunks, c + 1, m)) = m - c
      /\ \A i \in 1 .. m - c : SubSeq(chunks, c + 1, m)[i] = chunks[c + i]
  <2>1. \A i \in c + 1 .. m : chunks[i] \in Chunk
    BY <1>1, <1>4
  <2>2. c + 1 \in Int /\ m \in Int
    BY <1>1, <1>4
  <2> QED  BY <1>1, <1>4, <2>1, <2>2, SubSeqProperties
<1>8. /\ SubSeq(all, c + 1, m + 1) \in Seq(Chunk)
      /\ Len(SubSeq(all, c + 1, m + 1)) = m + 1 - c
      /\ \A i \in 1 .. m + 1 - c : SubSeq(all, c + 1, m + 1)[i] = all[c + i]
  <2>1. \A i \in c + 1 .. m + 1 : all[i] \in Chunk
    BY <1>1, <1>2, <1>4
  <2>2. c + 1 \in Int /\ m + 1 \in Int
    BY <1>1, <1>4
  <2> QED  BY <1>1, <1>4, <2>1, <2>2, SubSeqProperties
<1> DEFINE x == SubSeq(chunks, c + 1, m)
           y == SubSeq(all, c + 1, m + 1)
<1> HIDE DEF x, y
<1>9. y = Append(x, k)
  <2>1. x \in Seq(Chunk) /\ Len(x) = m - c /\ y \in Seq(Chunk) /\ Len(y) = m + 1 - c
    BY <1>7, <1>8 DEF x, y
  <2>2. Append(x, k) \in Seq(Chunk) /\ Len(Append(x, k)) = m + 1 - c
    BY <1>1, <1>4, <2>1
  <2>3. ASSUME NEW i \in 1 .. m + 1 - c PROVE y[i] = Append(x, k)[i]
    <3>1. CASE i = m + 1 - c
      <4>1. y[i] = all[m + 1]
        BY <1>1, <1>4, <1>8, <3>1 DEF y
      <4>2. Append(x, k)[i] = k
        BY <1>1, <1>4, <2>1, <3>1
      <4> QED  BY <1>2, <4>1, <4>2
    <3>2. CASE i # m + 1 - c
      <4>1. i \in 1 .. m - c /\ c + i \in 1 .. m
        BY <1>1, <1>4, <3>2
      <4>2. y[i] = chunks[c + i]
        BY <1>2, <1>8, <4>1 DEF y
      <4>3. Append(x, k)[i] = x[i]
        BY <1>1, <1>4, <2>1, <4>1
      <4> QED  BY <1>7, <4>1, <4>2, <4>3 DEF x
    <3> QED  BY <3>1, <3>2
  <2> QED  BY <2>1, <2>2, <2>3, SeqEqual
<1> QED  BY <1>5, <1>6, <1>7, <1>9 DEF x, y, all

LEMMA NewerIsSeq ==
    ASSUME NEW chunks \in Seq(Chunk), NEW n \in Int
    PROVE  Newer(chunks, n) \in Seq(Chunk)
<1> DEFINE older == {i \in DOMAIN chunks : chunks[i].seq <= n}
           c == Cardinality(older)
           m == Len(chunks)
<1>1. m \in Nat /\ DOMAIN chunks = 1 .. m
  OBVIOUS
<1>2. c \in Nat
  <2>1. older \in SUBSET (1 .. m)
    BY <1>1
  <2>2. IsFiniteSet(1 .. m)
    BY <1>1, FS_Interval
  <2> QED  BY <2>1, <2>2, FS_Subset, FS_CardinalityType
<1>3. Newer(chunks, n) = SubSeq(chunks, c + 1, m)
  BY DEF Newer
<1> HIDE DEF c, m
<1>4. \A i \in c + 1 .. m : chunks[i] \in Chunk
  BY <1>1, <1>2
<1>5. c + 1 \in Int /\ m \in Int
  BY <1>1, <1>2
<1> QED  BY <1>3, <1>4, <1>5, SubSeqProperties

LEMMA FirstIsSeq ==
    ASSUME NEW n \in Nat
    PROVE  First(n) \in Seq(Nat) /\ Len(First(n)) = n /\ \A i \in 1 .. n : First(n)[i] = i
<1>1. First(n) \in [1 .. n -> Nat]
  BY DEF First
<1> QED  BY <1>1 DEF First

LEMMA IdsAreSeq ==
    ASSUME NEW chunks \in Seq(Chunk)
    PROVE  /\ Ids(chunks) \in Seq(Nat)
           /\ Len(Ids(chunks)) = Len(chunks)
           /\ \A i \in 1 .. Len(chunks) : Ids(chunks)[i] = chunks[i].id
<1>1. Ids(chunks) \in [1 .. Len(chunks) -> Nat]
  <2>1. \A i \in DOMAIN chunks : chunks[i] \in Chunk
    OBVIOUS
  <2>2. \A i \in DOMAIN chunks : chunks[i].id \in Nat
    BY <2>1 DEF Chunk
  <2> QED  BY <2>2 DEF Ids
<1>2. Len(chunks) \in Nat /\ DOMAIN chunks = 1 .. Len(chunks)
  OBVIOUS
<1> QED  BY <1>1, <1>2 DEF Ids

LEMMA FollowsEmpty ==
    ASSUME NEW n \in Nat
    PROVE  Follows(<<>>, n, n)
BY DEF Follows

LEMMA FollowsAppend ==
    ASSUME NEW chunks \in Seq(Chunk), NEW n \in Nat, NEW m \in Nat, Follows(chunks, n, m),
           NEW k \in Chunk, k.id = m + 1
    PROVE  Follows(Append(chunks, k), n, m + 1)
<1>1. Len(chunks) = m - n /\ Len(chunks) \in Nat /\ DOMAIN chunks = 1 .. Len(chunks)
  BY DEF Follows
<1> DEFINE all == Append(chunks, k)
<1>2. /\ Len(all) = m - n + 1 /\ DOMAIN all = 1 .. m - n + 1
      /\ all[m - n + 1] = k
      /\ \A i \in 1 .. m - n : all[i] = chunks[i]
  BY <1>1
<1> HIDE DEF all
<1>3. ASSUME NEW i \in DOMAIN all PROVE all[i].id = n + i
  <2>1. CASE i = m - n + 1
    BY <1>2, <2>1
  <2>2. CASE i # m - n + 1
    <3>1. i \in 1 .. m - n /\ i \in DOMAIN chunks
      BY <1>1, <1>2, <2>2
    <3> QED  BY <1>2, <3>1 DEF Follows
  <2> QED  BY <2>1, <2>2
<1> QED  BY <1>2, <1>3 DEF Follows, all

LEMMA FirstFollowed ==
    ASSUME NEW chunks \in Seq(Chunk), NEW n \in Nat, NEW m \in Nat, Follows(chunks, n, m)
    PROVE  First(n) \o Ids(chunks) = First(m)
<1> DEFINE x == First(n)  y == Ids(chunks)  z == First(m)
<1>1. x \in Seq(Nat) /\ Len(x) = n /\ \A i \in 1 .. n : x[i] = i
  BY FirstIsSeq
<1>2. z \in Seq(Nat) /\ Len(z) = m /\ \A i \in 1 .. m : z[i] = i
  BY FirstIsSeq
<1>3. y \in Seq(Nat) /\ Len(y) = m - n /\ \A i \in 1 .. m - n : y[i] = n + i
  <2>1. Len(chunks) = m - n /\ \A i \in 1 .. m - n : chunks[i].id = n + i
    BY DEF Follows
  <2> QED  BY <2>1, IdsAreSeq
<1>4. Len(y) \in Nat
  BY <1>3
<1> HIDE DEF x, y, z
<1> DEFINE xy == x \o y
<1>5. /\ xy \in Seq(Nat)
      /\ Len(xy) = Len(x) + Len(y)
      /\ \A i \in 1 .. Len(x) + Len(y) : xy[i] = IF i <= Len(x) THEN x[i] ELSE y[i - Len(x)]
  BY <1>1, <1>3, ConcatProperties
<1> HIDE DEF xy
<1>6. Len(xy) = m
  BY <1>1, <1>3, <1>5
<1>7. ASSUME NEW i \in 1 .. m PROVE xy[i] = z[i]
  <2>1. xy[i] = IF i <= n THEN x[i] ELSE y[i - n]
    BY <1>1, <1>3, <1>5
  <2>2. CASE i <= n
    BY <1>1, <1>2, <2>1, <2>2
  <2>3. CASE i > n
    <3>1. i - n \in 1 .. m - n /\ xy[i] = y[i - n]
      BY <1>1, <2>1, <2>3
    <3> QED  BY <1>2, <1>3, <3>1
  <2> QED  BY <2>2, <2>3
<1>8. xy = z
  BY <1>2, <1>5, <1>6, <1>7, SeqEqual
<1> QED  BY <1>8 DEF x, y, z, xy

-----------------------------------------------------------------------------
LEMMA ViewParts ==
    ASSUME NEW v \in View
    PROVE  /\ Fenced(v) => v.fence \in OpenFence
           /\ ~Fenced(v) => v.fence = NoFence
           /\ Repairing(v) => v.repair \in OpenRepair
           /\ ~Repairing(v) => v.repair = NoRepair
           /\ v.applying = Nothing \/ v.applying \in Image
           /\ v.applying.what = "none" <=> v.applying = Nothing
           /\ v.applying.what \in {"none", "patch", "snapshot"}
<1>1. v.fence \in OpenFence \cup {NoFence}
  BY DEF View
<1>2. v.repair \in OpenRepair \cup {NoRepair}
  BY DEF View
<1>3. v.applying \in Image \cup {Nothing}
  BY DEF View
<1>4. Fenced(v) => v.fence \in OpenFence
  BY <1>1 DEF Fenced, NoFence
<1>5. ~Fenced(v) => v.fence = NoFence
  BY <1>1 DEF Fenced, OpenFence
<1>6. Repairing(v) => v.repair \in OpenRepair
  BY <1>2 DEF Repairing, NoRepair
<1>7. ~Repairing(v) => v.repair = NoRepair
  BY <1>2 DEF Repairing, OpenRepair
<1>8. v.applying \in Image => v.applying.what \in {"patch", "snapshot"}
  BY DEF Image
<1>9. Nothing.what = "none"
  BY DEF Nothing
<1> QED  BY <1>3, <1>4, <1>5, <1>6, <1>7, <1>8, <1>9

LEMMA SnapshotParts ==
    ASSUME NEW h \in Headless
    PROVE  /\ Snapshot(h).seq = h.seq /\ Snapshot(h).shown = h.shown
           /\ Snapshot(h).healthy = h.healthy
           /\ Mode(Snapshot(h)) \in {"authoritative", "fallback"}
           /\ h.seq \in Nat /\ h.shown \in Nat
BY DEF Snapshot, Mode, Headless

LEMMA AwayFits ==
    ASSUME NEW h
    PROVE  /\ Away \in View /\ Kept(Away, h) /\ Shown(Away, h)
           /\ ~Fenced(Away) /\ ~Repairing(Away) /\ Away.applying = Nothing
<1>1. <<>> \in Seq(Nat)
  OBVIOUS
<1>2. Away \in View
  BY <1>1 DEF Away, View
<1>3. /\ ~Fenced(Away) /\ ~Repairing(Away) /\ Away.applying.what = "none" /\ ~Away.joined
      /\ Away.applying = Nothing
  BY DEF Away, Fenced, Repairing, NoFence, NoRepair, Nothing
<1> QED  BY <1>2, <1>3 DEF Kept, Sound, Tokens, Shown, UpTo

LEMMA TellFits ==
    ASSUME NEW h, NEW v \in View, v.joined
    PROVE  /\ Kept(TellToReconnect(v), h) /\ Shown(TellToReconnect(v), h)
           /\ TellToReconnect(v).applying = Nothing
           /\ TellToReconnect(v).told
           /\ ~Fenced(TellToReconnect(v)) /\ ~Repairing(TellToReconnect(v))
<1> DEFINE t == TellToReconnect(v)
<1>1. /\ t.joined /\ t.told /\ t.applying = Nothing /\ t.fence = NoFence /\ t.repair = NoRepair
      /\ t.seen = <<>> /\ t.acks = {} /\ t.evidence = FALSE
  BY DEF TellToReconnect, Away
<1>2. t \in View
  BY AwayFits DEF TellToReconnect, View
<1>3. ~Fenced(t) /\ ~Repairing(t) /\ t.applying.what = "none"
  BY <1>1 DEF Fenced, Repairing, NoFence, NoRepair, Nothing
<1> HIDE DEF t
<1>4. Kept(t, h) /\ Shown(t, h)
  BY <1>1, <1>2, <1>3 DEF Kept, Sound, Tokens, Shown, UpTo
<1> QED  BY <1>1, <1>3, <1>4 DEF t

\* The token changes: acknowledgements become stale.
LEMMA NewTokenParts ==
    ASSUME NEW v \in View
    PROVE  /\ NewToken(v) \in View
           /\ NewToken(v).joined = v.joined /\ NewToken(v).told = v.told
           /\ NewToken(v).fence = v.fence /\ NewToken(v).repair = v.repair
           /\ NewToken(v).seen = v.seen /\ NewToken(v).evidence = v.evidence
           /\ "current" \notin NewToken(v).acks
           /\ NewToken(v).applying.what = v.applying.what
           /\ \A h : UpTo(v, h) => UpTo(NewToken(v), h)
           /\ NewToken(v).applying.what = "snapshot" => ~NewToken(v).applying.current
<1> DEFINE acks == IF v.acks = {} THEN {} ELSE {"stale"}
           applying == IF v.applying.what = "snapshot" THEN [v.applying EXCEPT !.current = FALSE]
                       ELSE v.applying
           t == NewToken(v)
<1>1. t = [v EXCEPT !.acks = acks, !.applying = applying]
  BY DEF NewToken, View
<1>2. acks \in SUBSET {"current", "stale"} /\ "current" \notin acks
  OBVIOUS
<1>3. /\ applying \in Image \cup {Nothing}
      /\ applying.what = v.applying.what
      /\ applying.what = "snapshot" => ~applying.current
      /\ applying = v.applying \/ (v.applying # Nothing /\ applying.upto = v.applying.upto)
  <2>1. CASE v.applying.what = "snapshot"
    <3>1. v.applying \in [what : {"snapshot"}, upto : Nat, current : BOOLEAN]
      BY <2>1 DEF View, Image, Nothing
    <3>2. v.applying # Nothing
      BY <2>1 DEF Nothing
    <3>3. applying.upto = v.applying.upto /\ applying.what = v.applying.what /\ ~applying.current
      BY <2>1, <3>1
    <3> QED  BY <2>1, <3>1, <3>2, <3>3 DEF Image
  <2>2. CASE v.applying.what # "snapshot"
    BY <2>2 DEF View
  <2> QED  BY <2>1, <2>2
<1> HIDE DEF acks, applying, t
<1>4. /\ t.joined = v.joined /\ t.told = v.told /\ t.fence = v.fence /\ t.repair = v.repair
      /\ t.seen = v.seen /\ t.evidence = v.evidence
      /\ t.acks = acks /\ t.applying = applying
  BY <1>1 DEF View
<1>5. t \in View
  BY <1>1, <1>2, <1>3 DEF View
<1>6. \A h : UpTo(v, h) => UpTo(t, h)
  BY <1>3, <1>4 DEF UpTo
<1> QED  BY <1>2, <1>3, <1>4, <1>5, <1>6 DEF t

LEMMA SendSnapshotParts ==
    ASSUME NEW v \in View, NEW h \in Headless
    PROVE  LET r == SendSnapshot(v, Snapshot(h))
           IN  /\ r \in View
               /\ r.joined = v.joined /\ r.told = v.told /\ r.fence = v.fence
               /\ r.repair = v.repair /\ r.seen = v.seen /\ r.evidence = v.evidence
               /\ "current" \notin r.acks
               /\ r.applying.what = "snapshot" /\ r.applying.upto = h.shown /\ r.applying.current
<1> DEFINE t == NewToken(v)
           applying == [what |-> "snapshot", upto |-> h.shown, current |-> TRUE]
           r == SendSnapshot(v, Snapshot(h))
<1>1. /\ t \in View
      /\ t.joined = v.joined /\ t.told = v.told /\ t.fence = v.fence /\ t.repair = v.repair
      /\ t.seen = v.seen /\ t.evidence = v.evidence /\ "current" \notin t.acks
  BY NewTokenParts
<1>2. r = [t EXCEPT !.applying = applying]
  BY SnapshotParts DEF SendSnapshot
<1>3. applying \in Image \cup {Nothing} /\ applying.what = "snapshot" /\ applying.upto = h.shown
      /\ applying.current
  BY SnapshotParts DEF Image
<1> HIDE DEF t, applying, r
<1>4. /\ r.joined = t.joined /\ r.told = t.told /\ r.fence = t.fence /\ r.repair = t.repair
      /\ r.seen = t.seen /\ r.evidence = t.evidence /\ r.acks = t.acks
      /\ r.applying = applying
  BY <1>1, <1>2 DEF View
<1>5. r \in View
  BY <1>1, <1>2, <1>3 DEF View
<1> QED  BY <1>1, <1>3, <1>4, <1>5 DEF r

LEMMA ConcatSound ==
    ASSUME NEW a \in Seq(Chunk), NEW b \in Seq(Chunk), NEW n \in Int,
           NoneNewer(a, n), NoneNewer(b, n)
    PROVE  a \o b \in Seq(Chunk) /\ NoneNewer(a \o b, n)
<1> DEFINE ab == a \o b
<1>1. /\ ab \in Seq(Chunk)
      /\ Len(ab) = Len(a) + Len(b)
      /\ \A i \in 1 .. Len(a) + Len(b) : ab[i] = IF i <= Len(a) THEN a[i] ELSE b[i - Len(a)]
  BY ConcatProperties
<1> HIDE DEF ab
<1>2. ASSUME NEW i \in DOMAIN ab PROVE ab[i].seq <= n
  <2>1. i \in 1 .. Len(a) + Len(b)
    BY <1>1
  <2>2. CASE i <= Len(a)
    BY <1>1, <2>1, <2>2 DEF NoneNewer
  <2>3. CASE i > Len(a)
    <3>1. i - Len(a) \in DOMAIN b /\ ab[i] = b[i - Len(a)]
      BY <1>1, <2>1, <2>3
    <3> QED  BY <3>1 DEF NoneNewer
  <2> QED  BY <2>1, <2>2, <2>3
<1> QED  BY <1>1, <1>2 DEF NoneNewer, ab

LEMMA EmptySound ==
    ASSUME NEW n
    PROVE  <<>> \in Seq(Chunk) /\ NoneNewer(<<>>, n)
BY DEF NoneNewer

\* A snapshot in a fence of its own: nothing is newer than it.
LEMMA ReplayFits ==
    ASSUME NEW h \in Headless, NEW v \in View, v.joined, Sound(v, h),
           NEW chunks \in Seq(Chunk), NoneNewer(chunks, h.seq),
           chunks # <<>> => ~Snapshot(h).blank, NEW repaired \in BOOLEAN
    PROVE  LET r == SnapshotReplay(v, Snapshot(h), chunks, repaired)
           IN  /\ Kept(r, h) /\ Shown(r, h)
               /\ Fenced(r) /\ r.applying.what = "snapshot" /\ r.seen = v.seen
               /\ r.applying.upto = h.shown
<1> DEFINE s == SendSnapshot(v, Snapshot(h))
           former == IF Fenced(v) /\ v.fence.unsent THEN v.fence.kept \o v.fence.held ELSE <<>>
           seeds == former \o chunks
           f == [mode |-> Mode(Snapshot(h)), seq |-> h.seq, held |-> <<>>, kept |-> <<>>,
                 covered |-> 0 < Len(seeds), unsent |-> FALSE, repaired |-> repaired]
           r == SnapshotReplay(v, Snapshot(h), chunks, repaired)
<1>1. former \in Seq(Chunk) /\ NoneNewer(former, h.seq)
  <2>1. CASE Fenced(v) /\ v.fence.unsent
    <3>1. /\ v.fence.kept \in Seq(Chunk) /\ NoneNewer(v.fence.kept, h.seq)
          /\ v.fence.held \in Seq(Chunk) /\ NoneNewer(v.fence.held, h.seq)
          /\ h.seq \in Int
      BY <2>1, ViewParts, SnapshotParts DEF Sound, FenceSound, OpenFence
    <3> QED  BY <2>1, <3>1, ConcatSound
  <2>2. CASE ~(Fenced(v) /\ v.fence.unsent)
    BY <2>2, EmptySound
  <2> QED  BY <2>1, <2>2
<1>2. h.seq \in Nat /\ h.seq \in Int /\ seeds \in Seq(Chunk) /\ NoneNewer(seeds, h.seq)
  <2>1. h.seq \in Nat /\ h.seq \in Int
    BY SnapshotParts
  <2> HIDE DEF former
  <2>2. seeds \in Seq(Chunk) /\ NoneNewer(seeds, h.seq)
    BY <1>1, <2>1, ConcatSound
  <2> QED  BY <2>1, <2>2
<1>3. Newer(seeds, h.seq) = <<>> /\ Len(<<>>) = 0
  <2> HIDE DEF seeds
  <2>1. Newer(seeds, h.seq) = <<>>
    BY <1>2, NewerOfOld
  <2> QED  BY <2>1
<1>4. r = [s EXCEPT !.fence = f]
  <2>1. seeds = (IF Fenced(v) /\ v.fence.unsent THEN v.fence.kept \o v.fence.held ELSE <<>>)
                \o chunks
    OBVIOUS
  <2> HIDE DEF seeds, former
  <2> QED  BY <1>3, <2>1, SnapshotParts DEF SnapshotReplay
<1>5. 0 < Len(seeds) => ~Snapshot(h).blank
  <2>1. ASSUME Snapshot(h).blank PROVE seeds = <<>>
    <3>1. chunks = <<>>
      BY <2>1
    <3>2. CASE Fenced(v) /\ v.fence.unsent
      <4>1. v.fence.kept = <<>> /\ v.fence.held = <<>>
        BY <2>1, <3>2 DEF Sound, FenceSound, Marked
      <4> QED  BY <3>1, <3>2, <4>1
    <3>3. CASE ~(Fenced(v) /\ v.fence.unsent)
      BY <3>1, <3>3
    <3> QED  BY <3>2, <3>3
  <2> HIDE DEF seeds
  <2> QED  BY <1>3, <2>1
<1> HIDE DEF s, seeds, former, r
<1>6. /\ s \in View
      /\ s.joined /\ s.told = v.told /\ s.repair = v.repair /\ s.seen = v.seen
      /\ "current" \notin s.acks
      /\ s.applying.what = "snapshot" /\ s.applying.upto = h.shown /\ s.applying.current
  BY SendSnapshotParts DEF s
<1>7. f \in OpenFence /\ f.seq = h.seq /\ f.held = <<>> /\ f.kept = <<>>
      /\ f.covered = (0 < Len(seeds)) /\ f.mode # "none"
  BY <1>2, EmptySound, SnapshotParts DEF OpenFence
<1> HIDE DEF f
<1>8. /\ r \in View /\ r.fence = f /\ r.joined /\ r.repair = s.repair
      /\ r.acks = s.acks /\ r.applying = s.applying /\ r.seen = v.seen
  BY <1>4, <1>6, <1>7 DEF View
<1>9. Fenced(r) /\ r.fence.seq # -1
  BY <1>2, <1>7, <1>8 DEF Fenced
<1>10. Sound(r, h)
  <2>1. FenceSound(f, h)
    <3>1. f.seq <= h.seq /\ NoneNewer(f.held, h.seq) /\ NoneNewer(f.kept, h.seq)
      BY <1>2, <1>7, EmptySound
    <3>2. Marked(f) => ~Snapshot(h).blank
      BY <1>5, <1>7 DEF Marked
    <3> QED  BY <3>1, <3>2 DEF FenceSound
  <2>2. Repairing(r) => RepairSound(r.repair, h)
    BY <1>6, <1>8 DEF Sound, Repairing
  <2> QED  BY <1>8, <2>1, <2>2 DEF Sound
<1>11. Tokens(r)
  BY <1>6, <1>8, <1>9 DEF Tokens
<1>12. Shown(r, h)
  BY <1>6, <1>7, <1>8, <1>9, SnapshotParts, FollowsEmpty DEF Shown, Base
<1>13. UpTo(r, h)
  BY <1>6, <1>8, SnapshotParts DEF UpTo
<1> QED  BY <1>6, <1>8, <1>9, <1>10, <1>11, <1>12, <1>13 DEF Kept, r

LEMMA FenceAheadFits ==
    ASSUME NEW h \in Headless, NEW v \in View, v.joined, ~Fenced(v), Sound(v, h),
           v.applying.what # "patch", UpTo(v, h)
    PROVE  LET r == FenceAhead(v)
           IN  /\ Kept(r, h) /\ Shown(r, h)
               /\ Fenced(r) /\ r.applying.what = v.applying.what /\ r.seen = v.seen
<1> DEFINE t == NewToken(v)
           f == [mode |-> "fallback", seq |-> -1, held |-> <<>>, kept |-> <<>>,
                 covered |-> FALSE, unsent |-> TRUE, repaired |-> FALSE]
           r == FenceAhead(v)
<1>1. r = [t EXCEPT !.fence = f]
  BY DEF FenceAhead
<1>2. /\ t \in View
      /\ t.joined /\ t.told = v.told /\ t.repair = v.repair /\ t.seen = v.seen
      /\ "current" \notin t.acks
      /\ t.applying.what = v.applying.what
      /\ t.applying.what = "snapshot" => ~t.applying.current
      /\ UpTo(t, h)
  BY NewTokenParts
<1>3. f \in OpenFence /\ f.seq = -1 /\ f.held = <<>> /\ f.kept = <<>> /\ ~f.covered
      /\ f.mode # "none"
  BY EmptySound DEF OpenFence
<1> HIDE DEF t, f, r
<1>4. /\ r \in View /\ r.fence = f /\ r.joined /\ r.repair = t.repair
      /\ r.acks = t.acks /\ r.applying = t.applying /\ r.seen = v.seen
  BY <1>1, <1>2, <1>3 DEF View
<1>5. Fenced(r) /\ r.fence.seq = -1
  BY <1>3, <1>4 DEF Fenced
<1>6. Sound(r, h)
  <2>1. FenceSound(f, h)
    BY <1>3, EmptySound, SnapshotParts DEF FenceSound, Marked
  <2>2. Repairing(r) => RepairSound(r.repair, h)
    BY <1>2, <1>4 DEF Sound, Repairing
  <2> QED  BY <1>4, <2>1, <2>2 DEF Sound
<1>7. Tokens(r)
  BY <1>2, <1>4, <1>5 DEF Tokens
<1>8. Shown(r, h)
  BY <1>5 DEF Shown
<1>9. UpTo(r, h)
  BY <1>2, <1>4 DEF UpTo
<1> QED  BY <1>2, <1>4, <1>5, <1>6, <1>7, <1>8, <1>9 DEF Kept, r

-----------------------------------------------------------------------------
\* A repair without its patch, and what was held for it, ends.
LEMMA BareParts ==
    ASSUME NEW v \in View
    PROVE  LET b == [v EXCEPT !.repair = NoRepair]
           IN  /\ b \in View /\ ~Repairing(b)
               /\ b.joined = v.joined /\ b.told = v.told /\ b.fence = v.fence
               /\ b.seen = v.seen /\ b.applying = v.applying /\ b.acks = v.acks
               /\ b.evidence = v.evidence
<1> DEFINE b == [v EXCEPT !.repair = NoRepair]
<1>1. /\ b \in View
      /\ b.repair = NoRepair
      /\ b.joined = v.joined /\ b.told = v.told /\ b.fence = v.fence
      /\ b.seen = v.seen /\ b.applying = v.applying /\ b.acks = v.acks
      /\ b.evidence = v.evidence
  BY DEF View
<1>2. ~Repairing(b)
  BY <1>1 DEF Repairing, NoRepair
<1> QED  BY <1>1, <1>2

LEMMA RecoverFits ==
    ASSUME NEW h \in Headless, NEW v \in View, v.joined,
           Fenced(v) => FenceSound(v.fence, h),
           NEW chunks \in Seq(Chunk), NoneNewer(chunks, h.seq),
           chunks # <<>> => ~Snapshot(h).blank
    PROVE  LET r == Recover(v, Snapshot(h), chunks)
           IN  /\ Kept(r, h) /\ Shown(r, h)
               /\ \/ r.applying = Nothing /\ r.told /\ ~Fenced(r) /\ ~Repairing(r)
                  \/ Fenced(r) /\ r.applying.what = "snapshot" /\ r.seen = v.seen
<1> DEFINE b == [v EXCEPT !.repair = NoRepair]
           s == SnapshotReplay(b, Snapshot(h), chunks, TRUE)
           t == TellToReconnect(v)
           r == Recover(v, Snapshot(h), chunks)
<1>1. b \in View /\ b.joined /\ b.fence = v.fence /\ b.seen = v.seen /\ ~Repairing(b)
  BY BareParts
<1>2. r = s \/ r = t
  BY DEF Recover
<1> HIDE DEF b
<1>3. Sound(b, h)
  BY <1>1 DEF Sound, Fenced
<1>4. Kept(s, h) /\ Shown(s, h) /\ Fenced(s) /\ s.applying.what = "snapshot" /\ s.seen = v.seen
  BY <1>1, <1>3, ReplayFits
<1>5. Kept(t, h) /\ Shown(t, h) /\ t.applying = Nothing /\ t.told /\ ~Fenced(t) /\ ~Repairing(t)
  BY TellFits
<1> HIDE DEF s, t, r
<1> QED  BY <1>2, <1>4, <1>5 DEF r

LEMMA RestoredFits ==
    ASSUME NEW h \in Headless, NEW v \in View, v.joined, ~Fenced(v), Sound(v, h),
           v.applying.what # "patch", UpTo(v, h)
    PROVE  LET r == RestoredView(v, Snapshot(h))
           IN  Kept(r, h) /\ Shown(r, h) /\ r.seen = v.seen
<1> DEFINE a == SnapshotReplay(v, Snapshot(h), <<>>, FALSE)
           b == FenceAhead(v)
           r == RestoredView(v, Snapshot(h))
<1>1. Kept(a, h) /\ Shown(a, h) /\ a.seen = v.seen
  BY EmptySound, ReplayFits
<1>2. Kept(b, h) /\ Shown(b, h) /\ b.seen = v.seen
  BY FenceAheadFits
<1>3. r = a \/ r = b
  BY DEF RestoredView
<1> HIDE DEF a, b, r
<1> QED  BY <1>1, <1>2, <1>3 DEF r

\* The terminal has gone on from h to g.
Later(h, g) ==
    /\ h \in Headless /\ g \in Headless
    /\ h.seq <= g.seq /\ h.shown <= g.shown
    /\ Snapshot(g).blank => Snapshot(h).blank

LEMMA NoneNewerLater ==
    ASSUME NEW chunks \in Seq(Chunk), NEW m \in Int, NEW n \in Int, NoneNewer(chunks, m), m <= n
    PROVE  NoneNewer(chunks, n)
<1> SUFFICES ASSUME NEW i \in DOMAIN chunks PROVE chunks[i].seq <= n
  BY DEF NoneNewer
<1>1. chunks[i] \in Chunk /\ chunks[i].seq <= m
  BY DEF NoneNewer
<1>2. chunks[i].seq \in Nat
  BY <1>1 DEF Chunk
<1> QED  BY <1>1, <1>2

LEMMA SoundLater ==
    ASSUME NEW h, NEW g, Later(h, g), NEW v \in View, Sound(v, h)
    PROVE  Sound(v, g)
<1>1. h.seq \in Int /\ g.seq \in Int /\ h.seq <= g.seq
      /\ (Snapshot(g).blank => Snapshot(h).blank)
  BY SnapshotParts DEF Later
<1>2. ASSUME Fenced(v) PROVE FenceSound(v.fence, g)
  <2>1. v.fence \in OpenFence /\ FenceSound(v.fence, h)
    BY <1>2, ViewParts DEF Sound
  <2>2. v.fence.held \in Seq(Chunk) /\ v.fence.kept \in Seq(Chunk) /\ v.fence.seq \in Int
    BY <2>1 DEF OpenFence
  <2>3. NoneNewer(v.fence.held, g.seq) /\ NoneNewer(v.fence.kept, g.seq)
    BY <1>1, <2>1, <2>2, NoneNewerLater DEF FenceSound
  <2> QED  BY <1>1, <2>1, <2>2, <2>3 DEF FenceSound
<1>3. ASSUME Repairing(v) PROVE RepairSound(v.repair, g)
  <2>1. v.repair \in OpenRepair /\ RepairSound(v.repair, h)
    BY <1>3, ViewParts DEF Sound
  <2>2. v.repair.held \in Seq(Chunk) /\ v.repair.seq \in Int
    BY <2>1 DEF OpenRepair
  <2>3. NoneNewer(v.repair.held, g.seq)
    BY <1>1, <2>1, <2>2, NoneNewerLater DEF RepairSound
  <2> QED  BY <1>1, <2>1, <2>2, <2>3 DEF RepairSound
<1> QED  BY <1>2, <1>3 DEF Sound

LEMMA UpToLater ==
    ASSUME NEW h, NEW g, Later(h, g), NEW v \in View, UpTo(v, h)
    PROVE  UpTo(v, g)
<1>1. h.shown \in Nat /\ g.shown \in Nat /\ h.shown <= g.shown
  BY SnapshotParts DEF Later
<1>2. ASSUME v.applying # Nothing PROVE v.applying.upto \in Nat
  BY <1>2, ViewParts DEF Image
<1> QED  BY <1>1, <1>2 DEF UpTo

\* A chunk that the terminal has shown is routed ...
Shows1(h, g, chunk) ==
    /\ Later(h, g) /\ ~Snapshot(g).blank
    /\ chunk \in Chunk /\ chunk.seq = g.seq /\ h.seq < g.seq

\* ... and it is the only one since.
Next1(h, g, chunk) == g.shown = h.shown + 1 /\ chunk.id = h.shown + 1

LEMMA AppendOld ==
    ASSUME NEW chunks \in Seq(Chunk), NEW n \in Int, NoneNewer(chunks, n),
           NEW k \in Chunk, k.seq <= n
    PROVE  Append(chunks, k) \in Seq(Chunk) /\ NoneNewer(Append(chunks, k), n)
<1> DEFINE all == Append(chunks, k)
<1>1. /\ all \in Seq(Chunk) /\ DOMAIN all = 1 .. Len(chunks) + 1
      /\ all[Len(chunks) + 1] = k
      /\ \A i \in 1 .. Len(chunks) : all[i] = chunks[i]
  OBVIOUS
<1> HIDE DEF all
<1>2. \A i \in DOMAIN all : all[i].seq <= n
  BY <1>1 DEF NoneNewer
<1> QED  BY <1>1, <1>2 DEF NoneNewer, all

\* A chunk that a fence holds.
LEMMA HoldFits ==
    ASSUME NEW h, NEW g, NEW chunk, Shows1(h, g, chunk), NEW v, Kept(v, h), Fenced(v)
    PROVE  LET r == Hold(v, chunk)
           IN  /\ Kept(r, g)
               /\ Shown(v, h) /\ Next1(h, g, chunk) => Shown(r, g)
               /\ r.applying = Nothing \/ (r.applying = v.applying /\ r.seen = v.seen)
<1> DEFINE held == Append(v.fence.held, chunk)
           f == [v.fence EXCEPT !.held = held]
           r == Hold(v, chunk)
<1>1. /\ h \in Headless /\ g \in Headless
      /\ h.seq \in Nat /\ g.seq \in Nat /\ h.shown \in Nat /\ g.shown \in Nat
      /\ h.seq < g.seq /\ chunk.seq = g.seq /\ chunk \in Chunk
      /\ ~Snapshot(g).blank
  BY SnapshotParts DEF Shows1, Later
<1>2. /\ v \in View /\ Sound(v, h) /\ Tokens(v) /\ Sound(v, g) /\ UpTo(v, g)
      /\ v.fence \in OpenFence /\ v.joined
  <2>1. v \in View /\ Sound(v, h) /\ Tokens(v) /\ v.fence \in OpenFence
    BY ViewParts DEF Kept
  <2>2. v.joined
    BY <2>1, AwayFits DEF Tokens
  <2> QED  BY <2>1, <2>2, SoundLater, UpToLater DEF Shows1, Kept
<1>3. v.fence.seq \in Int /\ v.fence.held \in Seq(Chunk) /\ ~(chunk.seq <= v.fence.seq)
  BY <1>1, <1>2 DEF OpenFence, Sound, FenceSound
<1>4. r = TellToReconnect(v) \/ r = [v EXCEPT !.fence.held = Append(@, chunk)]
  BY <1>3 DEF Hold
<1>5. CASE r = TellToReconnect(v)
  <2>1. Kept(r, g) /\ Shown(r, g) /\ r.applying = Nothing
    BY <1>2, <1>5, TellFits
  <2> QED  BY <2>1
<1>6. CASE r = [v EXCEPT !.fence.held = Append(@, chunk)]
  <2>1. held \in Seq(Chunk) /\ NoneNewer(held, g.seq)
    BY <1>1, <1>2, <1>3, AppendOld DEF Sound, FenceSound
  <2>2. r = [v EXCEPT !.fence = f]
    BY <1>2, <1>6 DEF View
  <2> HIDE DEF held
  <2>3. /\ f \in OpenFence
        /\ f.seq = v.fence.seq /\ f.held = held /\ f.kept = v.fence.kept
        /\ f.mode = v.fence.mode
    BY <1>2, <2>1 DEF OpenFence
  <2> HIDE DEF f, r
  <2>4. /\ r \in View /\ r.fence = f
        /\ r.joined = v.joined /\ r.told = v.told /\ r.repair = v.repair
        /\ r.seen = v.seen /\ r.applying = v.applying /\ r.acks = v.acks
    BY <1>2, <2>2, <2>3 DEF View
  <2>5. Fenced(r) /\ (Repairing(r) <=> Repairing(v))
    BY <2>3, <2>4 DEF Fenced, Repairing
  <2>6. Sound(r, g)
    <3>1. FenceSound(f, g)
      BY <1>1, <1>2, <2>1, <2>3 DEF Sound, FenceSound
    <3> QED  BY <1>2, <2>4, <2>5, <3>1 DEF Sound
  <2>7. Tokens(r)
    BY <1>2, <2>3, <2>4, <2>5 DEF Tokens
  <2>8. ASSUME Shown(v, h), Next1(h, g, chunk) PROVE Shown(r, g)
    <3> SUFFICES ASSUME r.joined, ~r.told, r.fence.seq # -1
                 PROVE  /\ r.applying.what # "snapshot" => r.seen = First(Len(r.seen))
                        /\ Follows(r.fence.held, Base(r), g.shown)
      BY <2>5 DEF Shown
    <3>1. /\ v.applying.what # "snapshot" => v.seen = First(Len(v.seen))
          /\ Follows(v.fence.held, Base(v), h.shown)
      BY <2>3, <2>4, <2>8 DEF Shown
    <3>2. Base(r) = Base(v) /\ Base(v) \in Nat
      BY <1>2, <2>4, ViewParts DEF Base, View, Image
    <3>3. Follows(held, Base(v), h.shown + 1)
      BY <1>1, <1>3, <2>8, <3>1, <3>2, FollowsAppend DEF held, Next1
    <3> QED  BY <2>3, <2>4, <2>8, <3>1, <3>2, <3>3 DEF Next1
  <2>9. UpTo(r, g)
    BY <1>2, <2>4 DEF UpTo
  <2> QED  BY <2>4, <2>5, <2>6, <2>7, <2>8, <2>9 DEF Kept, r
<1> QED  BY <1>4, <1>5, <1>6

LEMMA SendParts ==
    ASSUME NEW v \in View, NEW chunks \in Seq(Chunk)
    PROVE  LET r == Send(v, chunks)
           IN  /\ r \in View
               /\ r.joined = v.joined /\ r.told = v.told /\ r.fence = v.fence
               /\ r.repair = v.repair /\ r.applying = v.applying /\ r.acks = v.acks
               /\ r.evidence = v.evidence
               /\ r.seen = IF v.told THEN v.seen ELSE v.seen \o Ids(chunks)
<1> DEFINE shows == v.seen \o Ids(chunks)
           r == Send(v, chunks)
<1>1. shows \in Seq(Nat)
  BY IdsAreSeq, ConcatProperties DEF View
<1>2. r = IF v.told THEN v ELSE [v EXCEPT !.seen = shows]
  BY DEF Send, View
<1> HIDE DEF shows, r
<1>3. [v EXCEPT !.seen = shows] \in View
  BY <1>1 DEF View
<1> QED  BY <1>2, <1>3 DEF View, r, shows

LEMMA OneChunk ==
    ASSUME NEW chunk \in Chunk
    PROVE  /\ <<chunk>> \in Seq(Chunk)
           /\ \A n \in Nat : chunk.id = n + 1 => Follows(<<chunk>>, n, n + 1)
<1>1. <<chunk>> = Append(<<>>, chunk) /\ <<>> \in Seq(Chunk) /\ <<chunk>> \in Seq(Chunk)
  OBVIOUS
<1>2. ASSUME NEW n \in Nat, chunk.id = n + 1 PROVE Follows(Append(<<>>, chunk), n, n + 1)
  BY <1>1, <1>2, FollowsEmpty, FollowsAppend
<1> QED  BY <1>1, <1>2

\* One chunk routed to one viewer.
LEMMA RoutedFits ==
    ASSUME NEW h, NEW g, NEW chunk, Shows1(h, g, chunk), NEW v, Kept(v, h)
    PROVE  LET r == Routed(v, chunk, Snapshot(g))
           IN  /\ Kept(r, g)
               /\ Shown(v, h) /\ Next1(h, g, chunk) => Shown(r, g)
               /\ r.applying.what = "patch" => v.repair.stage = "sent"
               /\ Quiet(v, r)
<1> DEFINE r == Routed(v, chunk, Snapshot(g))
<1>1. /\ h \in Headless /\ g \in Headless
      /\ h.seq \in Nat /\ g.seq \in Nat /\ h.shown \in Nat /\ g.shown \in Nat
      /\ h.seq < g.seq /\ chunk.seq = g.seq /\ chunk \in Chunk
      /\ ~Snapshot(g).blank
  BY SnapshotParts DEF Shows1, Later
<1>2. v \in View /\ Sound(v, h) /\ Tokens(v) /\ Sound(v, g) /\ UpTo(v, g) /\ Kept(v, g)
  BY SoundLater, UpToLater DEF Shows1, Kept
<1>3. CASE ~v.joined
  BY <1>2, <1>3 DEF Routed, Shown, Tokens, Quiet
<1>4. CASE v.joined /\ Fenced(v)
  <2>1. r = Hold(v, chunk)
    BY <1>4 DEF Routed
  <2>2. /\ Kept(r, g)
        /\ Shown(v, h) /\ Next1(h, g, chunk) => Shown(r, g)
        /\ r.applying = Nothing \/ (r.applying = v.applying /\ r.seen = v.seen)
    BY <1>4, <2>1, HoldFits
  <2>3. r.applying.what # "patch" /\ Quiet(v, r)
    BY <1>2, <1>4, <2>2 DEF Tokens, Nothing, Quiet
  <2> QED  BY <2>2, <2>3
<1>5. CASE v.joined /\ ~Fenced(v) /\ ~Repairing(v)
  <2>1. r = Send(v, <<chunk>>) /\ <<chunk>> \in Seq(Chunk)
    BY <1>1, <1>5, OneChunk DEF Routed
  <2> HIDE DEF r
  <2>2. /\ r \in View
        /\ r.joined = v.joined /\ r.told = v.told /\ r.fence = v.fence
        /\ r.repair = v.repair /\ r.applying = v.applying /\ r.acks = v.acks
        /\ r.seen = IF v.told THEN v.seen ELSE v.seen \o Ids(<<chunk>>)
    BY <1>2, <2>1, SendParts
  <2>3. ~Fenced(r) /\ ~Repairing(r)
    BY <1>5, <2>2 DEF Fenced, Repairing
  <2>4. Sound(r, g) /\ Tokens(r)
    BY <1>2, <1>5, <2>2, <2>3 DEF Sound, Tokens
  <2>5. r.applying.what # "patch"
    BY <1>2, <1>5, <2>2, ViewParts DEF Tokens, NoRepair
  <2>6. ASSUME Shown(v, h), Next1(h, g, chunk) PROVE Shown(r, g)
    <3> SUFFICES ASSUME ~r.told PROVE r.seen = First(g.shown)
      BY <2>3, <2>5 DEF Shown
    <3>1. v.seen = First(h.shown)
      BY <1>5, <2>2, <2>6 DEF Shown
    <3>2. Follows(<<chunk>>, h.shown, h.shown + 1)
      BY <1>1, <2>6, OneChunk DEF Next1
    <3>3. First(h.shown) \o Ids(<<chunk>>) = First(h.shown + 1)
      <4>1. h.shown + 1 \in Nat
        BY <1>1
      <4> QED  BY <1>1, <2>1, <3>2, <4>1, FirstFollowed
    <3> QED  BY <2>2, <2>6, <3>1, <3>3 DEF Next1
  <2>7. UpTo(r, g) /\ Quiet(v, r)
    BY <1>2, <1>5, <2>2 DEF UpTo, Quiet, Tokens
  <2> QED  BY <2>2, <2>4, <2>5, <2>6, <2>7 DEF Kept, r
<1>6. CASE v.joined /\ ~Fenced(v) /\ Repairing(v)
  <2>1. /\ v.repair \in OpenRepair
        /\ v.repair.held \in Seq(Chunk) /\ v.repair.seq \in Nat /\ v.repair.seq <= h.seq
        /\ NoneNewer(v.repair.held, g.seq)
    BY <1>2, <1>6, ViewParts DEF OpenRepair, Sound, RepairSound
  <2> DEFINE held == Append(v.repair.held, chunk)
             p == [v.repair EXCEPT !.held = held]
  <2>2. held \in Seq(Chunk) /\ NoneNewer(held, g.seq)
    BY <1>1, <2>1, AppendOld
  <2>3. r = Recover(v, Snapshot(g), held) \/ r = [v EXCEPT !.repair.held = Append(@, chunk)]
    BY <1>6 DEF Routed
  <2>4. CASE r = Recover(v, Snapshot(g), held)
    <3> HIDE DEF held, r
    <3>1. /\ Kept(r, g) /\ Shown(r, g)
          /\ \/ r.applying = Nothing
             \/ r.applying.what = "snapshot" /\ r.seen = v.seen
      BY <1>1, <1>2, <1>6, <2>2, <2>4, RecoverFits
    <3>2. r.applying.what # "patch" /\ Quiet(v, r)
      BY <3>1 DEF Nothing, Quiet
    <3> QED  BY <3>1, <3>2 DEF r
  <2>5. CASE r = [v EXCEPT !.repair.held = Append(@, chunk)]
    <3>1. r = [v EXCEPT !.repair = p]
      BY <1>2, <2>5 DEF View
    <3>2. chunk.seq > v.repair.seq
      BY <1>1, <2>1
    <3>3. Newer(held, v.repair.seq) = Append(Newer(v.repair.held, v.repair.seq), chunk)
          /\ Newer(v.repair.held, v.repair.seq) \in Seq(Chunk)
      <4>1. v.repair.seq \in Int
        BY <2>1
      <4> QED  BY <1>1, <2>1, <3>2, <4>1, NewerAppend
    <3>4. held # <<>>
      BY <2>1
    <3> HIDE DEF held
    <3>5. /\ p \in OpenRepair
          /\ p.stage = v.repair.stage /\ p.seq = v.repair.seq /\ p.held = held
      BY <2>1, <2>2 DEF OpenRepair
    <3> HIDE DEF p, r
    <3>6. /\ r \in View /\ r.repair = p
          /\ r.joined = v.joined /\ r.told = v.told /\ r.fence = v.fence
          /\ r.seen = v.seen /\ r.applying = v.applying /\ r.acks = v.acks
      BY <1>2, <3>1, <3>5 DEF View
    <3>7. ~Fenced(r) /\ Repairing(r)
      BY <1>6, <3>5, <3>6 DEF Fenced, Repairing
    <3>8. Sound(r, g)
      BY <1>1, <2>1, <2>2, <3>5, <3>6, <3>7 DEF Sound, RepairSound
    <3>9. Tokens(r)
      BY <1>2, <1>6, <3>5, <3>6, <3>7 DEF Tokens
    <3>10. r.applying.what = "patch" => v.repair.stage = "sent"
      BY <1>2, <3>6 DEF Tokens
    <3>11. ASSUME Shown(v, h), Next1(h, g, chunk) PROVE Shown(r, g)
      <4> SUFFICES ASSUME ~r.told, r.applying.what = "patch"
                   PROVE  Follows(Newer(r.repair.held, r.repair.seq), r.applying.upto, g.shown)
        BY <3>7 DEF Shown
      <4>1. Follows(Newer(v.repair.held, v.repair.seq), v.applying.upto, h.shown)
        BY <1>6, <3>6, <3>11 DEF Shown
      <4>2. v.applying.upto \in Nat
        BY <1>2, <3>6, ViewParts DEF Image, Nothing
      <4>3. Follows(Newer(held, v.repair.seq), v.applying.upto, h.shown + 1)
        BY <1>1, <3>3, <3>11, <4>1, <4>2, FollowsAppend DEF Next1
      <4> QED  BY <3>5, <3>6, <3>11, <4>3 DEF Next1
    <3>12. UpTo(r, g) /\ Quiet(v, r)
      BY <1>2, <3>6 DEF UpTo, Quiet
    <3> QED  BY <3>6, <3>8, <3>9, <3>10, <3>11, <3>12 DEF Kept, r
  <2> QED  BY <2>3, <2>4, <2>5
<1> QED  BY <1>3, <1>4, <1>5, <1>6

\* What is left of the fence when a new snapshot goes through it.
LEMMA RefreshedFenceParts ==
    ASSUME NEW g \in Headless, NEW f \in OpenFence, FenceSound(f, g)
    PROVE  LET n == RefreshedFence(f, Snapshot(g))
           IN  /\ n \in OpenFence /\ n.seq = g.seq /\ n.held = <<>>
               /\ FenceSound(n, g)
               /\ f.covered => StillCovers(f, Snapshot(g))
<1>1. /\ f.held \in Seq(Chunk) /\ f.kept \in Seq(Chunk) /\ f.covered \in BOOLEAN
      /\ NoneNewer(f.held, g.seq) /\ NoneNewer(f.kept, g.seq)
      /\ g.seq \in Nat /\ g.seq \in Int
      /\ Snapshot(g).seq = g.seq
      /\ Mode(Snapshot(g)) \in {"authoritative", "fallback"}
  BY SnapshotParts DEF OpenFence, FenceSound
<1>2. ASSUME NEW s \in Seq(Chunk), s # <<>>, NoneNewer(s, g.seq)
      PROVE  Snapshot(g).seq >= MaxSeq(s)
  <2>1. Len(s) \in DOMAIN s
    BY <1>2
  <2>2. s[Len(s)] \in Chunk /\ s[Len(s)].seq <= g.seq
    BY <1>2, <2>1 DEF NoneNewer
  <2> QED  BY <1>1, <2>2 DEF MaxSeq, Chunk
<1>3. f.held # <<>> => CoversHeld(f, Snapshot(g))
  BY <1>1, <1>2 DEF CoversHeld, FenceSound, Marked
<1>4. f.covered => StillCovers(f, Snapshot(g))
  BY <1>1, <1>2 DEF StillCovers, FenceSound, Marked
<1> DEFINE kept == f.kept \o f.held
           m == IF CoversHeld(f, Snapshot(g))
                THEN [f EXCEPT !.kept = kept, !.held = <<>>, !.covered = TRUE] ELSE f
           n == RefreshedFence(f, Snapshot(g))
<1>5. kept \in Seq(Chunk) /\ NoneNewer(kept, g.seq) /\ <<>> \in Seq(Chunk)
      /\ NoneNewer(<<>>, g.seq)
  BY <1>1, ConcatSound, EmptySound
<1>6. n = [m EXCEPT !.mode = Mode(Snapshot(g)), !.seq = g.seq]
  BY <1>1 DEF RefreshedFence, OpenFence
<1> HIDE DEF kept, n
<1>7. /\ m \in OpenFence /\ m.held = <<>> /\ NoneNewer(m.kept, g.seq)
      /\ Marked(m) => Marked(f)
  <2>1. CASE CoversHeld(f, Snapshot(g))
    <3>1. f.held # <<>>
      BY <2>1 DEF CoversHeld
    <3> QED  BY <1>5, <2>1, <3>1 DEF OpenFence, Marked
  <2>2. CASE ~CoversHeld(f, Snapshot(g))
    BY <1>1, <1>3, <2>2
  <2> QED  BY <2>1, <2>2
<1> HIDE DEF m
<1>8. /\ n \in OpenFence /\ n.seq = g.seq /\ n.held = m.held /\ n.kept = m.kept
      /\ n.covered = m.covered
  BY <1>1, <1>6, <1>7 DEF OpenFence
<1>9. FenceSound(n, g)
  <2>1. n.seq <= g.seq /\ NoneNewer(n.held, g.seq) /\ NoneNewer(n.kept, g.seq)
    BY <1>1, <1>5, <1>7, <1>8
  <2>2. Marked(n) => Marked(m)
    BY <1>8 DEF Marked
  <2> QED  BY <1>7, <2>1, <2>2 DEF FenceSound
<1> QED  BY <1>4, <1>7, <1>8, <1>9 DEF n

\* A refresh of one viewer.
LEMMA RefreshedFits ==
    ASSUME NEW g \in Headless, NEW v, Kept(v, g), NEW start \in BOOLEAN,
           ~Fenced(v) /\ (Repairing(v) \/ ~start) => (~FailsInRepair => Shown(v, g))
    PROVE  /\ Fit(Refreshed(v, Snapshot(g), start), g)
           /\ \/ Refreshed(v, Snapshot(g), start) = v
              \/ /\ Refreshed(v, Snapshot(g), start).seen = v.seen
                 /\ Refreshed(v, Snapshot(g), start).applying.what = "snapshot"
                 /\ Refreshed(v, Snapshot(g), start).applying.upto = g.shown
<1> DEFINE r == Refreshed(v, Snapshot(g), start)
<1>1. v \in View /\ Sound(v, g) /\ Tokens(v)
  BY DEF Kept
<1>2. CASE ~v.joined
  BY <1>2 DEF Refreshed, Fit, Shown
<1>3. CASE v.joined /\ ~Fenced(v) /\ (Repairing(v) \/ ~start)
  BY <1>3 DEF Refreshed, Fit
<1>4. CASE v.joined /\ ~Fenced(v) /\ ~Repairing(v) /\ start
  <2>1. r = SnapshotReplay(v, Snapshot(g), <<>>, FALSE)
    BY <1>4 DEF Refreshed
  <2> HIDE DEF r
  <2>2. /\ Kept(r, g) /\ Shown(r, g)
        /\ r.seen = v.seen /\ r.applying.what = "snapshot" /\ r.applying.upto = g.shown
    BY <1>1, <1>4, <2>1, EmptySound, ReplayFits
  <2> QED  BY <2>2 DEF Fit, r
<1>5. CASE v.joined /\ Fenced(v)
  <2> DEFINE s == SendSnapshot(v, Snapshot(g))
             f == RefreshedFence(v.fence, Snapshot(g))
  <2>1. v.fence \in OpenFence /\ FenceSound(v.fence, g)
    BY <1>1, <1>5, ViewParts DEF Sound
  <2>2. /\ f \in OpenFence /\ f.seq = g.seq /\ f.held = <<>> /\ FenceSound(f, g)
        /\ v.fence.covered => StillCovers(v.fence, Snapshot(g))
    BY <2>1, RefreshedFenceParts
  <2>3. r = [s EXCEPT !.fence = f]
    BY <1>5, <2>2 DEF Refreshed
  <2>4. /\ s \in View
        /\ s.joined /\ s.told = v.told /\ s.repair = v.repair /\ s.seen = v.seen
        /\ "current" \notin s.acks
        /\ s.applying.what = "snapshot" /\ s.applying.upto = g.shown /\ s.applying.current
    BY <1>1, <1>5, SendSnapshotParts
  <2> HIDE DEF s, f, r
  <2>5. /\ r \in View /\ r.fence = f /\ r.joined /\ r.repair = v.repair /\ r.seen = v.seen
        /\ r.acks = s.acks /\ r.applying = s.applying
    BY <2>2, <2>3, <2>4 DEF View
  <2>6. Fenced(r) /\ r.fence.seq # -1
    <3>1. f.mode # "none" /\ f.seq \in Nat
      BY <2>2, SnapshotParts DEF OpenFence
    <3> QED  BY <2>5, <3>1 DEF Fenced
  <2>7. Sound(r, g)
    BY <1>1, <2>2, <2>5 DEF Sound, Repairing
  <2>8. Tokens(r)
    BY <2>4, <2>5, <2>6 DEF Tokens
  <2>9. Shown(r, g)
    BY <2>2, <2>4, <2>5, <2>6, SnapshotParts, FollowsEmpty DEF Shown, Base
  <2>10. UpTo(r, g)
    BY <2>4, <2>5, SnapshotParts DEF UpTo
  <2> QED  BY <2>4, <2>5, <2>7, <2>8, <2>9, <2>10 DEF Fit, Kept, r
<1> QED  BY <1>2, <1>3, <1>4, <1>5

-----------------------------------------------------------------------------
\* What a step may do to a viewer.
Good(v, r, g) == Fit(r, g) /\ Quiet(v, r)

LEMMA TerminalOnlyFits ==
    ASSUME NEW h, NEW g, Later(h, g), g.shown = h.shown, NEW v, Fit(v, h)
    PROVE  Good(v, v, g)
<1>1. v \in View /\ Sound(v, h) /\ Tokens(v) /\ UpTo(v, h) /\ (~FailsInRepair => Shown(v, h))
  BY DEF Fit, Kept
<1>2. Sound(v, g) /\ UpTo(v, g)
  BY <1>1, SoundLater, UpToLater
<1>3. ~FailsInRepair => Shown(v, g)
  BY <1>1 DEF Shown
<1> QED  BY <1>1, <1>2, <1>3 DEF Good, Fit, Kept, Quiet

LEMMA RouteFits ==
    ASSUME NEW h, NEW g, NEW chunk, Shows1(h, g, chunk), Next1(h, g, chunk), NEW v, Fit(v, h)
    PROVE  Good(v, Routed(v, chunk, Snapshot(g)), g)
<1> DEFINE r == Routed(v, chunk, Snapshot(g))
<1>1. Kept(v, h) /\ (~FailsInRepair => Shown(v, h))
  BY DEF Fit
<1>2. Kept(r, g) /\ (Shown(v, h) => Shown(r, g)) /\ Quiet(v, r)
  BY <1>1, RoutedFits
<1> HIDE DEF r
<1> QED  BY <1>1, <1>2 DEF Good, Fit, r

LEMMA RefreshFits ==
    ASSUME NEW h \in Headless, NEW v, Fit(v, h), NEW start \in BOOLEAN
    PROVE  Good(v, Refreshed(v, Snapshot(h), start), h)
<1> DEFINE r == Refreshed(v, Snapshot(h), start)
<1>1. Kept(v, h) /\ (~FailsInRepair => Shown(v, h))
  BY DEF Fit
<1>2. Fit(r, h) /\ (r = v \/ r.seen = v.seen)
  BY <1>1, RefreshedFits
<1> HIDE DEF r
<1> QED  BY <1>2 DEF Good, Quiet, r

LEMMA FailAndRouteFits ==
    ASSUME NEW h, NEW g, NEW chunk, Shows1(h, g, chunk), h.shown < g.shown,
           NEW v, Fit(v, h), FailsInRepair \/ v.repair.stage # "sent"
    PROVE  Good(v, Refreshed(Routed(v, chunk, Snapshot(g)), Snapshot(g), TRUE), g)
<1> DEFINE m == Routed(v, chunk, Snapshot(g))
           r == Refreshed(m, Snapshot(g), TRUE)
<1>1. Kept(v, h) /\ v \in View /\ UpTo(v, h) /\ h \in Headless /\ g \in Headless
  BY DEF Fit, Kept, Shows1, Later
<1>2. Kept(m, g) /\ Quiet(v, m) /\ (m.applying.what = "patch" => v.repair.stage = "sent")
  BY <1>1, RoutedFits
<1> HIDE DEF m
<1>3. ~Fenced(m) /\ (Repairing(m) \/ ~TRUE) => (~FailsInRepair => Shown(m, g))
  BY <1>2 DEF Shown
<1>4. /\ Fit(r, g)
      /\ r = m \/ (r.seen = m.seen /\ r.applying.what = "snapshot" /\ r.applying.upto = g.shown)
  BY <1>1, <1>2, <1>3, RefreshedFits
<1> HIDE DEF r
<1>5. ASSUME v.applying.what = "snapshot" PROVE v.applying.upto # g.shown
  <2>1. v.applying # Nothing /\ v.applying.upto <= h.shown
    BY <1>1, <1>5 DEF UpTo, Nothing
  <2>2. v.applying \in Image
    BY <1>1, <2>1, ViewParts
  <2>3. v.applying.upto \in Nat
    BY <2>2 DEF Image
  <2> QED  BY <1>1, <2>1, <2>3, SnapshotParts
<1>6. Quiet(v, r)
  BY <1>2, <1>4, <1>5 DEF Quiet
<1> QED  BY <1>4, <1>6 DEF Good, r, m

-----------------------------------------------------------------------------
LEMMA FitParts ==
    ASSUME NEW h, NEW v, Fit(v, h)
    PROVE  /\ v \in View /\ Sound(v, h) /\ Tokens(v) /\ UpTo(v, h)
           /\ ~FailsInRepair => Shown(v, h)
           /\ Fenced(v) \/ Repairing(v) \/ v.evidence \/ v.applying # Nothing => v.joined
<1>1. /\ v \in View /\ Sound(v, h) /\ Tokens(v) /\ UpTo(v, h)
      /\ ~FailsInRepair => Shown(v, h)
  BY DEF Fit, Kept
<1>2. Away.evidence = FALSE
  BY DEF Away
<1> QED  BY <1>1, <1>2, AwayFits DEF Tokens

LEMMA AwayGood ==
    ASSUME NEW h, NEW v
    PROVE  Good(v, Away, h)
<1>1. Kept(Away, h) /\ Shown(Away, h) /\ Away.applying = Nothing /\ Nothing.what = "none"
  BY AwayFits DEF Nothing
<1> QED  BY <1>1 DEF Good, Fit, Quiet

LEMMA TellGood ==
    ASSUME NEW h, NEW v \in View, v.joined
    PROVE  Good(v, TellToReconnect(v), h)
<1> DEFINE r == TellToReconnect(v)
<1>1. Kept(r, h) /\ Shown(r, h) /\ r.applying = Nothing /\ Nothing.what = "none"
  BY TellFits DEF Nothing
<1> HIDE DEF r
<1> QED  BY <1>1 DEF Good, Fit, Quiet, r

LEMMA JoinFits ==
    ASSUME NEW h \in Headless, NEW v, Fit(v, h), ~v.joined
    PROVE  Good(v, RestoredView([Away EXCEPT !.joined = TRUE], Snapshot(h)), h)
<1> DEFINE a == [Away EXCEPT !.joined = TRUE]
           r == RestoredView(a, Snapshot(h))
<1>1. /\ a.joined /\ a.fence = Away.fence /\ a.repair = Away.repair
      /\ a.applying = Away.applying
  BY DEF Away
<1>2. a \in View
  BY AwayFits DEF View
<1>3. ~Fenced(Away) /\ ~Repairing(Away) /\ Away.applying = Nothing /\ Nothing.what = "none"
  BY AwayFits DEF Nothing
<1> HIDE DEF a
<1>4. ~Fenced(a) /\ Sound(a, h) /\ a.applying.what # "patch" /\ UpTo(a, h)
  BY <1>1, <1>3 DEF Sound, Fenced, Repairing, UpTo
<1>5. Kept(r, h) /\ Shown(r, h)
  BY <1>1, <1>2, <1>4, RestoredFits
<1>6. v = Away
  BY FitParts DEF Tokens
<1> HIDE DEF r
<1> QED  BY <1>3, <1>5, <1>6 DEF Good, Fit, Quiet, r, a

LEMMA RestoreAgainFits ==
    ASSUME NEW h \in Headless, NEW v, Fit(v, h), v.joined
    PROVE  Good(v, SnapshotReplay(v, Snapshot(h), <<>>, FALSE), h)
<1> DEFINE r == SnapshotReplay(v, Snapshot(h), <<>>, FALSE)
<1>1. Kept(r, h) /\ Shown(r, h) /\ r.seen = v.seen
  BY EmptySound, FitParts, ReplayFits
<1> HIDE DEF r
<1> QED  BY <1>1 DEF Good, Fit, Quiet, r

LEMMA ApplyFits ==
    ASSUME NEW h \in Headless, NEW v, Fit(v, h), v.applying.what = "snapshot"
    PROVE  Good(v, [v EXCEPT !.seen = First(v.applying.upto),
                             !.acks = @ \cup {IF v.applying.current THEN "current" ELSE "stale"},
                             !.applying = Nothing], h)
<1> DEFINE shows == First(v.applying.upto)
           acks == v.acks \cup {IF v.applying.current THEN "current" ELSE "stale"}
           r == [v EXCEPT !.seen = shows, !.acks = acks, !.applying = Nothing]
<1>1. /\ v \in View /\ Sound(v, h) /\ Tokens(v) /\ (~FailsInRepair => Shown(v, h))
      /\ v.joined /\ v.applying # Nothing
  BY FitParts DEF Nothing
<1>2. v.applying.upto \in Nat
  BY <1>1, ViewParts DEF Image
<1>3. shows \in Seq(Nat) /\ Len(shows) = v.applying.upto
  BY <1>2, FirstIsSeq
<1>4. acks \in SUBSET {"current", "stale"}
  BY <1>1 DEF View
<1>5. ~v.applying.current /\ "current" \notin v.acks => "current" \notin acks
  OBVIOUS
<1> HIDE DEF acks, r
<1>6. shows = First(Len(shows))
  BY <1>3
<1> HIDE DEF shows
<1>7. /\ r \in View
      /\ r.joined /\ r.told = v.told /\ r.fence = v.fence /\ r.repair = v.repair
      /\ r.seen = shows /\ r.acks = acks /\ r.applying = Nothing
  BY <1>1, <1>3, <1>4 DEF View, r
<1>8. r.applying.what = "none" /\ (Fenced(r) <=> Fenced(v)) /\ (Repairing(r) <=> Repairing(v))
  BY <1>7 DEF Nothing, Fenced, Repairing
<1>9. Sound(r, h) /\ UpTo(r, h)
  BY <1>1, <1>7, <1>8 DEF Sound, UpTo
<1>10. Tokens(r)
  BY <1>1, <1>5, <1>7, <1>8 DEF Tokens
<1>11. ~FailsInRepair => Shown(r, h)
  <2> SUFFICES ASSUME ~FailsInRepair, ~v.told
               PROVE  Fenced(v) /\ v.fence.seq # -1 => Follows(v.fence.held, Len(shows), h.shown)
    BY <1>1, <1>6, <1>7, <1>8 DEF Shown, Tokens, Base
  <2> QED  BY <1>1, <1>3 DEF Shown, Base
<1>12. Quiet(v, r)
  BY <1>7, <1>8 DEF Quiet
<1>13. r = [v EXCEPT !.seen = First(v.applying.upto),
                     !.acks = @ \cup {IF v.applying.current THEN "current" ELSE "stale"},
                     !.applying = Nothing]
  BY <1>1 DEF r, shows, acks, View
<1> QED  BY <1>7, <1>9, <1>10, <1>11, <1>12, <1>13 DEF Good, Fit, Kept

LEMMA AcknowledgeFits ==
    ASSUME NEW h \in Headless, NEW v, Fit(v, h), NEW ack \in v.acks
    PROVE  LET w == [v EXCEPT !.acks = @ \ {ack}]
           IN  Good(v, IF Matches(ack) /\ Fenced(w) THEN Released(w) ELSE w, h)
<1> DEFINE acks == v.acks \ {ack}
           w == [v EXCEPT !.acks = @ \ {ack}]
           r == Released(w)
<1>1. /\ v \in View /\ Sound(v, h) /\ Tokens(v) /\ UpTo(v, h)
      /\ ~FailsInRepair => Shown(v, h)
  BY FitParts
<1>2. acks \in SUBSET {"current", "stale"} /\ acks \subseteq v.acks
  BY <1>1 DEF View
<1>3. w = [v EXCEPT !.acks = acks]
  BY <1>1 DEF View
<1> HIDE DEF acks, w
<1>4. /\ w \in View
      /\ w.joined = v.joined /\ w.told = v.told /\ w.fence = v.fence /\ w.repair = v.repair
      /\ w.seen = v.seen /\ w.applying = v.applying /\ w.acks = acks /\ w.evidence = v.evidence
  BY <1>1, <1>2, <1>3 DEF View
<1>5. (Fenced(w) <=> Fenced(v)) /\ (Repairing(w) <=> Repairing(v))
  BY <1>4 DEF Fenced, Repairing
<1>6. Sound(w, h) /\ UpTo(w, h) /\ Quiet(v, w) /\ (Shown(v, h) => Shown(w, h))
  BY <1>1, <1>4, <1>5 DEF Sound, UpTo, Quiet, Shown, Base
<1>7. Tokens(w)
  <2>1. v.joined
    <3>1. Away.acks = {}
      BY DEF Away
    <3> QED  BY <1>1, <3>1 DEF Tokens
  <2> QED  BY <1>1, <1>2, <1>4, <1>5, <2>1 DEF Tokens
<1>8. Good(v, w, h)
  BY <1>1, <1>4, <1>6, <1>7 DEF Good, Fit, Kept
<1>9. CASE Matches(ack) /\ Fenced(w)
  <2>1. ack = "current" /\ "current" \in v.acks /\ Fenced(v)
    BY <1>5, <1>9 DEF Matches
  <2>2. v.applying = Nothing /\ v.fence.seq # -1
    BY <1>1, <2>1, ViewParts DEF Tokens
  <2>3. v.fence \in OpenFence /\ v.fence.held \in Seq(Chunk) /\ v.joined
    BY <1>1, <2>1, ViewParts, FitParts DEF OpenFence
  <2> DEFINE held == v.fence.held
             evidence == /\ ~v.fence.repaired /\ v.fence.mode = "authoritative"
                         /\ v.fence.held # <<>>
             t == Send(w, held)
  <2>13. held \in Seq(Chunk)
    BY <2>3
  <2> HIDE DEF held
  <2>4. /\ t \in View
        /\ t.joined = v.joined /\ t.told = v.told /\ t.repair = v.repair
        /\ t.applying = Nothing /\ t.acks = acks
        /\ t.seen = IF v.told THEN v.seen ELSE v.seen \o Ids(held)
    <3>1. /\ t \in View
          /\ t.joined = w.joined /\ t.told = w.told /\ t.repair = w.repair
          /\ t.applying = w.applying /\ t.acks = w.acks
          /\ t.seen = IF w.told THEN w.seen ELSE w.seen \o Ids(held)
      BY <1>4, <2>13, SendParts
    <3> HIDE DEF t
    <3> QED  BY <1>4, <2>2, <3>1
  <2>5. r = [t EXCEPT !.fence = NoFence, !.evidence = evidence]
    BY <1>4 DEF Released, held
  <2>6. evidence \in BOOLEAN
    OBVIOUS
  <2> HIDE DEF t, evidence, r
  <2>7. /\ r \in View
        /\ r.joined /\ r.told = v.told /\ r.repair = v.repair /\ r.fence = NoFence
        /\ r.applying = Nothing
        /\ r.seen = IF v.told THEN v.seen ELSE v.seen \o Ids(held)
    BY <2>3, <2>4, <2>5, <2>6 DEF View
  <2>8. ~Fenced(r) /\ (Repairing(r) <=> Repairing(v)) /\ r.applying.what = "none"
    BY <2>7 DEF Fenced, Repairing, NoFence, Nothing
  <2>9. Sound(r, h) /\ Tokens(r) /\ UpTo(r, h)
    BY <1>1, <2>7, <2>8 DEF Sound, Tokens, UpTo
  <2>10. ~FailsInRepair => Shown(r, h)
    <3> SUFFICES ASSUME ~FailsInRepair, ~v.told PROVE r.seen = First(h.shown)
      BY <2>7, <2>8 DEF Shown
    <3>1. v.seen = First(Len(v.seen)) /\ Follows(held, Len(v.seen), h.shown)
      BY <1>1, <2>1, <2>2, <2>3 DEF Shown, Base, Nothing, held
    <3>2. Len(v.seen) \in Nat /\ h.shown \in Nat
      BY <1>1, SnapshotParts DEF View
    <3>3. First(Len(v.seen)) \o Ids(held) = First(h.shown)
      BY <2>13, <3>1, <3>2, FirstFollowed
    <3> QED  BY <2>7, <3>1, <3>3
  <2>11. Quiet(v, r)
    BY <2>2 DEF Quiet, Nothing
  <2>12. Good(v, r, h)
    BY <2>7, <2>9, <2>10, <2>11 DEF Good, Fit, Kept
  <2> QED  BY <1>9, <2>12 DEF r, w
<1>10. CASE ~(Matches(ack) /\ Fenced(w))
  BY <1>8, <1>10 DEF w
<1> QED  BY <1>9, <1>10 DEF w

LEMMA ReacquireFits ==
    ASSUME NEW h \in Headless, NEW v, Fit(v, h), v.evidence
    PROVE  LET w == [v EXCEPT !.evidence = FALSE]
           IN  Good(v, w, h) /\ Good(v, SnapshotReplay(w, Snapshot(h), <<>>, FALSE), h)
<1> DEFINE w == [v EXCEPT !.evidence = FALSE]
           r == SnapshotReplay(w, Snapshot(h), <<>>, FALSE)
<1>1. /\ v \in View /\ Sound(v, h) /\ Tokens(v) /\ UpTo(v, h) /\ v.joined
      /\ ~FailsInRepair => Shown(v, h)
  BY FitParts
<1>2. /\ w \in View
      /\ w.joined = v.joined /\ w.told = v.told /\ w.fence = v.fence /\ w.repair = v.repair
      /\ w.seen = v.seen /\ w.applying = v.applying /\ w.acks = v.acks
  BY <1>1 DEF View
<1> HIDE DEF w
<1>3. (Fenced(w) <=> Fenced(v)) /\ (Repairing(w) <=> Repairing(v))
  BY <1>2 DEF Fenced, Repairing
<1>4. Sound(w, h) /\ UpTo(w, h) /\ Quiet(v, w) /\ (Shown(v, h) => Shown(w, h)) /\ Tokens(w)
  BY <1>1, <1>2, <1>3 DEF Sound, UpTo, Quiet, Shown, Base, Tokens
<1>5. Good(v, w, h)
  BY <1>1, <1>2, <1>4 DEF Good, Fit, Kept
<1>6. Kept(r, h) /\ Shown(r, h) /\ r.seen = v.seen
  BY <1>1, <1>2, <1>4, EmptySound, ReplayFits
<1> HIDE DEF r
<1>7. Good(v, r, h)
  BY <1>6 DEF Good, Fit, Quiet
<1> QED  BY <1>5, <1>7 DEF w, r

\* A viewer that no longer wants a patch.
LEMMA PatchDropped ==
    ASSUME NEW v \in View
    PROVE  LET w == [v EXCEPT !.applying = IF @.what = "patch" THEN Nothing ELSE @]
           IN  /\ w \in View
               /\ w.joined = v.joined /\ w.told = v.told /\ w.fence = v.fence
               /\ w.repair = v.repair /\ w.seen = v.seen /\ w.applying.what # "patch"
               /\ w.applying = Nothing \/ w.applying = v.applying
<1> DEFINE applying == IF v.applying.what = "patch" THEN Nothing ELSE v.applying
           w == [v EXCEPT !.applying = IF @.what = "patch" THEN Nothing ELSE @]
<1>1. w = [v EXCEPT !.applying = applying]
  BY DEF View
<1>2. applying \in Image \cup {Nothing} /\ applying.what # "patch"
      /\ (applying = Nothing \/ applying = v.applying)
  BY DEF View, Nothing
<1> HIDE DEF applying, w
<1>3. /\ w \in View
      /\ w.joined = v.joined /\ w.told = v.told /\ w.fence = v.fence
      /\ w.repair = v.repair /\ w.seen = v.seen /\ w.applying = applying
  BY <1>1, <1>2 DEF View
<1> QED  BY <1>2, <1>3 DEF w

LEMMA AskReplayFits ==
    ASSUME NEW h \in Headless, NEW v, Fit(v, h), v.joined
    PROVE  LET w == [v EXCEPT !.applying = IF @.what = "patch" THEN Nothing ELSE @]
               bare == [w EXCEPT !.fence = NoFence]
           IN  Good(v, IF Fenced(w) /\ w.fence.repaired
                       THEN Recover(bare, Snapshot(h), w.fence.kept \o w.fence.held)
                       ELSE RestoredView(bare, Snapshot(h)), h)
<1> DEFINE w == [v EXCEPT !.applying = IF @.what = "patch" THEN Nothing ELSE @]
           bare == [w EXCEPT !.fence = NoFence]
           held == w.fence.kept \o w.fence.held
           a == Recover(bare, Snapshot(h), held)
           b == RestoredView(bare, Snapshot(h))
<1>1. v \in View /\ Sound(v, h) /\ UpTo(v, h)
  BY FitParts
<1>2. /\ w \in View
      /\ w.joined /\ w.fence = v.fence /\ w.repair = v.repair /\ w.seen = v.seen
      /\ w.applying.what # "patch" /\ (w.applying = Nothing \/ w.applying = v.applying)
  BY <1>1, PatchDropped
<1> HIDE DEF w
<1>3. /\ bare \in View
      /\ bare.joined /\ bare.fence = NoFence /\ bare.repair = v.repair /\ bare.seen = v.seen
      /\ bare.applying = w.applying
  BY <1>2 DEF View
<1> HIDE DEF bare
<1>4. ~Fenced(bare) /\ (Repairing(bare) <=> Repairing(v)) /\ (Fenced(w) <=> Fenced(v))
  BY <1>2, <1>3 DEF Fenced, Repairing, NoFence
<1>5. Sound(bare, h) /\ UpTo(bare, h)
  BY <1>1, <1>2, <1>3, <1>4 DEF Sound, UpTo
<1>6. ASSUME Fenced(w) PROVE Good(v, a, h)
  <2>1. /\ v.fence \in OpenFence /\ FenceSound(v.fence, h)
        /\ v.fence.kept \in Seq(Chunk) /\ v.fence.held \in Seq(Chunk)
    <3>1. v.fence \in OpenFence /\ FenceSound(v.fence, h)
      BY <1>1, <1>4, <1>6, ViewParts DEF Sound
    <3> QED  BY <3>1 DEF OpenFence
  <2>2. h.seq \in Int
    BY SnapshotParts
  <2>3. held \in Seq(Chunk) /\ NoneNewer(held, h.seq)
    BY <1>2, <2>1, <2>2, ConcatSound DEF FenceSound
  <2>4. held # <<>> => ~Snapshot(h).blank
    <3>1. v.fence.kept = <<>> /\ v.fence.held = <<>> => held = <<>>
      BY <1>2
    <3> QED  BY <2>1, <3>1 DEF FenceSound, Marked
  <2> HIDE DEF held
  <2>5. Kept(a, h) /\ Shown(a, h) /\ (a.applying = Nothing \/ a.seen = v.seen)
    BY <1>3, <1>4, <2>3, <2>4, RecoverFits
  <2> HIDE DEF a
  <2> QED  BY <2>5 DEF Good, Fit, Quiet, Nothing
<1>7. Good(v, b, h)
  <2>1. Kept(b, h) /\ Shown(b, h) /\ b.seen = v.seen
    BY <1>2, <1>3, <1>4, <1>5, RestoredFits
  <2> HIDE DEF b
  <2> QED  BY <2>1 DEF Good, Fit, Quiet
<1> QED  BY <1>6, <1>7 DEF w, bare

LEMMA AskRepairFits ==
    ASSUME NEW h \in Headless, NEW v, Fit(v, h), v.joined, ~Fenced(v), ~Repairing(v),
           v.applying = Nothing
    PROVE  Good(v, [v EXCEPT !.repair = [stage |-> "asked", seq |-> 0, held |-> <<>>]], h)
<1> DEFINE p == [stage |-> "asked", seq |-> 0, held |-> <<>>]
           r == [v EXCEPT !.repair = p]
<1>1. v \in View /\ Tokens(v)
  BY FitParts
<1>2. p \in OpenRepair /\ p.seq = 0 /\ p.held = <<>> /\ p.stage # "none"
  BY EmptySound DEF OpenRepair
<1> HIDE DEF p, r
<1>3. /\ r \in View
      /\ r.joined /\ r.told = v.told /\ r.fence = v.fence /\ r.repair = p /\ r.seen = v.seen
      /\ r.applying = Nothing
  BY <1>1, <1>2 DEF r, View
<1>4. ~Fenced(r) /\ Repairing(r) /\ r.applying.what = "none"
  BY <1>2, <1>3 DEF Fenced, Repairing, Nothing
<1>5. RepairSound(p, h)
  BY <1>2, EmptySound, SnapshotParts DEF RepairSound
<1>6. Sound(r, h) /\ Tokens(r) /\ UpTo(r, h) /\ Shown(r, h) /\ Quiet(v, r)
  BY <1>3, <1>4, <1>5 DEF Sound, Tokens, UpTo, Shown, Quiet
<1> QED  BY <1>3, <1>6 DEF Good, Fit, Kept, r, p

LEMMA RepairDropped ==
    ASSUME NEW h \in Headless, NEW v, Fit(v, h), v.repair.stage = "asked"
    PROVE  LET bare == [v EXCEPT !.repair = NoRepair]
           IN  /\ Fenced(v) => Good(v, bare, h)
               /\ ~Fenced(v) => Good(v, FenceAhead(bare), h)
<1> DEFINE bare == [v EXCEPT !.repair = NoRepair]
           a == FenceAhead(bare)
<1>1. /\ v \in View /\ Sound(v, h) /\ Tokens(v) /\ UpTo(v, h) /\ v.joined
      /\ ~FailsInRepair => Shown(v, h)
  BY FitParts DEF Repairing
<1>2. /\ bare \in View /\ ~Repairing(bare)
      /\ bare.joined = v.joined /\ bare.told = v.told /\ bare.fence = v.fence
      /\ bare.seen = v.seen /\ bare.applying = v.applying /\ bare.acks = v.acks
  BY <1>1, BareParts
<1> HIDE DEF bare
<1>3. (Fenced(bare) <=> Fenced(v)) /\ bare.applying.what # "patch"
  BY <1>1, <1>2 DEF Fenced, Tokens
<1>4. Sound(bare, h) /\ UpTo(bare, h) /\ Tokens(bare) /\ Quiet(v, bare)
  BY <1>1, <1>2, <1>3 DEF Sound, UpTo, Tokens, Quiet
<1>5. ASSUME Fenced(v) PROVE Good(v, bare, h)
  <2>1. Shown(v, h) => Shown(bare, h)
    BY <1>2, <1>3, <1>5 DEF Shown, Base
  <2> QED  BY <1>1, <1>2, <1>4, <2>1 DEF Good, Fit, Kept
<1>6. ASSUME ~Fenced(v) PROVE Good(v, a, h)
  <2>1. Kept(a, h) /\ Shown(a, h) /\ a.seen = v.seen
    BY <1>1, <1>2, <1>3, <1>4, <1>6, FenceAheadFits
  <2> HIDE DEF a
  <2> QED  BY <2>1 DEF Good, Fit, Quiet
<1> QED  BY <1>5, <1>6 DEF bare

LEMMA PatchSentFits ==
    ASSUME NEW h \in Headless, NEW v, Fit(v, h), v.repair.stage = "asked", ~Fenced(v)
    PROVE  Good(v, [v EXCEPT !.repair.stage = "sent", !.repair.seq = h.seq,
                             !.applying = [what |-> "patch", upto |-> h.shown]], h)
<1> DEFINE p == [v.repair EXCEPT !.stage = "sent", !.seq = h.seq]
           patch == [what |-> "patch", upto |-> h.shown]
           r == [v EXCEPT !.repair.stage = "sent", !.repair.seq = h.seq, !.applying = patch]
<1>1. /\ v \in View /\ Sound(v, h) /\ v.joined /\ Repairing(v)
      /\ v.repair \in OpenRepair /\ RepairSound(v.repair, h)
  BY FitParts, ViewParts DEF Repairing, Sound
<1>2. h.seq \in Nat /\ h.seq \in Int /\ h.shown \in Nat /\ v.repair.held \in Seq(Chunk)
  BY <1>1, SnapshotParts DEF OpenRepair
<1>3. r = [v EXCEPT !.repair = p, !.applying = patch]
  BY <1>1 DEF View
<1>4. p \in OpenRepair /\ p.stage = "sent" /\ p.seq = h.seq /\ p.held = v.repair.held
  BY <1>1, <1>2 DEF OpenRepair
<1>5. patch \in Image \cup {Nothing} /\ patch.what = "patch" /\ patch.upto = h.shown
  BY <1>2 DEF Image
<1> HIDE DEF p, patch, r
<1>6. /\ r \in View
      /\ r.joined /\ r.told = v.told /\ r.fence = v.fence /\ r.repair = p /\ r.seen = v.seen
      /\ r.applying = patch
  BY <1>1, <1>3, <1>4, <1>5 DEF View
<1>7. ~Fenced(r) /\ Repairing(r)
  BY <1>4, <1>6 DEF Fenced, Repairing
<1>8. RepairSound(p, h) /\ NoneNewer(v.repair.held, h.seq)
  BY <1>1, <1>2, <1>4 DEF RepairSound
<1>9. Sound(r, h) /\ Tokens(r) /\ UpTo(r, h) /\ Quiet(v, r)
  BY <1>2, <1>4, <1>5, <1>6, <1>7, <1>8 DEF Sound, Tokens, UpTo, Quiet
<1>10. Newer(p.held, p.seq) = <<>>
  BY <1>2, <1>4, <1>8, NewerOfOld
<1>11. Shown(r, h)
  BY <1>2, <1>5, <1>6, <1>7, <1>10, FollowsEmpty DEF Shown
<1> QED  BY <1>6, <1>9, <1>11 DEF Good, Fit, Kept, r, patch

LEMMA FinishRepairFits ==
    ASSUME NEW h \in Headless, NEW v, Fit(v, h), v.repair.stage = "sent",
           v.applying.what = "patch"
    PROVE  LET w == [v EXCEPT !.seen = First(v.applying.upto),
                              !.applying = Nothing, !.repair = NoRepair]
           IN  Good(v, Send(w, Newer(v.repair.held, v.repair.seq)), h)
<1> DEFINE shows == First(v.applying.upto)
           w == [v EXCEPT !.seen = shows, !.applying = Nothing, !.repair = NoRepair]
           held == Newer(v.repair.held, v.repair.seq)
           r == Send(w, held)
<1>1. /\ v \in View /\ Tokens(v) /\ v.joined /\ ~Fenced(v)
      /\ ~FailsInRepair => Shown(v, h)
      /\ v.repair \in OpenRepair /\ v.applying \in Image
  BY FitParts, ViewParts DEF Repairing, Tokens, Nothing
<1>2. v.applying.upto \in Nat /\ h.shown \in Nat
  BY <1>1, SnapshotParts DEF Image
<1>3. v.repair.held \in Seq(Chunk) /\ v.repair.seq \in Int
  BY <1>1 DEF OpenRepair
<1>4. held \in Seq(Chunk) /\ shows \in Seq(Nat)
  BY <1>2, <1>3, NewerIsSeq, FirstIsSeq
<1> HIDE DEF shows, held
<1>5. /\ w \in View
      /\ w.joined /\ w.told = v.told /\ w.fence = v.fence /\ w.repair = NoRepair
      /\ w.seen = shows /\ w.applying = Nothing
  BY <1>1, <1>4 DEF View
<1> HIDE DEF w
<1>6. /\ r \in View
      /\ r.joined /\ r.told = v.told /\ r.fence = v.fence /\ r.repair = NoRepair
      /\ r.seen = IF v.told THEN shows ELSE shows \o Ids(held)
      /\ r.applying = Nothing
  BY <1>4, <1>5, SendParts
<1> HIDE DEF r
<1>7. ~Fenced(r) /\ ~Repairing(r) /\ r.applying.what = "none"
  BY <1>1, <1>6 DEF Fenced, Repairing, NoRepair, Nothing
<1>8. Sound(r, h) /\ Tokens(r) /\ UpTo(r, h) /\ Quiet(v, r)
  BY <1>6, <1>7 DEF Sound, Tokens, UpTo, Quiet
<1>9. ~FailsInRepair => Shown(r, h)
  <2> SUFFICES ASSUME ~FailsInRepair, ~v.told PROVE r.seen = First(h.shown)
    BY <1>6, <1>7 DEF Shown
  <2>1. Follows(held, v.applying.upto, h.shown)
    BY <1>1 DEF Shown, held
  <2>2. shows \o Ids(held) = First(h.shown)
    BY <1>2, <1>4, <2>1, FirstFollowed DEF shows
  <2> QED  BY <1>6, <2>2
<1> QED  BY <1>6, <1>8, <1>9 DEF Good, Fit, Kept, r, w, held, shows

LEMMA FailRepairFits ==
    ASSUME NEW h \in Headless, NEW v, Fit(v, h), v.repair.stage = "sent"
    PROVE  Good(v, Recover([v EXCEPT !.applying = IF @.what = "patch" THEN Nothing ELSE @],
                           Snapshot(h), v.repair.held), h)
<1> DEFINE w == [v EXCEPT !.applying = IF @.what = "patch" THEN Nothing ELSE @]
           r == Recover(w, Snapshot(h), v.repair.held)
<1>1. /\ v \in View /\ Sound(v, h) /\ v.joined /\ Repairing(v)
      /\ v.repair \in OpenRepair /\ RepairSound(v.repair, h)
  BY FitParts, ViewParts DEF Repairing, Sound
<1>2. /\ w \in View /\ w.joined /\ w.fence = v.fence /\ w.seen = v.seen
  BY <1>1, PatchDropped
<1> HIDE DEF w
<1>3. Fenced(w) => FenceSound(w.fence, h)
  BY <1>1, <1>2 DEF Sound, Fenced
<1>4. /\ v.repair.held \in Seq(Chunk) /\ NoneNewer(v.repair.held, h.seq)
      /\ v.repair.held # <<>> => ~Snapshot(h).blank
  BY <1>1 DEF OpenRepair, RepairSound
<1>5. Kept(r, h) /\ Shown(r, h) /\ (r.applying = Nothing \/ r.seen = v.seen)
  BY <1>2, <1>3, <1>4, RecoverFits
<1> HIDE DEF r
<1> QED  BY <1>5 DEF Good, Fit, Quiet, Nothing, r, w

-----------------------------------------------------------------------------
\* The terminal has what it needs to show: all but what waits, or, when it failed, all.
TerminalInv ==
    /\ headless \in Headless /\ produced \in Nat /\ headless.shown <= produced
    /\ headless.writing => headless.healthy /\ headless.shown < produced
    /\ ~headless.healthy => headless.shown = produced

ScreenInv ==
    /\ TerminalInv
    /\ view \in [Viewers -> View]
    /\ \A c \in Viewers : Fit(view[c], headless)

AllGood == view' \in [Viewers -> View] /\ \A c \in Viewers : Good(view[c], view'[c], headless')

LEMMA GoodIsView ==
    ASSUME NEW v, NEW r, NEW g, Good(v, r, g)
    PROVE  r \in View
BY DEF Good, Fit, Kept

LEMMA ViewerChanged ==
    ASSUME ScreenInv, NEW c \in Viewers, NEW r, Good(view[c], r, headless),
           Changes(c, r)
    PROVE  TerminalInv' /\ AllGood
<1>1. headless' = headless /\ produced' = produced /\ view' = [view EXCEPT ![c] = r]
  BY DEF Changes
<1>2. TerminalInv'
  BY <1>1 DEF ScreenInv, TerminalInv
<1>3. headless \in Headless /\ view \in [Viewers -> View]
  BY DEF ScreenInv, TerminalInv
<1>4. r \in View
  BY GoodIsView
<1>5. view' \in [Viewers -> View]
  BY <1>1, <1>3, <1>4
<1>6. ASSUME NEW d \in Viewers PROVE Good(view[d], view'[d], headless)
  <2>1. CASE d = c
    BY <1>1, <1>3, <2>1
  <2>2. CASE d # c
    <3>1. view'[d] = view[d]
      BY <1>1, <1>3, <2>2
    <3>2. Fit(view[d], headless)
      BY DEF ScreenInv
    <3> QED  BY <3>1, <3>2 DEF Good, Quiet
  <2> QED  BY <2>1, <2>2
<1> QED  BY <1>1, <1>2, <1>5, <1>6 DEF AllGood

LEMMA ViewsChanged ==
    ASSUME view' = [c \in Viewers |-> view'[c]],
           \A c \in Viewers : Good(view[c], view'[c], headless')
    PROVE  AllGood
<1>1. \A c \in Viewers : view'[c] \in View
  BY GoodIsView
<1>2. view' \in [Viewers -> View]
  BY <1>1
<1> QED  BY <1>2 DEF AllGood

LEMMA ViewsKept ==
    ASSUME ScreenInv, view' = view, Later(headless, headless'),
           headless'.shown = headless.shown
    PROVE  AllGood
<1>1. view \in [Viewers -> View] /\ \A c \in Viewers : Fit(view[c], headless)
  BY DEF ScreenInv
<1>2. \A c \in Viewers : Good(view[c], view[c], headless')
  BY <1>1, TerminalOnlyFits
<1> QED  BY <1>1, <1>2 DEF AllGood

-----------------------------------------------------------------------------
LEMMA ViewerSteps ==
    ASSUME ScreenInv, NEW c \in Viewers, ViewerStep(c)
    PROVE  TerminalInv' /\ AllGood
<1> DEFINE v == view[c]
<1>1. headless \in Headless /\ Fit(view[c], headless) /\ view[c] \in View
  BY DEF ScreenInv, TerminalInv
<1>2. CASE Join(c)
  <2> DEFINE r == RestoredView([Away EXCEPT !.joined = TRUE], Snapshot(headless))
  <2>1. ~view[c].joined /\ Changes(c, r)
    BY <1>2 DEF Join
  <2>2. Good(view[c], r, headless)
    BY <1>1, <2>1, JoinFits
  <2> HIDE DEF r
  <2> QED  BY <2>1, <2>2, ViewerChanged
<1>3. CASE Leave(c)
  <2>1. Changes(c, Away)
    BY <1>3 DEF Leave
  <2> QED  BY <2>1, AwayGood, ViewerChanged
<1>4. CASE RestoreAgain(c)
  <2> DEFINE a == SnapshotReplay(view[c], Snapshot(headless), <<>>, FALSE)
             b == TellToReconnect(view[c])
             r == IF Snapshot(headless).ok THEN a ELSE b
  <2>1. view[c].joined /\ Changes(c, r)
    BY <1>1, <1>4, FitParts DEF RestoreAgain
  <2>2. Good(view[c], a, headless)
    BY <1>1, <2>1, RestoreAgainFits
  <2>3. Good(view[c], b, headless)
    BY <1>1, <2>1, TellGood
  <2>4. Good(view[c], r, headless)
    BY <2>2, <2>3
  <2> HIDE DEF r
  <2> QED  BY <2>1, <2>4, ViewerChanged
<1>5. CASE Apply(c)
  <2> DEFINE r == [view[c] EXCEPT !.seen = First(view[c].applying.upto),
                                  !.acks = @ \cup {IF view[c].applying.current
                                                   THEN "current" ELSE "stale"},
                                  !.applying = Nothing]
  <2>1. view[c].applying.what = "snapshot" /\ Changes(c, r)
    BY <1>5 DEF Apply
  <2>2. Good(view[c], r, headless)
    BY <1>1, <2>1, ApplyFits
  <2> HIDE DEF r
  <2> QED  BY <2>1, <2>2, ViewerChanged
<1>6. CASE Acknowledge(c)
  <2>1. PICK ack \in view[c].acks :
           LET w == [view[c] EXCEPT !.acks = @ \ {ack}]
           IN  Changes(c, IF Matches(ack) /\ Fenced(w) THEN Released(w) ELSE w)
    BY <1>6 DEF Acknowledge
  <2> DEFINE w == [view[c] EXCEPT !.acks = @ \ {ack}]
             r == IF Matches(ack) /\ Fenced(w) THEN Released(w) ELSE w
  <2>2. Changes(c, r)
    BY <2>1
  <2>3. Good(view[c], r, headless)
    BY <1>1, AcknowledgeFits
  <2> HIDE DEF r
  <2> QED  BY <2>2, <2>3, ViewerChanged
<1>7. CASE ReacquireEvidence(c)
  <2> DEFINE w == [view[c] EXCEPT !.evidence = FALSE]
             a == SnapshotReplay(w, Snapshot(headless), <<>>, FALSE)
             r == IF Snapshot(headless).ok THEN a ELSE w
  <2>1. view[c].evidence /\ Changes(c, r)
    BY <1>7 DEF ReacquireEvidence
  <2>2. Good(view[c], w, headless) /\ Good(view[c], a, headless)
    BY <1>1, <2>1, ReacquireFits
  <2>3. Good(view[c], r, headless)
    BY <2>2
  <2> HIDE DEF r
  <2> QED  BY <2>1, <2>3, ViewerChanged
<1>8. CASE TimeOutAck(c)
  <2>1. view[c].joined /\ Changes(c, TellToReconnect(view[c]))
    BY <1>1, <1>8, FitParts DEF TimeOutAck
  <2> QED  BY <1>1, <2>1, TellGood, ViewerChanged
<1>9. CASE AskReplay(c)
  <2> DEFINE w == [view[c] EXCEPT !.applying = IF @.what = "patch" THEN Nothing ELSE @]
             bare == [w EXCEPT !.fence = NoFence]
             r == IF Fenced(w) /\ w.fence.repaired
                  THEN Recover(bare, Snapshot(headless), w.fence.kept \o w.fence.held)
                  ELSE RestoredView(bare, Snapshot(headless))
  <2>1. view[c].joined /\ Changes(c, r)
    BY <1>9 DEF AskReplay
  <2>2. Good(view[c], r, headless)
    BY <1>1, <2>1, AskReplayFits
  <2> HIDE DEF r
  <2> QED  BY <2>1, <2>2, ViewerChanged
<1>10. CASE AskRepair(c)
  <2> DEFINE r == [view[c] EXCEPT !.repair = [stage |-> "asked", seq |-> 0, held |-> <<>>]]
  <2>1. /\ view[c].joined /\ ~Fenced(view[c]) /\ ~Repairing(view[c])
        /\ view[c].applying = Nothing /\ Changes(c, r)
    BY <1>10 DEF AskRepair
  <2>2. Good(view[c], r, headless)
    BY <1>1, <2>1, AskRepairFits
  <2> HIDE DEF r
  <2> QED  BY <2>1, <2>2, ViewerChanged
<1>11. CASE AnswerRepair(c)
  <2> DEFINE bare == [view[c] EXCEPT !.repair = NoRepair]
             a == FenceAhead(bare)
             t == TellToReconnect(view[c])
             s == [view[c] EXCEPT !.repair.stage = "sent", !.repair.seq = headless.seq,
                                  !.applying = [what |-> "patch", upto |-> headless.shown]]
  <2>1. /\ view[c].repair.stage = "asked"
        /\ \/ Fenced(view[c]) /\ Changes(c, bare)
           \/ ~Fenced(view[c]) /\ Changes(c, a)
           \/ Changes(c, t)
           \/ ~Fenced(view[c]) /\ Changes(c, s)
    BY <1>11 DEF AnswerRepair
  <2>2. view[c].joined
    BY <1>1, <2>1, FitParts DEF Repairing
  <2>3. /\ Fenced(view[c]) => Good(view[c], bare, headless)
        /\ ~Fenced(view[c]) => Good(view[c], a, headless)
    BY <1>1, <2>1, RepairDropped
  <2>4. Good(view[c], t, headless)
    BY <1>1, <2>2, TellGood
  <2>5. ~Fenced(view[c]) => Good(view[c], s, headless)
    BY <1>1, <2>1, PatchSentFits
  <2> HIDE DEF bare, a, t, s
  <2> QED  BY <2>1, <2>3, <2>4, <2>5, ViewerChanged
<1>12. CASE FinishRepair(c)
  <2> DEFINE w == [view[c] EXCEPT !.seen = First(view[c].applying.upto),
                                  !.applying = Nothing, !.repair = NoRepair]
             r == Send(w, Newer(view[c].repair.held, view[c].repair.seq))
  <2>1. view[c].repair.stage = "sent" /\ view[c].applying.what = "patch" /\ Changes(c, r)
    BY <1>12 DEF FinishRepair
  <2>2. Good(view[c], r, headless)
    BY <1>1, <2>1, FinishRepairFits
  <2> HIDE DEF r
  <2> QED  BY <2>1, <2>2, ViewerChanged
<1>13. CASE FailRepair(c)
  <2> DEFINE w == [view[c] EXCEPT !.applying = IF @.what = "patch" THEN Nothing ELSE @]
             r == Recover(w, Snapshot(headless), view[c].repair.held)
             t == TellToReconnect(view[c])
  <2>1. view[c].repair.stage = "sent" /\ (Changes(c, r) \/ Changes(c, t))
    BY <1>13 DEF FailRepair
  <2>2. view[c].joined
    BY <1>1, <2>1, FitParts DEF Repairing
  <2>3. Good(view[c], r, headless) /\ Good(view[c], t, headless)
    BY <1>1, <2>1, <2>2, FailRepairFits, TellGood
  <2> HIDE DEF r, t
  <2> QED  BY <2>1, <2>3, ViewerChanged
<1> QED
  BY <1>2, <1>3, <1>4, <1>5, <1>6, <1>7, <1>8, <1>9, <1>10, <1>11, <1>12, <1>13
  DEF ViewerStep

-----------------------------------------------------------------------------
LEMMA BlankParts ==
    ASSUME Clears = {}, NEW h \in Headless
    PROVE  Snapshot(h).blank <=> h.healthy /\ h.shown = 0
BY DEF Snapshot

\* The terminal has shown one chunk, and it is routed.
LEMMA RouteAllGood ==
    ASSUME Clears = {}, ScreenInv, NEW g \in Headless, headless' = g,
           g.seq = headless.seq + 1, g.shown = headless.shown + 1,
           NEW chunk, chunk = [id |-> g.shown, seq |-> g.seq],
           view' = RouteAll(chunk, g)
    PROVE  AllGood
<1>1. headless \in Headless /\ \A c \in Viewers : Fit(view[c], headless)
  BY DEF ScreenInv, TerminalInv
<1>2. /\ headless.seq \in Nat /\ headless.shown \in Nat /\ g.seq \in Nat /\ g.shown \in Nat
      /\ chunk \in Chunk /\ chunk.id = g.shown /\ chunk.seq = g.seq
  BY <1>1, SnapshotParts DEF Chunk
<1>3. ~Snapshot(g).blank
  BY <1>2, BlankParts
<1>4. Shows1(headless, g, chunk) /\ Next1(headless, g, chunk)
  BY <1>1, <1>2, <1>3 DEF Shows1, Next1, Later
<1>5. ASSUME NEW c \in Viewers PROVE Good(view[c], view'[c], g)
  <2>1. view'[c] = Routed(view[c], chunk, Snapshot(g))
    BY DEF RouteAll
  <2> QED  BY <1>1, <1>4, <2>1, RouteFits
<1>6. view' = [c \in Viewers |-> view'[c]]
  BY DEF RouteAll
<1> QED  BY <1>5, <1>6, ViewsChanged

\* The terminal has failed.
LEMMA FailAndRouteGood ==
    ASSUME Clears = {}, ScreenInv, NEW g \in Headless, NEW chunk \in Nat,
           FailAndRoute([id |-> chunk, seq |-> g.seq], g), ~g.healthy,
           headless.seq < g.seq, headless.shown < g.shown
    PROVE  AllGood
<1> DEFINE k == [id |-> chunk, seq |-> g.seq]
<1>1. headless \in Headless /\ \A c \in Viewers : Fit(view[c], headless)
  BY DEF ScreenInv, TerminalInv
<1>2. /\ headless.seq \in Nat /\ headless.shown \in Nat /\ g.seq \in Nat /\ g.shown \in Nat
      /\ k \in Chunk /\ k.seq = g.seq
  BY <1>1, SnapshotParts DEF Chunk
<1>3. ~Snapshot(g).blank
  BY BlankParts
<1> HIDE DEF k
<1>4. Shows1(headless, g, k)
  BY <1>1, <1>2, <1>3 DEF Shows1, Later
<1>5. /\ headless' = g
      /\ FailsInRepair \/ \A c \in Viewers : view[c].repair.stage # "sent"
      /\ view' = [c \in Viewers |->
                    Refreshed(Routed(view[c], k, Snapshot(g)), Snapshot(g), TRUE)]
  BY DEF FailAndRoute, k
<1>6. ASSUME NEW c \in Viewers PROVE Good(view[c], view'[c], g)
  <2>1. view'[c] = Refreshed(Routed(view[c], k, Snapshot(g)), Snapshot(g), TRUE)
    BY <1>5
  <2> QED  BY <1>1, <1>2, <1>4, <1>5, <2>1, FailAndRouteFits
<1>7. view' = [c \in Viewers |-> view'[c]]
  BY <1>5
<1> QED  BY <1>5, <1>6, <1>7, ViewsChanged

LEMMA RefreshAllGood ==
    ASSUME ScreenInv, NEW start \in BOOLEAN, RefreshAll(start), headless' = headless
    PROVE  AllGood
<1>1. headless \in Headless /\ \A c \in Viewers : Fit(view[c], headless)
  BY DEF ScreenInv, TerminalInv
<1>2. ASSUME NEW c \in Viewers PROVE Good(view[c], view'[c], headless)
  <2>1. view'[c] = Refreshed(view[c], Snapshot(headless), start)
    BY DEF RefreshAll
  <2> QED  BY <1>1, <2>1, RefreshFits
<1>3. view' = [c \in Viewers |-> view'[c]]
  BY DEF RefreshAll
<1> QED  BY <1>2, <1>3, ViewsChanged

-----------------------------------------------------------------------------
\* Every step keeps the invariant, and sends no output over a snapshot.
LEMMA ScreenSteps ==
    ASSUME Clears = {}, ScreenInv, [ScreenNext]_srVars
    PROVE  TerminalInv' /\ AllGood
<1>1. /\ headless \in Headless /\ produced \in Nat /\ headless.shown <= produced
      /\ headless.writing => headless.healthy /\ headless.shown < produced
      /\ ~headless.healthy => headless.shown = produced
  BY DEF ScreenInv, TerminalInv
<1>2. headless.seq \in Nat /\ headless.shown \in Nat /\ headless.healthy \in BOOLEAN
  BY <1>1 DEF Headless
<1> DEFINE seq == headless.seq + 1
           seq2 == headless.seq + 2
           shown == headless.shown + 1
           all == produced + 1
<1>14. seq \in Nat /\ seq2 \in Nat /\ shown \in Nat /\ all \in Nat
  BY <1>1, <1>2
<1>3. CASE UNCHANGED srVars
  <2>1. TerminalInv' /\ view' = view /\ headless' = headless
    BY <1>1, <1>3 DEF srVars, TerminalInv
  <2> QED  BY <1>1, <1>2, <2>1, ViewsKept DEF Later
<1>4. CASE Produce
  <2>1. produced' = produced + 1 /\ headless' = headless /\ view' = view /\ headless.healthy
    BY <1>4 DEF Produce
  <2>2. TerminalInv'
    BY <1>1, <1>2, <2>1 DEF TerminalInv
  <2> QED  BY <1>1, <1>2, <2>1, <2>2, ViewsKept DEF Later
<1>5. CASE ProduceTooMuch
  <2> DEFINE g == Degraded(headless, produced + 1, headless.seq + 2)
  <2>1. g \in Headless /\ ~g.healthy /\ ~g.writing /\ g.shown = produced + 1
        /\ g.seq = headless.seq + 2
    <3>1. g = [headless EXCEPT !.healthy = FALSE, !.writing = FALSE, !.shown = all, !.seq = seq2]
      BY DEF Degraded
    <3>2. g \in Headless /\ ~g.healthy /\ ~g.writing /\ g.shown = all /\ g.seq = seq2
      <4> HIDE DEF all, seq2, g
      <4> QED  BY <1>1, <1>14, <3>1 DEF Headless
    <3> QED  BY <3>2
  <2>2. produced' = produced + 1
        /\ FailAndRoute([id |-> produced + 1, seq |-> headless.seq + 2], g)
    BY <1>5 DEF ProduceTooMuch
  <2> HIDE DEF g
  <2>3. headless' = g /\ FailAndRoute([id |-> produced + 1, seq |-> g.seq], g)
    BY <2>1, <2>2 DEF FailAndRoute
  <2>4. TerminalInv'
    BY <1>1, <2>1, <2>2, <2>3 DEF TerminalInv
  <2>5. headless.seq < g.seq /\ headless.shown < g.shown /\ produced + 1 \in Nat
    BY <1>1, <1>2, <2>1
  <2> QED  BY <2>1, <2>3, <2>4, <2>5, FailAndRouteGood
<1>6. CASE ProduceRaw
  <2> DEFINE g == [headless EXCEPT !.shown = produced + 1, !.seq = @ + 1]
  <2>1. g \in Headless /\ ~g.healthy /\ ~g.writing /\ g.shown = produced + 1
        /\ g.seq = headless.seq + 1 /\ headless.shown = produced
    <3>1. g = [headless EXCEPT !.shown = all, !.seq = seq]
      BY <1>1 DEF Headless
    <3>2. g \in Headless /\ g.healthy = headless.healthy /\ g.writing = headless.writing
          /\ g.shown = all /\ g.seq = seq
      <4> HIDE DEF all, seq, g
      <4> QED  BY <1>1, <1>14, <3>1 DEF Headless
    <3> QED  BY <1>1, <1>6, <3>2 DEF ProduceRaw
  <2>2. /\ produced' = produced + 1 /\ headless' = g
        /\ view' = RouteAll([id |-> g.shown, seq |-> g.seq], g)
    BY <1>6 DEF ProduceRaw
  <2> HIDE DEF g
  <2>3. TerminalInv'
    BY <1>1, <2>1, <2>2 DEF TerminalInv
  <2> QED  BY <2>1, <2>2, <2>3, RouteAllGood
<1>7. CASE StartWrite
  <2> DEFINE g == [headless EXCEPT !.writing = TRUE]
  <2>1. g \in Headless /\ g.seq = headless.seq /\ g.shown = headless.shown
        /\ g.healthy = headless.healthy /\ g.writing
    BY <1>1 DEF Headless
  <2>2. /\ headless' = g /\ headless.healthy /\ produced - headless.shown > 0
        /\ produced' = produced /\ view' = view
    BY <1>7 DEF StartWrite, Pending
  <2> HIDE DEF g
  <2>3. TerminalInv'
    <3>1. headless.shown < produced
      BY <1>1, <1>2, <2>2
    <3>2. headless'.healthy /\ headless'.shown < produced' /\ headless' \in Headless
          /\ produced' \in Nat /\ headless'.shown <= produced'
      BY <1>1, <2>1, <2>2, <3>1
    <3> QED  BY <3>2 DEF TerminalInv
  <2>4. Later(headless, g)
    BY <1>1, <1>2, <2>1, BlankParts DEF Later
  <2> QED  BY <2>1, <2>2, <2>3, <2>4, ViewsKept
<1>8. CASE EndWrite
  <2> DEFINE g == [headless EXCEPT !.writing = FALSE, !.shown = @ + 1, !.seq = @ + 1]
  <2>1. g \in Headless /\ g.healthy = headless.healthy /\ ~g.writing
        /\ g.shown = headless.shown + 1 /\ g.seq = headless.seq + 1
    <3>1. g = [headless EXCEPT !.writing = FALSE, !.shown = shown, !.seq = seq]
      BY <1>1 DEF Headless
    <3>2. g \in Headless /\ g.healthy = headless.healthy /\ ~g.writing
          /\ g.shown = shown /\ g.seq = seq
      <4> HIDE DEF shown, seq, g
      <4> QED  BY <1>1, <1>14, <3>1 DEF Headless
    <3> QED  BY <3>2
  <2>2. /\ produced' = produced /\ headless' = g /\ headless.writing
        /\ view' = RouteAll([id |-> g.shown, seq |-> g.seq], g)
    BY <1>8 DEF EndWrite
  <2> HIDE DEF g
  <2>3. TerminalInv'
    BY <1>1, <1>2, <2>1, <2>2 DEF TerminalInv
  <2> QED  BY <2>1, <2>2, <2>3, RouteAllGood
<1>9. CASE FailWrite
  <2> DEFINE g == Degraded(headless, produced, headless.seq + 1)
  <2>1. g \in Headless /\ ~g.healthy /\ ~g.writing /\ g.shown = produced
        /\ g.seq = headless.seq + 1
    <3>1. g = [headless EXCEPT !.healthy = FALSE, !.writing = FALSE,
                               !.shown = produced, !.seq = seq]
      BY DEF Degraded
    <3>2. g \in Headless /\ ~g.healthy /\ ~g.writing /\ g.shown = produced /\ g.seq = seq
      <4> HIDE DEF seq, g
      <4> QED  BY <1>1, <1>14, <3>1 DEF Headless
    <3> QED  BY <3>2
  <2>2. produced' = produced /\ headless.writing
        /\ FailAndRoute([id |-> headless.shown + 1, seq |-> headless.seq + 1], g)
    BY <1>9 DEF FailWrite
  <2> HIDE DEF g
  <2>3. headless' = g /\ FailAndRoute([id |-> headless.shown + 1, seq |-> g.seq], g)
    BY <2>1, <2>2 DEF FailAndRoute
  <2>4. TerminalInv'
    BY <1>1, <2>1, <2>2, <2>3 DEF TerminalInv
  <2>5. headless.seq < g.seq /\ headless.shown < g.shown /\ headless.shown + 1 \in Nat
    BY <1>1, <1>2, <2>1, <2>2
  <2> QED  BY <2>1, <2>3, <2>4, <2>5, FailAndRouteGood
<1>10. CASE Resize
  <2> DEFINE g == [headless EXCEPT !.seq = @ + 1]
  <2>1. g \in Headless /\ g.seq = headless.seq + 1 /\ g.shown = headless.shown
        /\ g.healthy = headless.healthy /\ g.writing = headless.writing
    BY <1>1, <1>2 DEF Headless
  <2>2. headless' = g /\ produced' = produced /\ view' = view
    BY <1>10 DEF Resize
  <2> HIDE DEF g
  <2>3. TerminalInv'
    BY <1>1, <2>1, <2>2 DEF TerminalInv
  <2>4. Later(headless, g)
    BY <1>1, <1>2, <2>1, BlankParts DEF Later
  <2> QED  BY <2>1, <2>2, <2>3, <2>4, ViewsKept
<1>11. CASE RefreshResized
  <2>1. RefreshAll(FALSE) /\ headless' = headless /\ produced' = produced
    BY <1>11 DEF RefreshResized
  <2>2. TerminalInv'
    BY <1>1, <2>1 DEF TerminalInv
  <2> QED  BY <2>1, <2>2, RefreshAllGood
<1>12. CASE RefreshAgain
  <2>1. (RefreshAll(TRUE) \/ view' = view) /\ headless' = headless /\ produced' = produced
    BY <1>12 DEF RefreshAgain
  <2>2. TerminalInv'
    BY <1>1, <2>1 DEF TerminalInv
  <2>3. view' = view => AllGood
    BY <1>1, <1>2, <2>1, ViewsKept DEF Later
  <2> QED  BY <2>1, <2>2, <2>3, RefreshAllGood
<1>13. CASE \E c \in Viewers : ViewerStep(c)
  BY <1>13, ViewerSteps
<1> QED
  BY <1>3, <1>4, <1>5, <1>6, <1>7, <1>8, <1>9, <1>10, <1>11, <1>12, <1>13 DEF ScreenNext

LEMMA ScreenStarts ==
    ASSUME ScreenInit
    PROVE  ScreenInv
<1>1. headless \in Headless /\ TerminalInv
  BY DEF ScreenInit, Headless, TerminalInv
<1>2. view \in [Viewers -> View] /\ \A c \in Viewers : view[c] = Away
  BY AwayFits DEF ScreenInit
<1>3. Fit(Away, headless)
  BY AwayFits DEF Fit
<1> QED  BY <1>1, <1>2, <1>3 DEF ScreenInv

LEMMA ScreenKept ==
    ASSUME Clears = {}, ScreenInv, [ScreenNext]_srVars
    PROVE  ScreenInv'
<1>1. TerminalInv' /\ AllGood
  BY ScreenSteps
<1>2. \A c \in Viewers : Fit(view'[c], headless')
  BY <1>1 DEF AllGood, Good
<1> QED  BY <1>1, <1>2 DEF ScreenInv, AllGood

\* What the invariant says of a viewer whose output is due is that it gets all of it.
LEMMA AllWillShow ==
    ASSUME NEW h \in Headless, NEW v, Fit(v, h), ~FailsInRepair,
           v.joined, ~v.told, ~Promised(v)
    PROVE  WillShow(v) = First(h.shown)
<1>1. v \in View /\ Tokens(v) /\ UpTo(v, h) /\ Shown(v, h)
  BY FitParts
<1>2. h.shown \in Nat
  BY SnapshotParts
<1>3. CASE Fenced(v)
  <2>1. v.fence.seq # -1 /\ v.fence \in OpenFence
    BY <1>1, <1>3, ViewParts DEF Promised
  <2>2. v.fence.held \in Seq(Chunk)
    BY <2>1 DEF OpenFence
  <2>3. v.applying.what # "patch"
    BY <1>1, <1>3 DEF Tokens
  <2>4. Follows(v.fence.held, Base(v), h.shown)
    BY <1>1, <1>3, <2>1 DEF Shown
  <2>5. CASE v.applying = Nothing
    <3>1. v.seen = First(Len(v.seen)) /\ Base(v) = Len(v.seen)
      BY <1>1, <1>3, <2>1, <2>5 DEF Shown, Base, Nothing
    <3>2. Len(v.seen) \in Nat
      BY <1>1 DEF View
    <3>3. First(Len(v.seen)) \o Ids(v.fence.held) = First(h.shown)
      BY <1>2, <2>2, <2>4, <3>1, <3>2, FirstFollowed
    <3>4. WillShow(v) = v.seen \o Ids(v.fence.held)
      BY <1>3, <2>5 DEF WillShow
    <3> QED  BY <3>1, <3>3, <3>4
  <2>6. CASE v.applying # Nothing
    <3>1. v.applying.what = "snapshot" /\ v.applying.upto \in Nat
      BY <1>1, <2>3, <2>6, ViewParts DEF Image
    <3>2. Base(v) = v.applying.upto
      BY <3>1 DEF Base
    <3>3. First(v.applying.upto) \o Ids(v.fence.held) = First(h.shown)
      BY <1>2, <2>2, <2>4, <3>1, <3>2, FirstFollowed
    <3>4. WillShow(v) = First(v.applying.upto) \o Ids(v.fence.held)
      BY <1>3, <2>6 DEF WillShow
    <3> QED  BY <3>3, <3>4
  <2> QED  BY <2>5, <2>6
<1>4. CASE ~Fenced(v) /\ Repairing(v)
  <2>1. v.applying.what = "patch" /\ v.applying # Nothing /\ v.repair \in OpenRepair
    BY <1>1, <1>4, ViewParts DEF Promised, Nothing
  <2>2. v.applying \in Image
    BY <1>1, <2>1, ViewParts
  <2>3. v.applying.upto \in Nat
    BY <2>2 DEF Image
  <2> DEFINE held == Newer(v.repair.held, v.repair.seq)
  <2>4. v.repair.held \in Seq(Chunk) /\ v.repair.seq \in Int
    BY <2>1 DEF OpenRepair
  <2>5. held \in Seq(Chunk)
    BY <2>4, NewerIsSeq
  <2>6. Follows(held, v.applying.upto, h.shown)
    BY <1>1, <1>4, <2>1 DEF Shown
  <2>7. WillShow(v) = First(v.applying.upto) \o Ids(held)
    BY <1>4, <2>1 DEF WillShow
  <2> HIDE DEF held
  <2> QED  BY <1>2, <2>3, <2>5, <2>6, <2>7, FirstFollowed
<1>5. CASE ~Fenced(v) /\ ~Repairing(v)
  <2>1. v.applying.what # "snapshot" /\ v.applying.what # "patch"
    BY <1>1, <1>5, ViewParts DEF Tokens, NoRepair
  <2>2. v.applying = Nothing
    BY <1>1, <2>1, ViewParts
  <2>3. v.seen = First(h.shown) /\ v.seen \in Seq(Nat)
    BY <1>1, <1>5 DEF Shown, View
  <2>4. WillShow(v) = v.seen \o <<>>
    BY <1>5, <2>2 DEF WillShow
  <2>5. v.seen \o <<>> = v.seen
    BY <2>3
  <2> QED  BY <2>3, <2>4, <2>5
<1> QED  BY <1>3, <1>4, <1>5

-----------------------------------------------------------------------------
\* What the server keeps for its viewers fits the terminal and what the viewers show,
\* whatever fails and in whatever order: only a screen that output leaves blank is left out.
THEOREM ScreenFits ==
    ASSUME Clears = {}
    PROVE  ScreenSpec => []ScreenInv
<1>1. ScreenInit => ScreenInv
  BY ScreenStarts
<1>2. ScreenInv /\ [ScreenNext]_srVars => ScreenInv'
  BY ScreenKept
<1> QED  BY <1>1, <1>2, PTL DEF ScreenSpec

\* No chunk that routeSessionOutput was given is missing from, repeated on, or out of order
\* on the screen of a viewer that was not told to reconnect, for any number of viewers,
\* chunks, resizes, refreshes, repairs, replays and reconnects and any size of the queues.
THEOREM NothingIsLost ==
    ASSUME Clears = {}, ~FailsInRepair
    PROVE  ScreenSpec => []NothingLostOrTwice
<1>1. ScreenInv => NothingLostOrTwice
  <2> SUFFICES ASSUME ScreenInv, NEW c \in Viewers,
                      view[c].joined, ~view[c].told, ~Promised(view[c])
               PROVE  WillShow(view[c]) = First(headless.shown)
    BY DEF NothingLostOrTwice
  <2>1. headless \in Headless /\ Fit(view[c], headless)
    BY DEF ScreenInv, TerminalInv
  <2> QED  BY <2>1, AllWillShow
<1>2. ScreenSpec => []ScreenInv
  BY ScreenFits
<1> QED  BY <1>1, <1>2, PTL

\* While a browser puts a snapshot on its screen no output is sent to it, whatever becomes of
\* the terminal, of the fence and of the acknowledgements on their way.
THEOREM QuietUntilApplied ==
    ASSUME Clears = {}
    PROVE  ScreenSpec => QuietWhileApplying
<1>1. ScreenInv /\ [ScreenNext]_srVars =>
         [\A c \in Viewers :
             view[c].applying.what = "snapshot" /\ view'[c].applying = view[c].applying
             => view'[c].seen = view[c].seen]_srVars
  <2> SUFFICES ASSUME ScreenInv, [ScreenNext]_srVars, NEW c \in Viewers,
                      view[c].applying.what = "snapshot",
                      view'[c].applying = view[c].applying
               PROVE  view'[c].seen = view[c].seen
    OBVIOUS
  <2>1. AllGood
    BY ScreenSteps
  <2> QED  BY <2>1 DEF AllGood, Good, Quiet
<1>2. ScreenSpec => []ScreenInv
  BY ScreenFits
<1> QED  BY <1>1, <1>2, PTL DEF ScreenSpec, QuietWhileApplying

-----------------------------------------------------------------------------
(* Inputs: what is picked, dropped and joined.                             *)

\* The input id was typed in the session generation g.
OfGen(t, id, g) == id \in DOMAIN t /\ t[id].gen = g

Input == [boundary : BOOLEAN, gen : Nat]

\* Entries are of the generation their inputs were typed in.
ViewEntry(t) == {e \in [id : Nat, gen : Nat, late : BOOLEAN] : OfGen(t, e.id, e.gen)}
OutEntry(t) ==
    {e \in [ids : Seq(Nat), gen : Nat, late : BOOLEAN] :
        \A id \in ToSet(e.ids) : OfGen(t, id, e.gen)}
WireEntry(t) ==
    {e \in [ids : Seq(Nat), gen : Nat] : \A id \in ToSet(e.ids) : OfGen(t, id, e.gen)}

LEMMA LeastNumber ==
    ASSUME NEW T \in SUBSET Nat, T # {}
    PROVE  \E m \in T : \A k \in T : m <= k
<1>1. \E x \in T : \A y \in T : <<y, x>> \notin OpToRel(<, Nat)
  BY WFMin, NatLessThanWellFounded
<1>2. \A x, y \in T : <<y, x>> \notin OpToRel(<, Nat) => x <= y
  BY DEF OpToRel
<1> QED  BY <1>1, <1>2

\* Among finitely many positions there is an n-th.
LEMMA Ranked ==
    ASSUME NEW m \in Nat, NEW S \in SUBSET (1 .. m), NEW n \in 1 .. Cardinality(S)
    PROVE  \E i \in S : Cardinality({j \in S : j <= i}) = n
<1> DEFINE Upto(i) == {j \in S : j <= i}
           C(i) == Cardinality(Upto(i))
           T == {i \in 0 .. m : C(i) >= n}
<1>1. IsFiniteSet(S) /\ Cardinality(S) \in Nat /\ n \in Nat /\ n # 0
  <2>1. IsFiniteSet(1 .. m)
    BY FS_Interval
  <2>2. IsFiniteSet(S)
    BY <2>1, FS_Subset
  <2> QED  BY <2>2, FS_CardinalityType
<1>2. \A i \in 0 .. m : IsFiniteSet(Upto(i)) /\ C(i) \in Nat
  <2> TAKE i \in 0 .. m
  <2>1. Upto(i) \in SUBSET S
    OBVIOUS
  <2>2. IsFiniteSet(Upto(i))
    BY <1>1, <2>1, FS_Subset
  <2> QED  BY <2>2, FS_CardinalityType
<1>3. C(m) = Cardinality(S) /\ C(0) = 0
  <2>1. \A j \in S : j \in Nat /\ 1 <= j /\ j <= m
    OBVIOUS
  <2>2. \A j \in S : ~(j <= 0)
    BY <2>1
  <2>3. Upto(m) = S
    BY <2>1
  <2>4. Upto(0) = {}
    BY <2>2
  <2> QED  BY <2>3, <2>4, FS_EmptySet
<1>4. \A i \in 1 .. m : i \notin S => C(i) = C(i - 1)
  <2> TAKE i \in 1 .. m
  <2> HAVE i \notin S
  <2>1. \A j \in S : j \in Nat /\ (j <= i <=> j <= i - 1)
    OBVIOUS
  <2>2. Upto(i) = Upto(i - 1)
    BY <2>1
  <2> QED  BY <2>2
<1>5. \A i \in 1 .. m : i \in S => C(i) = C(i - 1) + 1
  <2> TAKE i \in 1 .. m
  <2> HAVE i \in S
  <2>1. \A j \in S : j <= i <=> (j <= i - 1 \/ j = i)
    OBVIOUS
  <2>2. ~(i <= i - 1) /\ i - 1 \in 0 .. m /\ i <= i
    OBVIOUS
  <2>3. Upto(i) = Upto(i - 1) \cup {i}
    BY <2>1, <2>2
  <2>4. i \notin Upto(i - 1)
    BY <2>2
  <2>5. IsFiniteSet(Upto(i - 1))
    BY <1>2, <2>2
  <2> HIDE DEF Upto
  <2> QED  BY <2>3, <2>4, <2>5, FS_AddElement
<1> HIDE DEF C
<1>6. m \in T
  BY <1>1, <1>3
<1>7. PICK i \in T : \A k \in T : i <= k
  <2>1. T \in SUBSET Nat /\ T # {}
    BY <1>6
  <2> HIDE DEF T
  <2> QED  BY <2>1, LeastNumber
<1>8. i \in 1 .. m
  BY <1>1, <1>3, <1>7
<1>9. i - 1 \in 0 .. m /\ ~(C(i - 1) >= n) /\ C(i) >= n
  BY <1>7, <1>8
<1>10. i \in S /\ C(i) = n
  <2>1. C(i) \in Nat /\ C(i - 1) \in Nat
    BY <1>2, <1>8, <1>9
  <2>2. C(i) # C(i - 1)
    BY <1>9
  <2>3. i \in S /\ C(i) = C(i - 1) + 1
    BY <1>4, <1>5, <1>8, <2>2
  <2> QED  BY <1>1, <1>9, <2>1, <2>3
<1> QED  BY <1>10 DEF C

\* The elements that are picked are those at the positions that are kept.
LEMMA Picked ==
    ASSUME NEW X, NEW q \in Seq(X), NEW kept \in SUBSET DOMAIN q
    PROVE  /\ Pick(q, kept) \in Seq(X)
           /\ \A n \in DOMAIN Pick(q, kept) : \E i \in kept : Pick(q, kept)[n] = q[i]
<1> DEFINE nth(n) == CHOOSE i \in kept : Cardinality({j \in kept : j <= i}) = n
           c == Cardinality(kept)
<1>1. DOMAIN q = 1 .. Len(q) /\ Len(q) \in Nat
  OBVIOUS
<1>2. c \in Nat
  <2>1. IsFiniteSet(1 .. Len(q))
    BY <1>1, FS_Interval
  <2>2. IsFiniteSet(kept)
    BY <1>1, <2>1, FS_Subset
  <2> QED  BY <2>2, FS_CardinalityType
<1>3. \A n \in 1 .. c : nth(n) \in kept
  <2> TAKE n \in 1 .. c
  <2>1. kept \in SUBSET (1 .. Len(q)) /\ Len(q) \in Nat /\ n \in 1 .. Cardinality(kept)
    BY <1>1
  <2>2. \E i \in kept : Cardinality({j \in kept : j <= i}) = n
    BY ZenonT(40), <2>1, Ranked
  <2> QED  BY <2>2
<1>4. Pick(q, kept) = [n \in 1 .. c |-> q[nth(n)]]
  BY DEF Pick
<1> HIDE DEF nth, c
<1>5. \A n \in 1 .. c : q[nth(n)] \in X
  BY <1>3
<1> QED  BY <1>2, <1>3, <1>4, <1>5

\* What makes room is a number of entries.
LEMMA DropsSome ==
    ASSUME NEW sizes, NEW max \in Nat, Len(sizes) \in Nat
    PROVE  Dropped(sizes, max) \in 0 .. Len(sizes)
<1> DEFINE bytesAfter(k) == UNION {{i} \X (1 .. sizes[i]) : i \in k + 1 .. Len(sizes)}
           T == {k \in 0 .. Len(sizes) : Cardinality(bytesAfter(k)) <= max}
<1>1. Len(sizes) \in T
  <2>1. Len(sizes) + 1 .. Len(sizes) = {}
    OBVIOUS
  <2>2. bytesAfter(Len(sizes)) = {}
    BY <2>1
  <2> HIDE DEF bytesAfter
  <2> QED  BY <2>2, FS_EmptySet
<1>2. Dropped(sizes, max) = Min(T)
  BY DEF Dropped
<1>3. T \in SUBSET Nat /\ T # {} /\ T \subseteq 0 .. Len(sizes)
  <2> HIDE DEF bytesAfter
  <2> QED  BY <1>1
<1> HIDE DEF T
<1>4. Min(T) \in T
  BY <1>3, LeastNumber DEF Min
<1> QED  BY <1>2, <1>3, <1>4

-----------------------------------------------------------------------------
(* The invariant.                                                          *)

Statuses == {"connected", "reconnecting", "disconnected"}
Reasons == {"link", "error", "detached"}

At == [status : Statuses, stale : BOOLEAN, effect : BOOLEAN,
       reconnect : {"none", "short", "over"}, ready : BOOLEAN, closed : {"none"} \cup Reasons,
       gen : Nat, visible : BOOLEAN, recovering : BOOLEAN]

Seen == [ready : BOOLEAN, closed : {"none"} \cup Reasons, gen : Nat]

\* The calls of a turn.
Plain == {"sync", "gate", "flushSequencer", "flushOutbox", "rejectOutbox"}
Calling(t) ==
    [call : Plain] \cup [call : {"submit"}, id : Nat] \cup [call : {"deliver"}, ids : Seq(Nat)]
    \cup [call : {"flushEntries"}, entries : Seq(OutEntry(t)) \ {<<>>}]
    \cup [call : {"markClosed"}, reason : Reasons]

\* What goes on with inputs is carried out before anything else happens.
Urgent == {"submit", "deliver"}
Flushes(c) == \E k \in DOMAIN c : c[k].call = "flushSequencer"

\* A turn that closes the transport tells the view next, and flushes the sequencer later.
Closes(c) ==
    \A k \in DOMAIN c : c[k].call = "markClosed" =>
        /\ k + 1 \in DOMAIN c /\ c[k + 1].call = "sync"
        /\ \E j \in DOMAIN c : j > k /\ c[j].call = "flushSequencer"

NoGate(c) == \A k \in DOMAIN c : c[k].call # "gate"

Shape(c) ==
    /\ \A j, k \in DOMAIN c : j < k /\ c[k].call \in Urgent => c[j].call \in Urgent
    /\ \A k \in DOMAIN c : c[k].call = "gate" => k = 1
    /\ Closes(c)

\* The inputs that go on are of the generation at hand, or find the transport closed.
CallFits(x, t, a) ==
    /\ x.call = "submit" => OfGen(t, x.id, a.gen)
    /\ x.call = "deliver" =>
          a.closed # "none" \/ \A id \in ToSet(x.ids) : OfGen(t, id, a.gen)
    /\ x.call = "markClosed" /\ x.reason = "link" => a.status # "connected"

TurnFits(c, t, a) ==
    /\ c \in Seq(Calling(t)) /\ Shape(c)
    /\ \A k \in DOMAIN c : CallFits(c[k], t, a)

\* The view knows the generation, or is about to be told.
Told(c, s, a) == s.gen = a.gen \/ (c # <<>> /\ c[1].call = "sync")

\* Characters of an earlier generation wait only while the transport is closed, and are
\* given up before it can be opened.
GatheredFit(c, t, a, p) ==
    \/ \A id \in ToSet(p) : OfGen(t, id, a.gen)
    \/ /\ a.closed # "none"
       /\ a.status # "connected" \/ (a.closed # "link" /\ Flushes(c))

KeysFit ==
    /\ typed \in Seq(Input) /\ at \in At /\ seen \in Seen
    /\ pendingInputQueue \in Seq(ViewEntry(typed))
    /\ outbox \in Seq(OutEntry(typed)) /\ onWire \in Seq(WireEntry(typed))
    /\ pending \in Seq(Nat) /\ (pending # <<>> => timer)
    /\ TurnFits(turn, typed, at) /\ Told(turn, seen, at)
    /\ GatheredFit(turn, typed, at, pending)

-----------------------------------------------------------------------------
(* Turns.                                                                  *)

\* What the calls of each name carry.
LEMMA CallParts ==
    ASSUME NEW t, NEW x \in Calling(t)
    PROVE  /\ x.call \in Plain \cup Urgent \cup {"flushEntries", "markClosed"}
           /\ x.call = "submit" => x.id \in Nat
           /\ x.call = "deliver" => x.ids \in Seq(Nat)
           /\ x.call = "flushEntries" => x.entries \in Seq(OutEntry(t)) /\ x.entries # <<>>
           /\ x.call = "markClosed" => x.reason \in Reasons
BY DEF Calling, Plain, Urgent

\* The rest of a turn.
LEMMA TailFits ==
    ASSUME NEW c, NEW t, NEW a, TurnFits(c, t, a), c # <<>>
    PROVE  /\ Head(c) = c[1] /\ Head(c) \in Calling(t) /\ CallFits(Head(c), t, a)
           /\ TurnFits(Tail(c), t, a) /\ NoGate(Tail(c))
           /\ Head(c).call \notin Urgent =>
                 \A k \in DOMAIN Tail(c) : Tail(c)[k].call \notin Urgent
           /\ Flushes(c) /\ Head(c).call # "flushSequencer" => Flushes(Tail(c))
           /\ Head(c).call = "markClosed" =>
                 Flushes(Tail(c)) /\ Tail(c) # <<>> /\ Tail(c)[1].call = "sync"
<1> DEFINE d == Tail(c)
           n == Len(c)
<1>1. /\ c \in Seq(Calling(t)) /\ n \in Nat /\ n # 0 /\ DOMAIN c = 1 .. n
      /\ d \in Seq(Calling(t)) /\ DOMAIN d = 1 .. n - 1
      /\ \A k \in 1 .. n - 1 : d[k] = c[k + 1]
      /\ Head(c) = c[1] /\ c[1] \in Calling(t) /\ 1 \in DOMAIN c
  BY DEF TurnFits
<1>2. Shape(c) /\ \A k \in DOMAIN c : CallFits(c[k], t, a)
  BY DEF TurnFits
<1> HIDE DEF d, n
<1>3. NoGate(d)
  BY <1>1, <1>2 DEF NoGate, Shape
<1>4. Shape(d)
  <2>1. \A j, k \in DOMAIN d : j < k /\ d[k].call \in Urgent => d[j].call \in Urgent
    <3> TAKE j, k \in DOMAIN d
    <3> HAVE j < k /\ d[k].call \in Urgent
    <3>1. j + 1 \in DOMAIN c /\ k + 1 \in DOMAIN c /\ j + 1 < k + 1
      BY <1>1
    <3>2. d[j] = c[j + 1] /\ d[k] = c[k + 1]
      BY <1>1
    <3> QED  BY <1>2, <3>1, <3>2 DEF Shape
  <2>2. \A k \in DOMAIN d : d[k].call = "gate" => k = 1
    BY <1>3 DEF NoGate
  <2>3. Closes(d)
    <3> SUFFICES ASSUME NEW k \in DOMAIN d, d[k].call = "markClosed"
                 PROVE  /\ k + 1 \in DOMAIN d /\ d[k + 1].call = "sync"
                        /\ \E j \in DOMAIN d : j > k /\ d[j].call = "flushSequencer"
      BY DEF Closes
    <3>1. k + 1 \in DOMAIN c /\ c[k + 1].call = "markClosed"
      BY <1>1
    <3>11. k \in Nat /\ (k + 1) + 1 = k + 2
      BY <1>1
    <3>2. k + 2 \in DOMAIN c /\ c[k + 2].call = "sync"
      <4>1. (k + 1) + 1 \in DOMAIN c /\ c[(k + 1) + 1].call = "sync"
        BY <1>2, <3>1 DEF Shape, Closes
      <4> QED  BY <3>11, <4>1
    <3>3. PICK j \in DOMAIN c : j > k + 1 /\ c[j].call = "flushSequencer"
      BY <1>2, <3>1 DEF Shape, Closes
    <3>4. k + 1 \in DOMAIN d /\ d[k + 1] = c[k + 2]
      BY <1>1, <3>2
    <3>5. j - 1 \in DOMAIN d /\ d[j - 1] = c[j] /\ j - 1 > k
      BY <1>1, <3>3
    <3> QED  BY <3>2, <3>3, <3>4, <3>5
  <2> QED  BY <2>1, <2>2, <2>3 DEF Shape
<1>5. \A k \in DOMAIN d : CallFits(d[k], t, a)
  BY <1>1, <1>2
<1>6. Head(c).call \notin Urgent => \A k \in DOMAIN d : d[k].call \notin Urgent
  <2> SUFFICES ASSUME NEW k \in DOMAIN d, d[k].call \in Urgent PROVE c[1].call \in Urgent
    BY <1>1
  <2>1. k + 1 \in DOMAIN c /\ 1 < k + 1 /\ c[k + 1].call \in Urgent
    BY <1>1
  <2> QED  BY <1>1, <1>2, <2>1 DEF Shape
<1>7. Flushes(c) /\ Head(c).call # "flushSequencer" => Flushes(d)
  <2> SUFFICES ASSUME NEW k \in DOMAIN c, c[k].call = "flushSequencer",
                      c[1].call # "flushSequencer"
               PROVE  Flushes(d)
    BY <1>1 DEF Flushes
  <2>1. k - 1 \in DOMAIN d /\ d[k - 1] = c[k]
    BY <1>1
  <2> QED  BY <2>1 DEF Flushes
<1>8. Head(c).call = "markClosed" => Flushes(d) /\ d # <<>> /\ d[1].call = "sync"
  <2> SUFFICES ASSUME c[1].call = "markClosed"
               PROVE  Flushes(d) /\ d # <<>> /\ d[1].call = "sync"
    BY <1>1
  <2>1. /\ 2 \in DOMAIN c /\ c[2].call = "sync"
        /\ \E j \in DOMAIN c : j > 1 /\ c[j].call = "flushSequencer"
    <3>1. /\ 1 + 1 \in DOMAIN c /\ c[1 + 1].call = "sync"
          /\ \E j \in DOMAIN c : j > 1 /\ c[j].call = "flushSequencer"
      BY <1>1, <1>2 DEF Shape, Closes
    <3> QED  BY <3>1
  <2>2. 1 \in DOMAIN d /\ d[1] = c[2]
    BY <1>1, <2>1
  <2>3. Flushes(c) /\ Head(c).call # "flushSequencer"
    BY <1>1, <2>1 DEF Flushes
  <2> QED  BY <1>1, <1>7, <2>1, <2>2, <2>3
<1> QED  BY <1>1, <1>2, <1>3, <1>4, <1>5, <1>6, <1>7, <1>8 DEF TurnFits, d

\* Calls that come before the rest of a turn.
LEMMA PushFits ==
    ASSUME NEW t, NEW a, NEW u \in Seq(Calling(t)), NEW d, TurnFits(d, t, a), NoGate(d),
           \A k \in DOMAIN u : CallFits(u[k], t, a) /\ u[k].call # "markClosed",
           \/ \A k \in DOMAIN u : u[k].call \in Urgent
           \/ /\ \A k \in DOMAIN d : d[k].call \notin Urgent
              /\ Len(u) = 1 /\ u[1].call \notin Urgent
    PROVE  TurnFits(u \o d, t, a) /\ (Flushes(d) => Flushes(u \o d))
<1> DEFINE c == u \o d
           m == Len(u)
           n == Len(d)
<1>1. /\ d \in Seq(Calling(t)) /\ m \in Nat /\ n \in Nat
      /\ DOMAIN u = 1 .. m /\ DOMAIN d = 1 .. n
      /\ c \in Seq(Calling(t)) /\ DOMAIN c = 1 .. m + n
      /\ \A k \in 1 .. m : c[k] = u[k]
      /\ \A k \in 1 .. n : c[m + k] = d[k]
  BY DEF TurnFits
<1>2. Shape(d) /\ \A k \in DOMAIN d : CallFits(d[k], t, a)
  BY DEF TurnFits
<1> HIDE DEF c, m, n
<1>0. m \in Nat /\ n \in Nat /\ DOMAIN c \subseteq Nat
  <2>1. m \in Nat /\ n \in Nat /\ DOMAIN c = 1 .. m + n
    BY <1>1
  <2> QED  BY <2>1
<1>3. ASSUME NEW k \in DOMAIN c
      PROVE  \/ k \in DOMAIN u /\ c[k] = u[k]
             \/ k > m /\ k - m \in DOMAIN d /\ c[k] = d[k - m]
  <2>1. CASE k <= m  BY <1>1, <2>1
  <2>2. CASE ~(k <= m)
    <3>1. k \in Nat /\ 1 <= k /\ k <= m + n
      BY <1>1
    <3>2. k - m \in 1 .. n /\ m + (k - m) = k /\ k > m
      BY <1>0, <2>2, <3>1
    <3>3. c[m + (k - m)] = d[k - m]
      BY <1>1, <3>2
    <3> QED  BY <1>1, <3>2, <3>3
  <2> QED  BY <2>1, <2>2
<1>4. \A k \in DOMAIN d : m + k \in DOMAIN c /\ c[m + k] = d[k]
  BY <1>1
<1>5. \A j, k \in DOMAIN c : j < k /\ c[k].call \in Urgent => c[j].call \in Urgent
  <2> SUFFICES ASSUME NEW j \in DOMAIN c, NEW k \in DOMAIN c, j < k, c[k].call \in Urgent
               PROVE  c[j].call \in Urgent
    OBVIOUS
  <2>1. CASE \A i \in DOMAIN u : u[i].call \in Urgent
    <3>1. CASE j \in DOMAIN u /\ c[j] = u[j]  BY <2>1, <3>1
    <3>2. CASE j > m /\ j - m \in DOMAIN d /\ c[j] = d[j - m]
      <4>2. j \in Nat /\ k \in Nat
        BY <1>0
      <4>3. k > m /\ j - m < k - m /\ ~(k <= m)
        <5>1. j > m /\ j < k
          BY <3>2
        <5> QED  BY <1>0, <4>2, <5>1
      <4>4. k \notin DOMAIN u
        BY <1>1, <4>3
      <4>1. k > m /\ k - m \in DOMAIN d /\ c[k] = d[k - m] /\ j - m < k - m
        BY <1>3, <4>3, <4>4
      <4> QED  BY <1>2, <3>2, <4>1 DEF Shape
    <3> QED  BY <1>3, <3>1, <3>2
  <2>2. CASE /\ \A i \in DOMAIN d : d[i].call \notin Urgent
             /\ Len(u) = 1 /\ u[1].call \notin Urgent
    <3>1. m = 1 /\ k # 1 /\ DOMAIN u = 1 .. 1
      BY <1>1, <2>2 DEF m
    <3>2. k \notin DOMAIN u
      BY <1>1, <3>1
    <3> QED  BY <1>3, <2>2, <3>2
  <2> QED  BY <2>1, <2>2
<1>6. \A k \in DOMAIN c : c[k].call = "gate" => k = 1
  <2> SUFFICES ASSUME NEW k \in DOMAIN c, c[k].call = "gate" PROVE k = 1
    OBVIOUS
  <2>1. k \in DOMAIN u /\ c[k] = u[k]
    BY <1>3 DEF NoGate
  <2>2. u[k].call \notin Urgent
    BY <2>1 DEF Urgent
  <2> QED  BY <1>1, <2>1, <2>2 DEF m
<1>7. Closes(c)
  <2> SUFFICES ASSUME NEW k \in DOMAIN c, c[k].call = "markClosed"
               PROVE  /\ k + 1 \in DOMAIN c /\ c[k + 1].call = "sync"
                      /\ \E j \in DOMAIN c : j > k /\ c[j].call = "flushSequencer"
    BY DEF Closes
  <2>1. k > m /\ k - m \in DOMAIN d /\ d[k - m].call = "markClosed"
    BY <1>3
  <2>2. k - m + 1 \in DOMAIN d /\ d[k - m + 1].call = "sync"
    BY <1>2, <2>1 DEF Shape, Closes
  <2>3. PICK j \in DOMAIN d : j > k - m /\ d[j].call = "flushSequencer"
    BY <1>2, <2>1 DEF Shape, Closes
  <2>31. k \in Nat /\ j \in Nat
    BY <1>1
  <2>4. m + (k - m + 1) = k + 1 /\ m + j > k
    BY <1>0, <2>3, <2>31
  <2> QED  BY <1>4, <2>2, <2>3, <2>4
<1>8. \A k \in DOMAIN c : CallFits(c[k], t, a)
  BY <1>2, <1>3
<1>9. Flushes(d) => Flushes(c)
  BY <1>4 DEF Flushes
<1> QED  BY <1>1, <1>5, <1>6, <1>7, <1>8, <1>9 DEF TurnFits, Shape, c

\* The transport changes while a turn goes on.
LEMMA ChangeFits ==
    ASSUME NEW c, NEW t, NEW a, NEW b, TurnFits(c, t, a), b.status = a.status,
           \/ b.gen = a.gen /\ b.closed = a.closed
           \/ \A k \in DOMAIN c : c[k].call \notin Urgent
    PROVE  TurnFits(c, t, b)
BY DEF TurnFits, CallFits, Urgent

-----------------------------------------------------------------------------
(* What the steps of a turn have in common, and the events.                *)

LEMMA Grown ==
    ASSUME NEW t \in Seq(Input), NEW x \in Input
    PROVE  LET s == Append(t, x)
           IN  /\ s \in Seq(Input) /\ OfGen(s, Len(t) + 1, x.gen)
               /\ \A id, g : OfGen(t, id, g) => OfGen(s, id, g)
               /\ ViewEntry(t) \subseteq ViewEntry(s) /\ OutEntry(t) \subseteq OutEntry(s)
               /\ WireEntry(t) \subseteq WireEntry(s) /\ Calling(t) \subseteq Calling(s)
<1> DEFINE s == Append(t, x)
<1>1. /\ s \in Seq(Input) /\ DOMAIN t = 1 .. Len(t) /\ DOMAIN s = 1 .. Len(t) + 1
      /\ Len(t) \in Nat /\ s[Len(t) + 1] = x /\ \A k \in DOMAIN t : s[k] = t[k]
  OBVIOUS
<1> HIDE DEF s
<1>2. OfGen(s, Len(t) + 1, x.gen)
  BY <1>1 DEF OfGen
<1>3. \A id, g : OfGen(t, id, g) => OfGen(s, id, g)
  BY <1>1 DEF OfGen
<1>4. /\ ViewEntry(t) \subseteq ViewEntry(s) /\ OutEntry(t) \subseteq OutEntry(s)
      /\ WireEntry(t) \subseteq WireEntry(s)
  BY <1>3 DEF ViewEntry, OutEntry, WireEntry
<1>5. Calling(t) \subseteq Calling(s)
  <2>1. Seq(OutEntry(t)) \subseteq Seq(OutEntry(s))
    BY <1>4
  <2>2. [call : {"flushEntries"}, entries : Seq(OutEntry(t)) \ {<<>>}]
           \subseteq [call : {"flushEntries"}, entries : Seq(OutEntry(s)) \ {<<>>}]
    BY <2>1
  <2> QED  BY <2>2 DEF Calling
<1> QED  BY <1>1, <1>2, <1>3, <1>4, <1>5 DEF s

\* A step of a turn puts its calls before the rest of the turn.
LEMMA GoesOn ==
    ASSUME KeysFit, turn # <<>>, Head(turn).call \notin {"sync", "markClosed"},
           NEW u \in Seq(Calling(typed)), turn' = u \o Tail(turn),
           \A k \in DOMAIN u : CallFits(u[k], typed, at) /\ u[k].call # "markClosed",
           \/ \A k \in DOMAIN u : u[k].call \in Urgent
           \/ Head(turn).call \notin Urgent /\ Len(u) = 1 /\ u[1].call \notin Urgent,
           typed' = typed, seen' = seen, at' \in At,
           at'.gen = at.gen, at'.closed = at.closed, at'.status = at.status,
           pendingInputQueue' \in Seq(ViewEntry(typed)), outbox' \in Seq(OutEntry(typed)),
           onWire' \in Seq(WireEntry(typed)),
           pending' \in Seq(Nat), pending' # <<>> => timer',
           \A id \in ToSet(pending') : id \in ToSet(pending) \/ OfGen(typed, id, at.gen),
           Head(turn).call = "flushSequencer" => pending' = <<>>
    PROVE  KeysFit'
<1>1. TurnFits(turn, typed, at) /\ Told(turn, seen, at) /\ GatheredFit(turn, typed, at, pending)
  BY DEF KeysFit
<1> DEFINE d == Tail(turn)
<1>2. /\ Head(turn) = turn[1] /\ TurnFits(d, typed, at) /\ NoGate(d)
      /\ Flushes(turn) /\ Head(turn).call # "flushSequencer" => Flushes(d)
      /\ Head(turn).call \notin Urgent => \A k \in DOMAIN d : d[k].call \notin Urgent
  BY <1>1, TailFits
<1> HIDE DEF d
<1>3. TurnFits(turn', typed, at) /\ (Flushes(d) => Flushes(turn'))
  BY <1>2, PushFits DEF d
<1>4. TurnFits(turn', typed, at')
  BY <1>3, ChangeFits
<1>5. seen.gen = at.gen
  BY <1>1, <1>2 DEF Told
<1>6. GatheredFit(turn', typed, at', pending')
  <2>1. CASE \A id \in ToSet(pending) : OfGen(typed, id, at.gen)
    BY <2>1 DEF GatheredFit
  <2>2. CASE Head(turn).call = "flushSequencer"
    BY <2>2 DEF GatheredFit, ToSet
  <2>3. CASE /\ Head(turn).call # "flushSequencer" /\ at.closed # "none"
             /\ at.status # "connected" \/ (at.closed # "link" /\ Flushes(turn))
    BY <1>2, <1>3, <2>3 DEF GatheredFit
  <2> QED  BY <1>1, <2>1, <2>2, <2>3 DEF GatheredFit
<1>7. KeysFit' <=>
        /\ typed' \in Seq(Input) /\ at' \in At /\ seen' \in Seen
        /\ pendingInputQueue' \in Seq(ViewEntry(typed'))
        /\ outbox' \in Seq(OutEntry(typed')) /\ onWire' \in Seq(WireEntry(typed'))
        /\ pending' \in Seq(Nat) /\ (pending' # <<>> => timer')
        /\ TurnFits(turn', typed', at') /\ Told(turn', seen', at')
        /\ GatheredFit(turn', typed', at', pending')
  BY DEF KeysFit, TurnFits, Told, GatheredFit, Shape, Closes, CallFits, OfGen, Calling, Flushes,
         ViewEntry, OutEntry, WireEntry
<1>8. typed \in Seq(Input) /\ seen \in Seen
  BY DEF KeysFit
<1> QED  BY <1>4, <1>5, <1>6, <1>7, <1>8 DEF Told

\* An event: the transport is not opened to characters of an earlier generation.
LEMMA EventFits ==
    ASSUME KeysFit, turn = <<>>, typed' = typed, seen' = seen, at' \in At, at'.gen = at.gen,
           TurnFits(turn', typed, at'),
           pendingInputQueue' \in Seq(ViewEntry(typed)), outbox' \in Seq(OutEntry(typed)),
           onWire' = onWire, pending' = pending, timer' = timer,
           \/ pending = <<>>
           \/ at.closed # "none" /\ at.status # "connected" =>
                 at'.closed # "none" /\ at'.status # "connected"
    PROVE  KeysFit'
<1>1. Told(<<>>, seen, at) /\ GatheredFit(<<>>, typed, at, pending)
  BY DEF KeysFit
<1>2. seen.gen = at.gen
  BY <1>1 DEF Told
<1>3. ~Flushes(<<>>)
  BY DEF Flushes
<1>4. \/ \A id \in ToSet(pending) : OfGen(typed, id, at.gen)
      \/ at.closed # "none" /\ at.status # "connected"
  BY <1>1, <1>3 DEF GatheredFit
<1>5. GatheredFit(turn', typed, at', pending)
  BY <1>4 DEF GatheredFit, ToSet
<1>6. /\ typed \in Seq(Input) /\ seen \in Seen /\ onWire \in Seq(WireEntry(typed))
      /\ pending \in Seq(Nat) /\ (pending # <<>> => timer)
  BY DEF KeysFit
<1> QED  BY <1>2, <1>5, <1>6 DEF KeysFit, Told

-----------------------------------------------------------------------------
(* The steps of a turn.                                                    *)

\* What the head of a turn carries fits, and the view knows the generation if it has been told.
LEMMA HeadFits ==
    ASSUME KeysFit, turn # <<>>
    PROVE  /\ Head(turn) = turn[1] /\ Head(turn) \in Calling(typed)
           /\ CallFits(Head(turn), typed, at)
           /\ Head(turn).call # "sync" => seen.gen = at.gen
<1>1. TurnFits(turn, typed, at) /\ Told(turn, seen, at)
  BY DEF KeysFit
<1>2. /\ Head(turn) = turn[1] /\ Head(turn) \in Calling(typed)
      /\ CallFits(Head(turn), typed, at)
  BY <1>1, TailFits
<1> QED  BY <1>1, <1>2 DEF Told

\* The characters that were gathered are delivered.
LEMMA Emitted ==
    ASSUME KeysFit
    PROVE  /\ EmitPending \in Seq(Calling(typed))
           /\ \A k \in DOMAIN EmitPending :
                 EmitPending[k].call = "deliver" /\ CallFits(EmitPending[k], typed, at)
<1>1. pending \in Seq(Nat) /\ GatheredFit(turn, typed, at, pending)
  BY DEF KeysFit
<1> DEFINE x == Emit(pending)
<1>2. x.call = "deliver" /\ x.ids = pending /\ x \in [call : {"deliver"}, ids : Seq(Nat)]
  BY <1>1 DEF Emit
<1>3. x \in Calling(typed)
  BY <1>2 DEF Calling
<1>4. CallFits(x, typed, at)
  BY <1>1, <1>2 DEF CallFits, GatheredFit
<1> HIDE DEF x
<1>5. EmitPending = <<>> \/ EmitPending = <<x>>
  BY DEF EmitPending, x
<1>6. CASE EmitPending = <<>>  BY <1>6
<1>7. CASE EmitPending = <<x>>  BY <1>2, <1>3, <1>4, <1>7
<1> QED  BY <1>5, <1>6, <1>7

LEMMA SubmitBoundaryFits == ASSUME KeysFit, SubmitBoundary PROVE KeysFit'
<1>1. turn # <<>> /\ Head(turn).call = "submit"
  BY DEF SubmitBoundary, Calls
<1> DEFINE id == Head(turn).id
           x == Emit(<<id>>)
           u == EmitPending \o <<x>>
<1>2. id \in Nat /\ OfGen(typed, id, at.gen)
  <2>1. Head(turn) \in Calling(typed) /\ CallFits(Head(turn), typed, at)
    BY <1>1, HeadFits
  <2> QED  BY <1>1, <2>1, CallParts DEF CallFits
<1>3. x \in Calling(typed) /\ x.call = "deliver" /\ CallFits(x, typed, at)
  <2> HIDE DEF id
  <2>1. x.call = "deliver" /\ x.ids = <<id>> /\ <<id>> \in Seq(Nat) /\ ToSet(<<id>>) = {id}
    BY <1>2 DEF Emit, ToSet
  <2>2. x \in [call : {"deliver"}, ids : Seq(Nat)]
    BY <2>1 DEF Emit
  <2> QED  BY <1>2, <2>1, <2>2 DEF Calling, CallFits
<1>4. /\ turn' = u \o Tail(turn) /\ pending' = <<>>
      /\ UNCHANGED <<typed, seen, at, pendingInputQueue, outbox, onWire>>
  BY DEF SubmitBoundary, Then, NothingPending, viewVars, outVars
<1> HIDE DEF x
<1>5. /\ u \in Seq(Calling(typed))
      /\ \A k \in DOMAIN u : u[k].call = "deliver" /\ CallFits(u[k], typed, at)
  <2>1. /\ EmitPending \in Seq(Calling(typed))
        /\ \A k \in DOMAIN EmitPending :
              EmitPending[k].call = "deliver" /\ CallFits(EmitPending[k], typed, at)
    BY Emitted
  <2>2. /\ <<x>> \in Seq(Calling(typed)) /\ Len(<<x>>) = 1 /\ <<x>>[1] = x
    BY <1>3
  <2>3. /\ u \in Seq(Calling(typed)) /\ Len(u) = Len(EmitPending) + 1
        /\ \A k \in 1 .. Len(EmitPending) : u[k] = EmitPending[k]
        /\ u[Len(EmitPending) + 1] = x
    BY <2>1, <2>2
  <2> HIDE DEF u
  <2> QED  BY <1>3, <2>1, <2>3
<1> HIDE DEF u
<1>6. /\ at \in At /\ pendingInputQueue \in Seq(ViewEntry(typed))
      /\ outbox \in Seq(OutEntry(typed)) /\ onWire \in Seq(WireEntry(typed))
  BY DEF KeysFit
<1>7. pending' \in Seq(Nat) /\ ToSet(pending') = {}
  BY <1>4 DEF ToSet
<1> QED  BY <1>1, <1>4, <1>5, <1>6, <1>7, GoesOn DEF Urgent

LEMMA SubmitCharacterFits == ASSUME KeysFit, SubmitCharacter PROVE KeysFit'
<1>1. turn # <<>> /\ Head(turn).call = "submit"
  BY DEF SubmitCharacter, Calls
<1> DEFINE id == Head(turn).id
<1>2. /\ id \in Nat /\ OfGen(typed, id, at.gen) /\ Head(turn) \in Calling(typed)
      /\ CallFits(Head(turn), typed, at)
  <2>1. Head(turn) \in Calling(typed) /\ CallFits(Head(turn), typed, at)
    BY <1>1, HeadFits
  <2> QED  BY <1>1, <2>1, CallParts DEF CallFits
<1>3. UNCHANGED <<typed, seen, at, pendingInputQueue, outbox, onWire>>
  BY DEF SubmitCharacter, viewVars, outVars
<1>4. /\ at \in At /\ pendingInputQueue \in Seq(ViewEntry(typed))
      /\ outbox \in Seq(OutEntry(typed)) /\ onWire \in Seq(WireEntry(typed))
      /\ pending \in Seq(Nat) /\ turn \in Seq(Calling(typed))
  BY DEF KeysFit, TurnFits
<1>5. CASE SpanIsFull
  <2> DEFINE x == Head(turn)
             u == EmitPending \o <<x>>
  <2>1. /\ EmitPending \in Seq(Calling(typed))
        /\ \A k \in DOMAIN EmitPending :
              EmitPending[k].call = "deliver" /\ CallFits(EmitPending[k], typed, at)
    BY Emitted
  <2>2. turn' = EmitPending \o turn /\ pending' = <<>>
    BY <1>5 DEF SubmitCharacter, NothingPending
  <2>3. /\ <<x>> \in Seq(Calling(typed)) /\ Len(<<x>>) = 1 /\ <<x>>[1] = x
        /\ Tail(turn) \in Seq(Calling(typed)) /\ turn = <<x>> \o Tail(turn)
    BY <1>1, <1>4
  <2>4. turn' = u \o Tail(turn)
    <3> HIDE DEF x
    <3> QED  BY <2>1, <2>2, <2>3, ConcatAssociative
  <2> HIDE DEF x
  <2>5. /\ u \in Seq(Calling(typed)) /\ Len(u) = Len(EmitPending) + 1
        /\ \A k \in 1 .. Len(EmitPending) : u[k] = EmitPending[k]
        /\ u[Len(EmitPending) + 1] = x
    BY <2>1, <2>3
  <2> HIDE DEF u
  <2>6. \A k \in DOMAIN u : u[k].call \in Urgent /\ CallFits(u[k], typed, at)
    <3>1. x.call \in Urgent /\ CallFits(x, typed, at)
      BY <1>1, <1>2 DEF x, Urgent
    <3> QED  BY <2>1, <2>5, <3>1 DEF Urgent
  <2>7. pending' \in Seq(Nat) /\ ToSet(pending') = {}
    BY <2>2 DEF ToSet
  <2> QED  BY <1>1, <1>3, <1>4, <2>2, <2>4, <2>5, <2>6, <2>7, GoesOn DEF Urgent
<1>6. CASE ~SpanIsFull
  <2>1. turn' = <<>> \o Tail(turn) /\ pending' = Append(pending, id) /\ timer' = TRUE
    BY <1>6 DEF SubmitCharacter, Then, scheduleFlush
  <2>2. pending' \in Seq(Nat) /\ \A i \in ToSet(pending') : i \in ToSet(pending) \/ i = id
    BY <1>2, <1>4, <2>1 DEF ToSet
  <2>3. <<>> \in Seq(Calling(typed)) /\ DOMAIN <<>> = {}
    OBVIOUS
  <2> HIDE DEF id
  <2> QED  BY <1>1, <1>2, <1>3, <1>4, <2>1, <2>2, <2>3, GoesOn
<1> QED  BY <1>5, <1>6

LEMMA FlushSequencerFits == ASSUME KeysFit, FlushSequencer PROVE KeysFit'
<1>1. turn # <<>> /\ Head(turn).call = "flushSequencer"
  BY DEF FlushSequencer, Calls
<1>2. /\ turn' = EmitPending \o Tail(turn) /\ pending' = <<>>
      /\ UNCHANGED <<typed, seen, at, pendingInputQueue, outbox, onWire>>
  BY DEF FlushSequencer, Then, NothingPending, viewVars, outVars
<1>3. /\ EmitPending \in Seq(Calling(typed))
      /\ \A k \in DOMAIN EmitPending :
            EmitPending[k].call = "deliver" /\ CallFits(EmitPending[k], typed, at)
  BY Emitted
<1>4. /\ at \in At /\ pendingInputQueue \in Seq(ViewEntry(typed))
      /\ outbox \in Seq(OutEntry(typed)) /\ onWire \in Seq(WireEntry(typed))
  BY DEF KeysFit
<1>5. pending' \in Seq(Nat) /\ ToSet(pending') = {}
  BY <1>2 DEF ToSet
<1> QED  BY <1>1, <1>2, <1>3, <1>4, <1>5, GoesOn DEF Urgent

\* What the socket refused or did not get changes no generation.
LEMMA ClassifiedFits ==
    ASSUME at \in At, NEW failure
    PROVE  /\ Classified(failure) \in At /\ Classified(failure).gen = at.gen
           /\ Classified(failure).closed = at.closed /\ Classified(failure).status = at.status
BY DEF Classified, At

LEMMA EnqueueFits ==
    ASSUME KeysFit, NEW ids \in Seq(Nat), \A id \in ToSet(ids) : OfGen(typed, id, at.gen),
           Enqueue(ids)
    PROVE  outbox' \in Seq(OutEntry(typed))
<1> DEFINE e == [ids |-> ids, gen |-> at.gen, late |-> FALSE]
           q == Append(outbox, e)
           sizes == [i \in DOMAIN q |-> Len(q[i].ids)]
           k == Dropped(sizes, transportOutboxMaxBytes)
<1>1. outbox \in Seq(OutEntry(typed)) /\ at.gen \in Nat
  BY DEF KeysFit, At
<1>2. e \in OutEntry(typed)
  BY <1>1 DEF OutEntry
<1>3. q \in Seq(OutEntry(typed)) /\ DOMAIN q = 1 .. Len(q) /\ Len(q) \in Nat
  <2> HIDE DEF e
  <2> QED  BY <1>1, <1>2
<1>4. outbox' = outbox \/ outbox' = SubSeq(q, k + 1, Len(q))
  BY DEF Enqueue
<1> HIDE DEF q
<1>5. Len(sizes) = Len(q)
  BY <1>3
<1> HIDE DEF sizes
<1>6. k \in 0 .. Len(q)
  <2>1. transportOutboxMaxBytes \in Nat
    BY BrowserAssumption
  <2> QED  BY <1>3, <1>5, <2>1, DropsSome
<1> HIDE DEF k
<1>7. SubSeq(q, k + 1, Len(q)) \in Seq(OutEntry(typed))
  <2>1. \A i \in k + 1 .. Len(q) : q[i] \in OutEntry(typed)
    BY <1>3, <1>6
  <2>2. k + 1 \in Int /\ Len(q) \in Int
    BY <1>3, <1>6
  <2> QED  BY <2>1, <2>2, SubSeqProperties
<1> QED  BY <1>1, <1>4, <1>7

LEMMA DeliverSentFits == ASSUME KeysFit, DeliverSent PROVE KeysFit'
<1>1. turn # <<>> /\ Head(turn).call = "deliver"
  BY DEF DeliverSent, Calls
<1>2. /\ turn' = <<>> \o Tail(turn)
      /\ onWire' = Append(onWire, [ids |-> Head(turn).ids, gen |-> at.gen])
      /\ UNCHANGED <<typed, seen, at, pendingInputQueue, outbox, pending, timer>>
      /\ at.closed = "none"
  BY DEF DeliverSent, Then, OnWire, viewVars, sequencerVars, CanSend
<1>3. Head(turn).ids \in Seq(Nat) /\ \A id \in ToSet(Head(turn).ids) : OfGen(typed, id, at.gen)
  <2>1. Head(turn) \in Calling(typed) /\ CallFits(Head(turn), typed, at)
    BY <1>1, HeadFits
  <2> QED  BY <1>1, <1>2, <2>1, CallParts DEF CallFits
<1>4. /\ at \in At /\ pendingInputQueue \in Seq(ViewEntry(typed))
      /\ outbox \in Seq(OutEntry(typed)) /\ onWire \in Seq(WireEntry(typed))
      /\ pending \in Seq(Nat) /\ (pending # <<>> => timer) /\ at.gen \in Nat
  BY DEF KeysFit, At
<1>5. onWire' \in Seq(WireEntry(typed))
  <2>1. [ids |-> Head(turn).ids, gen |-> at.gen] \in WireEntry(typed)
    BY <1>3, <1>4 DEF WireEntry
  <2> QED  BY <1>2, <1>4, <2>1
<1>6. <<>> \in Seq(Calling(typed)) /\ DOMAIN <<>> = {}
  OBVIOUS
<1> QED  BY <1>1, <1>2, <1>4, <1>5, <1>6, GoesOn

\* What cannot be sent is put in the outbox, or given up.
LEMMA KeptFits ==
    ASSUME KeysFit, turn # <<>>, Head(turn).call = "deliver", NEW failure,
           at' = Classified(failure),
           IF Queues(failure) THEN Enqueue(Head(turn).ids) ELSE outbox' = outbox,
           turn' = <<>> \o Tail(turn),
           UNCHANGED <<typed, seen, pendingInputQueue, onWire, pending, timer>>
    PROVE  KeysFit'
<1>1. /\ at \in At /\ pendingInputQueue \in Seq(ViewEntry(typed))
      /\ outbox \in Seq(OutEntry(typed)) /\ onWire \in Seq(WireEntry(typed))
      /\ pending \in Seq(Nat) /\ (pending # <<>> => timer)
  BY DEF KeysFit
<1>2. at' \in At /\ at'.gen = at.gen /\ at'.closed = at.closed /\ at'.status = at.status
  BY <1>1, ClassifiedFits
<1>3. outbox' \in Seq(OutEntry(typed))
  <2>1. CASE Queues(failure)
    <3>1. at.closed = "none"
      BY <2>1 DEF Queues
    <3>2. Head(turn) \in Calling(typed) /\ CallFits(Head(turn), typed, at)
      BY HeadFits
    <3>3. /\ Head(turn).ids \in Seq(Nat)
          /\ \A id \in ToSet(Head(turn).ids) : OfGen(typed, id, at.gen)
      BY <3>1, <3>2, CallParts DEF CallFits
    <3> QED  BY <2>1, <3>3, EnqueueFits
  <2>2. CASE ~Queues(failure)  BY <1>1, <2>2
  <2> QED  BY <2>1, <2>2
<1>4. <<>> \in Seq(Calling(typed)) /\ DOMAIN <<>> = {}
  OBVIOUS
<1> QED  BY <1>1, <1>2, <1>3, <1>4, GoesOn

LEMMA DeliverRefusedFits ==
    ASSUME KeysFit, NEW failure \in Failures, DeliverRefused(failure) PROVE KeysFit'
<1>1. turn # <<>> /\ Head(turn).call = "deliver"
  BY DEF DeliverRefused, Calls
<1>2. /\ at' = Classified(failure) /\ turn' = <<>> \o Tail(turn)
      /\ IF Queues(failure) THEN Enqueue(Head(turn).ids) ELSE outbox' = outbox
      /\ UNCHANGED <<typed, seen, pendingInputQueue, onWire, pending, timer>>
  BY DEF DeliverRefused, Then, viewVars, sequencerVars
<1> QED  BY <1>1, <1>2, KeptFits

LEMMA DeliverHeldFits == ASSUME KeysFit, DeliverHeld PROVE KeysFit'
<1>1. turn # <<>> /\ Head(turn).call = "deliver"
  BY DEF DeliverHeld, Calls
<1>2. /\ at' = Classified("none") /\ turn' = <<>> \o Tail(turn)
      /\ IF Queues("none") THEN Enqueue(Head(turn).ids) ELSE outbox' = outbox
      /\ UNCHANGED <<typed, seen, pendingInputQueue, onWire, pending, timer>>
  BY DEF DeliverHeld, Then, viewVars, sequencerVars
<1> QED  BY <1>1, <1>2, KeptFits

\* Going through the outbox, or what is left of it.
LEMMA FlushEntriesFit ==
    ASSUME NEW t, NEW a, NEW q \in Seq(OutEntry(t))
    PROVE  LET u == FlushEntries(q)
           IN  /\ u \in Seq(Calling(t))
               /\ \A k \in DOMAIN u : CallFits(u[k], t, a) /\ u[k].call # "markClosed"
               /\ \/ \A k \in DOMAIN u : u[k].call \in Urgent
                  \/ Len(u) = 1 /\ u[1].call \notin Urgent
<1> DEFINE x == [call |-> "flushEntries", entries |-> q]
<1>1. CASE q = <<>>
  <2>1. FlushEntries(q) = <<>>
    BY <1>1 DEF FlushEntries
  <2> QED  BY <2>1
<1>2. CASE q # <<>>
  <2>1. x.call = "flushEntries" /\ x \in Calling(t)
    BY <1>2 DEF Calling
  <2>2. CallFits(x, t, a)
    BY <2>1 DEF CallFits
  <2>3. FlushEntries(q) = <<x>>
    BY <1>2 DEF FlushEntries
  <2> HIDE DEF x
  <2> QED  BY <2>1, <2>2, <2>3 DEF Urgent
<1> QED  BY <1>1, <1>2

LEMMA RejectOutboxFits == ASSUME KeysFit, RejectOutbox PROVE KeysFit'
<1>1. turn # <<>> /\ Head(turn).call = "rejectOutbox"
  BY DEF RejectOutbox, Calls
<1>2. /\ turn' = <<>> \o Tail(turn) /\ outbox' = <<>>
      /\ UNCHANGED <<typed, seen, at, pendingInputQueue, onWire, pending, timer>>
  BY DEF RejectOutbox, Then, viewVars, sequencerVars
<1>3. /\ at \in At /\ pendingInputQueue \in Seq(ViewEntry(typed))
      /\ onWire \in Seq(WireEntry(typed))
      /\ pending \in Seq(Nat) /\ (pending # <<>> => timer)
      /\ outbox' \in Seq(OutEntry(typed))
  BY <1>2 DEF KeysFit
<1>4. <<>> \in Seq(Calling(typed)) /\ DOMAIN <<>> = {}
  OBVIOUS
<1> QED  BY <1>1, <1>2, <1>3, <1>4, GoesOn

LEMMA FlushOutboxFits == ASSUME KeysFit, FlushOutbox PROVE KeysFit'
<1>1. turn # <<>> /\ Head(turn).call = "flushOutbox"
  BY DEF FlushOutbox, Calls
<1>2. UNCHANGED <<typed, seen, pendingInputQueue, onWire, pending, timer>>
  BY DEF FlushOutbox, viewVars, sequencerVars
<1>3. /\ at \in At /\ pendingInputQueue \in Seq(ViewEntry(typed))
      /\ outbox \in Seq(OutEntry(typed)) /\ onWire \in Seq(WireEntry(typed))
      /\ pending \in Seq(Nat) /\ (pending # <<>> => timer) /\ <<>> \in Seq(OutEntry(typed))
  BY DEF KeysFit
<1>4. CASE turn' = FlushEntries(outbox) \o Tail(turn) /\ outbox' = <<>> /\ at' = at
  <2> DEFINE u == FlushEntries(outbox)
  <2>1. /\ u \in Seq(Calling(typed))
        /\ \A k \in DOMAIN u : CallFits(u[k], typed, at) /\ u[k].call # "markClosed"
        /\ \/ \A k \in DOMAIN u : u[k].call \in Urgent
           \/ Len(u) = 1 /\ u[1].call \notin Urgent
    BY <1>3, FlushEntriesFit
  <2>2. Head(turn).call \notin Urgent
    BY <1>1 DEF Urgent
  <2> HIDE DEF u
  <2>3. turn' = u \o Tail(turn)
    BY <1>4 DEF u
  <2> QED  BY <1>1, <1>2, <1>3, <1>4, <2>1, <2>2, <2>3, GoesOn
<1>5. CASE /\ at' = Classified("none") /\ turn' = <<>> \o Tail(turn)
           /\ outbox' = outbox \/ outbox' = <<>>
  <2>1. at' \in At /\ at'.gen = at.gen /\ at'.closed = at.closed /\ at'.status = at.status
    BY <1>3, <1>5, ClassifiedFits
  <2>2. <<>> \in Seq(Calling(typed)) /\ DOMAIN <<>> = {}
    OBVIOUS
  <2> QED  BY <1>1, <1>2, <1>3, <1>5, <2>1, <2>2, GoesOn
<1> QED  BY <1>4, <1>5 DEF FlushOutbox, Then

\* What is under way of the outbox.
LEMMA FlushedFits ==
    ASSUME KeysFit, turn # <<>>, Head(turn).call = "flushEntries"
    PROVE  /\ Head(turn).entries \in Seq(OutEntry(typed)) /\ Flushed \in OutEntry(typed)
           /\ Tail(Head(turn).entries) \in Seq(OutEntry(typed))
<1>1. Head(turn).entries \in Seq(OutEntry(typed)) /\ Head(turn).entries # <<>>
  BY HeadFits, CallParts
<1> QED  BY <1>1 DEF Flushed

\* An entry is done with, and the rest of the outbox goes on.
LEMMA FlushGoesOn ==
    ASSUME KeysFit, turn # <<>>, Head(turn).call = "flushEntries",
           turn' = FlushRest \o Tail(turn), onWire' \in Seq(WireEntry(typed)),
           UNCHANGED <<typed, seen, pendingInputQueue, pending, timer, at, outbox>>
    PROVE  KeysFit'
<1>1. /\ at \in At /\ pendingInputQueue \in Seq(ViewEntry(typed))
      /\ outbox \in Seq(OutEntry(typed))
      /\ pending \in Seq(Nat) /\ (pending # <<>> => timer)
  BY DEF KeysFit
<1> DEFINE u == FlushRest
<1>2. /\ u \in Seq(Calling(typed))
      /\ \A k \in DOMAIN u : CallFits(u[k], typed, at) /\ u[k].call # "markClosed"
      /\ \/ \A k \in DOMAIN u : u[k].call \in Urgent
         \/ Len(u) = 1 /\ u[1].call \notin Urgent
  BY FlushedFits, FlushEntriesFit DEF FlushRest
<1>3. Head(turn).call \notin Urgent
  BY DEF Urgent
<1> HIDE DEF u
<1>4. turn' = u \o Tail(turn)
  BY DEF u
<1> QED  BY <1>1, <1>2, <1>3, <1>4, GoesOn

LEMMA FlushDropsFits == ASSUME KeysFit, FlushDrops PROVE KeysFit'
<1>1. turn # <<>> /\ Head(turn).call = "flushEntries"
  BY DEF FlushDrops, Calls
<1>2. /\ turn' = FlushRest \o Tail(turn)
      /\ UNCHANGED <<typed, seen, pendingInputQueue, pending, timer, at, outbox, onWire>>
  BY DEF FlushDrops, Then, viewVars, sequencerVars
<1>3. onWire' \in Seq(WireEntry(typed))
  BY <1>2 DEF KeysFit
<1> QED  BY <1>1, <1>2, <1>3, FlushGoesOn

LEMMA FlushSendsFits == ASSUME KeysFit, FlushSends PROVE KeysFit'
<1>1. turn # <<>> /\ Head(turn).call = "flushEntries"
  BY DEF FlushSends, Calls
<1>2. /\ turn' = FlushRest \o Tail(turn) /\ Flushed.gen = at.gen
      /\ onWire' = Append(onWire, [ids |-> Flushed.ids, gen |-> at.gen])
      /\ UNCHANGED <<typed, seen, pendingInputQueue, pending, timer, at, outbox>>
  BY DEF FlushSends, Then, OnWire, StillValid, viewVars, sequencerVars
<1>3. onWire' \in Seq(WireEntry(typed))
  <2>1. Flushed \in OutEntry(typed) /\ onWire \in Seq(WireEntry(typed))
    BY <1>1, FlushedFits DEF KeysFit
  <2>2. [ids |-> Flushed.ids, gen |-> at.gen] \in WireEntry(typed)
    BY <1>2, <2>1 DEF OutEntry, WireEntry
  <2> QED  BY <1>2, <2>1, <2>2
<1> QED  BY <1>1, <1>2, <1>3, FlushGoesOn

LEMMA FlushRefusedFits ==
    ASSUME KeysFit, NEW failure \in Failures, FlushRefused(failure) PROVE KeysFit'
<1>1. turn # <<>> /\ Head(turn).call = "flushEntries"
  BY DEF FlushRefused, Calls
<1>2. /\ at' = Classified(failure) /\ turn' = <<>> \o Tail(turn)
      /\ outbox' = restored \/ outbox' = outbox
      /\ UNCHANGED <<typed, seen, pendingInputQueue, onWire, pending, timer>>
  BY DEF FlushRefused, Then, viewVars, sequencerVars
<1>3. /\ at \in At /\ pendingInputQueue \in Seq(ViewEntry(typed))
      /\ outbox \in Seq(OutEntry(typed)) /\ onWire \in Seq(WireEntry(typed))
      /\ pending \in Seq(Nat) /\ (pending # <<>> => timer)
  BY DEF KeysFit
<1>4. at' \in At /\ at'.gen = at.gen /\ at'.closed = at.closed /\ at'.status = at.status
  BY <1>2, <1>3, ClassifiedFits
<1>5. outbox' \in Seq(OutEntry(typed))
  <2>1. restored \in Seq(OutEntry(typed))
    <3>1. Head(turn).entries \in Seq(OutEntry(typed))
      BY <1>1, FlushedFits
    <3> QED  BY <1>3, <3>1, ConcatProperties DEF restored
  <2> QED  BY <1>2, <1>3, <2>1
<1>6. <<>> \in Seq(Calling(typed)) /\ DOMAIN <<>> = {}
  OBVIOUS
<1> QED  BY <1>1, <1>2, <1>3, <1>4, <1>5, <1>6, GoesOn

\* The inputs that were typed in the generation at hand go on, in their order.
LEMMA SyncGateFits == ASSUME KeysFit, SyncGate PROVE KeysFit'
<1>1. turn # <<>> /\ Head(turn).call = "gate"
  BY DEF SyncGate, Calls
<1>2. UNCHANGED <<typed, seen, at, outbox, onWire, pending, timer>>
  BY DEF SyncGate, sequencerVars
<1>3. /\ at \in At /\ pendingInputQueue \in Seq(ViewEntry(typed))
      /\ outbox \in Seq(OutEntry(typed)) /\ onWire \in Seq(WireEntry(typed))
      /\ pending \in Seq(Nat) /\ (pending # <<>> => timer)
  BY DEF KeysFit
<1>4. <<>> \in Seq(Calling(typed)) /\ DOMAIN <<>> = {} /\ <<>> \in Seq(ViewEntry(typed))
  OBVIOUS
<1>5. CASE Capture = "blocked"
  <2>1. turn' = <<>> \o Tail(turn) /\ pendingInputQueue' = pendingInputQueue
    BY <1>5 DEF SyncGate, Then
  <2> QED  BY <1>1, <1>2, <1>3, <1>4, <2>1, GoesOn
<1>6. CASE Capture # "blocked"
  <2> DEFINE kept == IF Capture = "open" THEN Pick(pendingInputQueue, HeldStillValid) ELSE <<>>
             u == [i \in DOMAIN kept |-> [call |-> "submit", id |-> kept[i].id]]
  <2>1. turn' = u \o Tail(turn) /\ pendingInputQueue' = <<>>
    BY <1>6 DEF SyncGate, Then
  <2>2. /\ kept \in Seq(ViewEntry(typed))
        /\ \A n \in DOMAIN kept : kept[n].gen = at.gen
    <3>1. seen.gen = at.gen
      BY <1>1, HeadFits
    <3>2. /\ Pick(pendingInputQueue, HeldStillValid) \in Seq(ViewEntry(typed))
          /\ \A n \in DOMAIN Pick(pendingInputQueue, HeldStillValid) :
                \E i \in HeldStillValid :
                   Pick(pendingInputQueue, HeldStillValid)[n] = pendingInputQueue[i]
      <4>1. HeldStillValid \in SUBSET DOMAIN pendingInputQueue
        BY DEF HeldStillValid
      <4> QED  BY <1>3, <4>1, Picked
    <3>3. \A i \in HeldStillValid : pendingInputQueue[i].gen = at.gen
      BY <3>1 DEF HeldStillValid
    <3>4. CASE Capture = "open"  BY <3>2, <3>3, <3>4
    <3>5. CASE Capture # "open"  BY <1>4, <3>5
    <3> QED  BY <3>4, <3>5
  <2> HIDE DEF kept
  <2>3. \A i \in DOMAIN kept :
          LET x == [call |-> "submit", id |-> kept[i].id]
          IN  /\ x \in Calling(typed) /\ x.call = "submit"
              /\ CallFits(x, typed, at)
    <3> TAKE i \in DOMAIN kept
    <3> DEFINE x == [call |-> "submit", id |-> kept[i].id]
    <3>1. kept[i] \in ViewEntry(typed) /\ kept[i].gen = at.gen
      BY <2>2
    <3>2. x.call = "submit" /\ x.id = kept[i].id /\ x \in [call : {"submit"}, id : Nat]
      BY <3>1 DEF ViewEntry
    <3>3. OfGen(typed, x.id, at.gen)
      BY <3>1, <3>2 DEF ViewEntry
    <3> HIDE DEF x
    <3>4. x \in Calling(typed) /\ x.call = "submit" /\ CallFits(x, typed, at)
      BY <3>2, <3>3 DEF Calling, CallFits
    <3> QED  BY <3>4 DEF x
  <2>4. /\ u \in Seq(Calling(typed))
        /\ \A k \in DOMAIN u : u[k].call \in Urgent /\ u[k].call # "markClosed"
                               /\ CallFits(u[k], typed, at)
    <3>1. DOMAIN kept = 1 .. Len(kept) /\ Len(kept) \in Nat
      BY <2>2
    <3>2. u \in Seq(Calling(typed)) /\ DOMAIN u = DOMAIN kept
      BY <2>3, <3>1
    <3>3. \A k \in DOMAIN u : u[k] = [call |-> "submit", id |-> kept[k].id]
      OBVIOUS
    <3> HIDE DEF u
    <3> QED  BY <2>3, <3>2, <3>3 DEF Urgent
  <2> HIDE DEF u
  <2> QED  BY <1>1, <1>2, <1>3, <1>4, <2>1, <2>4, GoesOn
<1> QED  BY <1>5, <1>6

\* The view is told what the transport is now.
LEMMA SyncTransportFits == ASSUME KeysFit, SyncTransport PROVE KeysFit'
<1>1. turn # <<>> /\ Head(turn).call = "sync"
  BY DEF SyncTransport, Calls
<1> DEFINE over == at.status = "reconnecting" /\ at.reconnect = "over"
           ends == at.closed = "none" /\ (at.status = "disconnected" \/ over)
<1>2. /\ at \in At /\ seen \in Seen /\ typed \in Seq(Input)
      /\ pendingInputQueue \in Seq(ViewEntry(typed))
      /\ outbox \in Seq(OutEntry(typed)) /\ onWire \in Seq(WireEntry(typed))
      /\ pending \in Seq(Nat) /\ (pending # <<>> => timer)
      /\ TurnFits(turn, typed, at) /\ GatheredFit(turn, typed, at, pending)
  BY DEF KeysFit
<1>3. /\ UNCHANGED <<typed, pendingInputQueue, outbox, onWire, pending, timer>>
      /\ turn' = <<Call("gate")>> \o Tail(turn)
  BY DEF SyncTransport, sequencerVars, outVars, Then
<1>4. /\ at' \in At /\ seen' \in Seen /\ seen'.gen = at'.gen /\ at'.status = at.status
      /\ at'.gen = IF ends THEN at.gen + 1 ELSE at.gen
      /\ at'.closed = CASE ends -> "link"
                       [] at.status = "connected" /\ at.closed = "link" -> "none"
                       [] OTHER -> at.closed
  <2> DEFINE closed == CASE ends -> "link"
                         [] at.status = "connected" /\ at.closed = "link" -> "none"
                         [] OTHER -> at.closed
             gen == IF ends THEN at.gen + 1 ELSE at.gen
             reconnect == CASE at.status = "connected" -> "none"
                            [] at.status = "reconnecting" /\ at.closed = "none"
                               /\ at.reconnect = "none" -> "short"
                            [] OTHER -> at.reconnect
             now == [at EXCEPT !.closed = closed, !.gen = gen, !.reconnect = reconnect]
  <2>1. /\ at' = now
        /\ seen' = [ready |-> now.ready /\ now.status = "connected" /\ ~now.recovering,
                    closed |-> now.closed, gen |-> now.gen]
    BY <1>2 DEF SyncTransport, At
  <2>2. closed \in {"none"} \cup Reasons /\ gen \in Nat
    BY <1>2 DEF At, Reasons
  <2>3. reconnect \in {"none", "short", "over"}
    BY <1>2 DEF At
  <2> HIDE DEF closed, gen, reconnect
  <2>4. now \in At /\ now.closed = closed /\ now.gen = gen /\ now.status = at.status
    BY <1>2, <2>2, <2>3 DEF At
  <2> HIDE DEF now
  <2>5. seen' \in Seen /\ seen'.gen = now.gen
    BY <2>1, <2>4 DEF At, Seen
  <2> QED  BY <2>1, <2>4, <2>5 DEF closed, gen
<1> DEFINE d == Tail(turn)
           x == Call("gate")
<1>5. /\ TurnFits(d, typed, at) /\ NoGate(d) /\ \A k \in DOMAIN d : d[k].call \notin Urgent
      /\ Flushes(turn) => Flushes(d)
  BY <1>1, <1>2, TailFits DEF Urgent
<1>6. x.call = "gate" /\ x \in [call : Plain]
  BY DEF Call, Plain
<1> HIDE DEF d, x
<1>7. TurnFits(d, typed, at')
  BY <1>4, <1>5, ChangeFits
<1>8. TurnFits(turn', typed, at') /\ (Flushes(d) => Flushes(turn'))
  <2>1. x \in Calling(typed) /\ CallFits(x, typed, at')
    BY <1>6 DEF Calling, CallFits
  <2>2. /\ <<x>> \in Seq(Calling(typed)) /\ DOMAIN <<x>> = {1} /\ <<x>>[1] = x /\ Len(<<x>>) = 1
    BY <2>1
  <2>3. turn' = <<x>> \o d
    BY <1>3 DEF x, d
  <2> QED  BY <1>5, <1>6, <1>7, <2>1, <2>2, <2>3, PushFits DEF Urgent
<1>9. GatheredFit(turn', typed, at', pending)
  <2>1. CASE \A id \in ToSet(pending) : OfGen(typed, id, at.gen)
    <3>1. CASE ends
      <4>1. at'.closed = "link" /\ at'.status # "connected"
        BY <1>4, <3>1
      <4> QED  BY <4>1 DEF GatheredFit
    <3>2. CASE ~ends  BY <1>4, <2>1, <3>2 DEF GatheredFit
    <3> QED  BY <3>1, <3>2
  <2>2. CASE /\ at.closed # "none"
             /\ at.status # "connected" \/ (at.closed # "link" /\ Flushes(turn))
    BY <1>4, <1>5, <1>8, <2>2 DEF GatheredFit
  <2> QED  BY <1>2, <2>1, <2>2 DEF GatheredFit
<1> QED  BY <1>2, <1>3, <1>4, <1>8, <1>9 DEF KeysFit, Told

\* The transport is closed: what was gathered is given up later in the turn.
LEMMA MarkClosedFits == ASSUME KeysFit, MarkClosed PROVE KeysFit'
<1>1. turn # <<>> /\ Head(turn).call = "markClosed"
  BY DEF MarkClosed, Calls
<1> DEFINE reason == Head(turn).reason
           d == Tail(turn)
<1>2. /\ at \in At /\ seen \in Seen /\ typed \in Seq(Input)
      /\ pendingInputQueue \in Seq(ViewEntry(typed))
      /\ outbox \in Seq(OutEntry(typed)) /\ onWire \in Seq(WireEntry(typed))
      /\ pending \in Seq(Nat) /\ (pending # <<>> => timer)
      /\ TurnFits(turn, typed, at) /\ GatheredFit(turn, typed, at, pending)
  BY DEF KeysFit
<1>3. reason \in Reasons /\ (reason = "link" => at.status # "connected")
  <2>1. Head(turn) \in Calling(typed) /\ CallFits(Head(turn), typed, at)
    BY <1>1, HeadFits
  <2> QED  BY <1>1, <2>1, CallParts DEF CallFits
<1>4. /\ TurnFits(d, typed, at) /\ \A k \in DOMAIN d : d[k].call \notin Urgent
      /\ Flushes(d) /\ d # <<>> /\ d[1].call = "sync"
  BY <1>1, <1>2, TailFits DEF Urgent
<1> HIDE DEF d
<1>5. /\ UNCHANGED <<typed, seen, pendingInputQueue, outbox, onWire, pending, timer>>
      /\ turn' = d
  <2>1. turn' = <<>> \o d
    BY DEF MarkClosed, Then, d
  <2>2. d \in Seq(Calling(typed))
    BY <1>4 DEF TurnFits
  <2>3. UNCHANGED <<typed, seen, pendingInputQueue, outbox, onWire, pending, timer>>
    BY DEF MarkClosed, viewVars, sequencerVars, outVars
  <2> QED  BY <2>1, <2>2, <2>3
<1>6. at' = at \/ at' = [at EXCEPT !.closed = reason, !.gen = @ + 1]
  BY DEF MarkClosed
<1>7. at' \in At /\ at'.status = at.status
  <2>1. CASE at' = at  BY <1>2, <2>1
  <2>2. CASE at' = [at EXCEPT !.closed = reason, !.gen = @ + 1]
    <3> HIDE DEF reason
    <3>1. at.gen + 1 \in Nat /\ reason \in {"none"} \cup Reasons
      BY <1>2, <1>3 DEF At
    <3> QED  BY <1>2, <2>2, <3>1 DEF At
  <2> QED  BY <1>6, <2>1, <2>2
<1>8. TurnFits(d, typed, at')
  BY <1>4, <1>7, ChangeFits
<1>9. GatheredFit(d, typed, at', pending)
  <2>1. CASE at' = at  BY <1>2, <1>4, <2>1 DEF GatheredFit
  <2>2. CASE at' = [at EXCEPT !.closed = reason, !.gen = @ + 1]
    <3>1. at'.closed = reason /\ reason # "none"
      BY <1>2, <1>3, <2>2 DEF At, Reasons
    <3> HIDE DEF reason
    <3> QED  BY <1>3, <1>4, <1>7, <3>1 DEF GatheredFit
  <2> QED  BY <1>6, <2>1, <2>2
<1> QED  BY <1>2, <1>4, <1>5, <1>7, <1>8, <1>9 DEF KeysFit, Told

LEMMA TurnStepFits == ASSUME KeysFit, TurnStep PROVE KeysFit'
BY SyncTransportFits, SyncGateFits, SubmitBoundaryFits, SubmitCharacterFits, FlushSequencerFits,
   DeliverSentFits, DeliverHeldFits, DeliverRefusedFits, RejectOutboxFits, FlushOutboxFits,
   FlushDropsFits, FlushSendsFits, FlushRefusedFits, MarkClosedFits DEF TurnStep

-----------------------------------------------------------------------------
(* The events.                                                             *)

\* Calls without inputs.
LEMMA PlainFits ==
    ASSUME NEW t, NEW a, NEW c \in Seq([call : Plain]),
           \A k \in DOMAIN c : c[k].call = "gate" => k = 1
    PROVE  TurnFits(c, t, a)
<1>1. DOMAIN c = 1 .. Len(c) /\ Len(c) \in Nat
  OBVIOUS
<1>2. \A k \in DOMAIN c : c[k] \in [call : Plain] /\ c[k] \in Calling(t) /\ c[k].call \in Plain
  <2> TAKE k \in DOMAIN c
  <2>1. c[k] \in [call : Plain]
    BY <1>1, ElementOfSeq
  <2>2. c[k].call \in Plain
    BY <2>1
  <2> QED  BY <2>1, <2>2 DEF Calling
<1>3. c \in Seq(Calling(t))
  BY <1>2
<1>4. \A k \in DOMAIN c : c[k].call \notin Urgent /\ c[k].call # "markClosed"
  BY <1>2 DEF Plain, Urgent
<1>5. Shape(c)
  BY <1>4 DEF Shape, Closes
<1>6. \A k \in DOMAIN c : CallFits(c[k], t, a)
  BY <1>4 DEF CallFits, Urgent
<1> QED  BY <1>3, <1>5, <1>6 DEF TurnFits

\* Calls that close the transport, tell the view and flush the sequencer.
LEMMA ClosingShape ==
    ASSUME NEW t, NEW a, NEW r \in Reasons, r = "link" => a.status # "connected",
           NEW n \in Nat, NEW c, DOMAIN c = 1 .. n, Len(c) = n, c \in Seq(Calling(t)),
           NEW m \in 1 .. n, m + 1 \in 1 .. n, m + 2 \in 1 .. n,
           c[m] = Close(r), c[m + 1].call = "sync", c[m + 2].call = "flushSequencer",
           \A k \in 1 .. n : k # m => c[k].call \in Plain \ {"gate"}
    PROVE  TurnFits(c, t, a)
<1>1. c[m].call = "markClosed" /\ c[m].reason = r
  BY DEF Close
<1>2. \A k \in DOMAIN c : c[k].call \notin Urgent /\ c[k].call # "gate"
  BY <1>1 DEF Plain, Urgent
<1>3. \A k \in DOMAIN c : c[k].call = "markClosed" => k = m
  BY DEF Plain
<1>4. m + 2 > m
  OBVIOUS
<1>5. Closes(c)
  <2> SUFFICES ASSUME NEW k \in DOMAIN c, c[k].call = "markClosed"
               PROVE  /\ k + 1 \in DOMAIN c /\ c[k + 1].call = "sync"
                      /\ \E j \in DOMAIN c : j > k /\ c[j].call = "flushSequencer"
    BY DEF Closes
  <2>1. k = m
    BY <1>3
  <2> QED  BY <1>4, <2>1
<1>6. Shape(c)
  BY <1>2, <1>5 DEF Shape
<1>7. \A k \in DOMAIN c : CallFits(c[k], t, a)
  BY <1>1, <1>2, <1>3 DEF CallFits, Urgent
<1> QED  BY <1>6, <1>7 DEF TurnFits

\* A turn that is joined from shorter sequences.
LEMMA Joined ==
    ASSUME NEW X, NEW x \in X, NEW p \in X, NEW q \in X, NEW v \in X, NEW w \in X
    PROVE  LET c == (<<x, p>> \o <<q, v>>) \o <<w>>
               d == <<p>> \o ((<<x, p>> \o <<q, v>>) \o <<w>>)
           IN  /\ c \in Seq(X) /\ Len(c) = 5
               /\ c[1] = x /\ c[2] = p /\ c[3] = q /\ c[4] = v /\ c[5] = w
               /\ d \in Seq(X) /\ Len(d) = 6
               /\ d[1] = p /\ d[2] = x /\ d[3] = p /\ d[4] = q /\ d[5] = v /\ d[6] = w
OBVIOUS

LEMMA ClosingFits ==
    ASSUME NEW t, NEW a, NEW r \in Reasons, r = "link" => a.status # "connected"
    PROVE  TurnFits(Closing(r), t, a) /\ TurnFits(<<Call("sync")>> \o Closing(r), t, a)
<1> DEFINE p == Call("sync")
           q == Call("flushSequencer")
           v == Call("flushOutbox")
           w == Call("rejectOutbox")
           x == Close(r)
<1>1. /\ p.call = "sync" /\ q.call = "flushSequencer" /\ v.call = "flushOutbox"
      /\ w.call = "rejectOutbox"
      /\ {p, q, v, w, x} \subseteq Calling(t)
  BY DEF Call, Close, Calling, Plain
<1>2. {p.call, q.call, v.call, w.call} \subseteq Plain \ {"gate"}
  BY <1>1 DEF Plain
<1>3. Closing(r) = (<<x, p>> \o <<q, v>>) \o <<w>>
  BY DEF Closing, flushTransportPipeline
<1> DEFINE c == Closing(r)
           d == <<p>> \o c
<1> HIDE DEF p, q, v, w, x
<1>4. /\ c \in Seq(Calling(t)) /\ Len(c) = 5
      /\ c[1] = x /\ c[2] = p /\ c[3] = q /\ c[4] = v /\ c[5] = w
      /\ d \in Seq(Calling(t)) /\ Len(d) = 6
      /\ d[1] = p /\ d[2] = x /\ d[3] = p /\ d[4] = q /\ d[5] = v /\ d[6] = w
  <2>1. {p, q, v, w, x} \subseteq Calling(t)
    BY <1>1
  <2> QED  BY <1>3, <2>1, Joined
<1> HIDE DEF c, d
<1>5. TurnFits(c, t, a)
  <2>1. DOMAIN c = 1 .. 5
    BY <1>4
  <2>2. \A k \in 1 .. 5 : k # 1 => c[k].call \in Plain \ {"gate"}
    BY <1>2, <1>4
  <2>3. 5 \in Nat /\ 1 \in 1 .. 5 /\ 1 + 1 = 2 /\ 1 + 2 = 3 /\ 2 \in 1 .. 5 /\ 3 \in 1 .. 5
    OBVIOUS
  <2>4. c[1] = Close(r) /\ c[1 + 1].call = "sync" /\ c[1 + 2].call = "flushSequencer"
    BY <1>1, <1>4, <2>3 DEF x
  <2> QED  BY <1>4, <2>1, <2>2, <2>3, <2>4, ClosingShape
<1>6. TurnFits(d, t, a)
  <2>1. DOMAIN d = 1 .. 6
    BY <1>4
  <2>2. \A k \in 1 .. 6 : k # 2 => d[k].call \in Plain \ {"gate"}
    BY <1>2, <1>4
  <2>3. 6 \in Nat /\ 2 \in 1 .. 6 /\ 2 + 1 = 3 /\ 2 + 2 = 4 /\ 3 \in 1 .. 6 /\ 4 \in 1 .. 6
    OBVIOUS
  <2>4. d[2] = Close(r) /\ d[2 + 1].call = "sync" /\ d[2 + 2].call = "flushSequencer"
    BY <1>1, <1>4, <2>3 DEF x
  <2> QED  BY <1>4, <2>1, <2>2, <2>3, <2>4, ClosingShape
<1> QED  BY <1>5, <1>6 DEF c, d, p

LEMMA TurnsFit ==
    ASSUME NEW t, NEW a
    PROVE  /\ TurnFits(<<>>, t, a) /\ TurnFits(<<Call("sync")>>, t, a)
           /\ TurnFits(<<Call("gate")>>, t, a) /\ TurnFits(<<Call("flushOutbox")>>, t, a)
           /\ TurnFits(<<Call("sync"), Call("flushOutbox")>>, t, a)
           /\ TurnFits(<<Call("sync")>> \o flushTransportPipeline, t, a)
           /\ TurnFits(<<Call("sync")>> \o <<>>, t, a)
<1> DEFINE p == Call("sync")
           q == Call("flushSequencer")
           v == Call("flushOutbox")
           g == Call("gate")
<1>1. {p, q, v, g} \subseteq [call : Plain]
  BY DEF Call, Plain
<1>2. p.call # "gate" /\ q.call # "gate" /\ v.call # "gate"
  BY DEF Call
<1>3. flushTransportPipeline = <<q, v>>
  BY DEF flushTransportPipeline
<1> HIDE DEF p, q, v, g
<1>4. TurnFits(<<>>, t, a)
  <2>1. <<>> \in Seq([call : Plain]) /\ DOMAIN <<>> = {}
    OBVIOUS
  <2> QED  BY <2>1, PlainFits
<1>5. TurnFits(<<p>>, t, a) /\ TurnFits(<<g>>, t, a) /\ TurnFits(<<v>>, t, a)
  <2>1. \A x \in [call : Plain] : TurnFits(<<x>>, t, a)
    <3> TAKE x \in [call : Plain]
    <3>1. <<x>> \in Seq([call : Plain]) /\ DOMAIN <<x>> = {1}
      OBVIOUS
    <3> QED  BY <3>1, PlainFits
  <2> QED  BY <1>1, <2>1
<1>6. TurnFits(<<p, v>>, t, a)
  <2>1. <<p, v>> \in Seq([call : Plain]) /\ DOMAIN <<p, v>> = {1, 2}
    BY <1>1
  <2>2. \A k \in DOMAIN <<p, v>> : <<p, v>>[k].call # "gate"
    BY <1>2, <2>1
  <2> QED  BY <2>1, <2>2, PlainFits
<1>7. TurnFits(<<p>> \o <<q, v>>, t, a)
  <2> DEFINE c == <<p>> \o <<q, v>>
  <2>1. <<p>> \in Seq([call : Plain]) /\ <<q, v>> \in Seq([call : Plain])
    BY <1>1
  <2>2. c \in Seq([call : Plain]) /\ DOMAIN c = 1 .. 3 /\ c[1] = p /\ c[2] = q /\ c[3] = v
    BY <2>1
  <2> HIDE DEF c
  <2>3. \A k \in DOMAIN c : c[k].call # "gate"
    BY <1>2, <2>2
  <2>4. TurnFits(c, t, a)
    BY <2>2, <2>3, PlainFits
  <2> QED  BY <2>4 DEF c
<1>8. <<p>> \o <<>> = <<p>>
  OBVIOUS
<1> QED  BY <1>3, <1>4, <1>5, <1>6, <1>7, <1>8 DEF p, v, g

\* Inputs that go on, and nothing else.
LEMMA UrgentFits ==
    ASSUME NEW t, NEW a, NEW u \in Seq(Calling(t)),
           \A k \in DOMAIN u : u[k].call \in Urgent /\ CallFits(u[k], t, a)
    PROVE  TurnFits(u, t, a) /\ ~Flushes(u)
<1>1. \A k \in DOMAIN u : u[k].call \notin {"gate", "markClosed", "flushSequencer"}
  BY DEF Urgent
<1>2. Shape(u)
  BY <1>1 DEF Shape, Closes
<1> QED  BY <1>1, <1>2 DEF TurnFits, Flushes

\* An event that changes the transport and makes calls.
LEMMA TransportFits ==
    ASSUME KeysFit, turn = <<>>, at' \in At, at'.gen = at.gen, TurnFits(turn', typed, at'),
           UNCHANGED <<typed, pendingInputQueue, seen, pending, timer, outbox, onWire>>,
           \/ pending = <<>>
           \/ at.closed # "none" /\ at.status # "connected" =>
                 at'.closed # "none" /\ at'.status # "connected"
    PROVE  KeysFit'
<1>1. pendingInputQueue \in Seq(ViewEntry(typed)) /\ outbox \in Seq(OutEntry(typed))
  BY DEF KeysFit
<1> QED  BY <1>1, EventFits

\* An event that changes what waits.
LEMMA WaitingFits ==
    ASSUME KeysFit, turn = <<>>, TurnFits(turn', typed, at),
           pendingInputQueue' \in Seq(ViewEntry(typed)), outbox' \in Seq(OutEntry(typed)),
           UNCHANGED <<typed, at, seen, pending, timer, onWire>>
    PROVE  KeysFit'
<1>1. at \in At
  BY DEF KeysFit
<1> QED  BY <1>1, EventFits

\* The oldest of the view make room for a new input.
LEMMA PendingFits ==
    ASSUME NEW id \in Nat, enqueuePendingInput(id), seen \in Seen,
           NEW t, pendingInputQueue \in Seq(ViewEntry(t)), OfGen(t, id, seen.gen)
    PROVE  pendingInputQueue' \in Seq(ViewEntry(t))
<1> DEFINE e == [id |-> id, gen |-> seen.gen, late |-> FALSE]
           q == Append(pendingInputQueue, e)
           sizes == [i \in DOMAIN q |-> 1]
           k == Dropped(sizes, inputQueueMaxBytes)
<1>1. e \in ViewEntry(t)
  BY DEF ViewEntry, Seen
<1>2. q \in Seq(ViewEntry(t)) /\ DOMAIN q = 1 .. Len(q) /\ Len(q) \in Nat
  <2> HIDE DEF e
  <2> QED  BY <1>1
<1>3. pendingInputQueue' = SubSeq(q, k + 1, Len(q))
  BY DEF enqueuePendingInput
<1> HIDE DEF q
<1>4. Len(sizes) = Len(q)
  BY <1>2
<1> HIDE DEF sizes
<1>5. k \in 0 .. Len(q)
  <2>1. inputQueueMaxBytes \in Nat
    BY BrowserAssumption
  <2> QED  BY <1>2, <1>4, <2>1, DropsSome
<1> HIDE DEF k
<1>6. \A i \in k + 1 .. Len(q) : q[i] \in ViewEntry(t)
  BY <1>2, <1>5
<1>7. k + 1 \in Int /\ Len(q) \in Int
  BY <1>2, <1>5
<1> QED  BY <1>3, <1>6, <1>7, SubSeqProperties

\* What is typed goes on or waits in the generation of which the view knows.
LEMMA TypeFits == ASSUME KeysFit, NEW boundary \in BOOLEAN, Type(boundary) PROVE KeysFit'
<1> DEFINE x == [boundary |-> boundary, gen |-> seen.gen]
           t == Append(typed, x)
           id == Len(typed) + 1
           y == [call |-> "submit", id |-> id]
<1>1. /\ at \in At /\ seen \in Seen /\ typed \in Seq(Input)
      /\ pendingInputQueue \in Seq(ViewEntry(typed))
      /\ outbox \in Seq(OutEntry(typed)) /\ onWire \in Seq(WireEntry(typed))
      /\ pending \in Seq(Nat) /\ (pending # <<>> => timer)
      /\ Told(turn, seen, at) /\ GatheredFit(turn, typed, at, pending)
  BY DEF KeysFit
<1>2. /\ turn = <<>> /\ typed' = t
      /\ UNCHANGED <<seen, pending, timer, at, outbox, onWire>>
      /\ \/ turn' = <<y>> /\ pendingInputQueue' = pendingInputQueue
         \/ turn' = <<>> /\ enqueuePendingInput(id)
         \/ turn' = <<>> /\ pendingInputQueue' = pendingInputQueue
  BY DEF Type, TurnIsOver, sequencerVars
<1>3. /\ seen.gen = at.gen /\ x \in Input /\ x.gen = seen.gen
      /\ id \in Nat /\ y.call = "submit" /\ y.id = id
  BY <1>1, <1>2 DEF Told, Input, Seen
<1> HIDE DEF x
<1>4. /\ t \in Seq(Input) /\ OfGen(t, id, at.gen)
      /\ \A i, g : OfGen(typed, i, g) => OfGen(t, i, g)
      /\ ViewEntry(typed) \subseteq ViewEntry(t) /\ OutEntry(typed) \subseteq OutEntry(t)
      /\ WireEntry(typed) \subseteq WireEntry(t)
  BY <1>1, <1>3, Grown
<1> HIDE DEF t, id
<1>5. /\ pendingInputQueue \in Seq(ViewEntry(t)) /\ outbox \in Seq(OutEntry(t))
      /\ onWire \in Seq(WireEntry(t))
  BY <1>1, <1>4
<1>6. pendingInputQueue' \in Seq(ViewEntry(t))
  BY <1>1, <1>2, <1>3, <1>4, <1>5, PendingFits
<1>7. TurnFits(turn', t, at)
  <2>1. y \in Calling(t) /\ CallFits(y, t, at)
    <3>1. y \in [call : {"submit"}, id : Nat]
      BY <1>3
    <3> QED  BY <1>3, <1>4, <3>1 DEF Calling, CallFits
  <2> HIDE DEF y
  <2>2. <<y>> \in Seq(Calling(t)) /\ DOMAIN <<y>> = {1} /\ <<y>>[1] = y
    BY <2>1
  <2>3. TurnFits(<<y>>, t, at)
    BY <1>3, <2>1, <2>2, UrgentFits DEF Urgent
  <2>4. TurnFits(<<>>, t, at)
    BY TurnsFit
  <2> QED  BY <1>2, <2>3, <2>4
<1>8. GatheredFit(turn', t, at, pending)
  <2>1. ~Flushes(<<>>)
    BY DEF Flushes
  <2> QED  BY <1>1, <1>2, <1>4, <2>1 DEF GatheredFit
<1> QED  BY <1>1, <1>2, <1>3, <1>4, <1>5, <1>6, <1>7, <1>8 DEF KeysFit, Told

LEMMA CoalesceTimerFits == ASSUME KeysFit, CoalesceTimer PROVE KeysFit'
<1>1. /\ turn = <<>> /\ turn' = EmitPending /\ pending' = <<>>
      /\ UNCHANGED <<typed, pendingInputQueue, seen, at, outbox, onWire>>
  BY DEF CoalesceTimer, TurnIsOver, NothingPending, viewVars, outVars
<1>2. /\ at \in At /\ seen \in Seen /\ typed \in Seq(Input)
      /\ pendingInputQueue \in Seq(ViewEntry(typed))
      /\ outbox \in Seq(OutEntry(typed)) /\ onWire \in Seq(WireEntry(typed))
      /\ Told(turn, seen, at)
  BY DEF KeysFit
<1>3. TurnFits(EmitPending, typed, at)
  BY Emitted, UrgentFits DEF Urgent
<1>4. pending' \in Seq(Nat) /\ GatheredFit(turn', typed, at, pending')
  BY <1>1 DEF GatheredFit, ToSet
<1>5. seen.gen = at.gen
  BY <1>1, <1>2 DEF Told
<1> QED  BY <1>1, <1>2, <1>3, <1>4, <1>5 DEF KeysFit, Told

LEMMA WaitingEventFits ==
    ASSUME KeysFit,
           \/ RetryTimer \/ ExpireView \/ ExpireOutbox
           \/ ViewEntryLate \/ \E i \in 1 .. MaxTyped : OutboxEntryLate(i)
           \/ RenderSync \/ Restore
    PROVE  KeysFit'
<1>1. pendingInputQueue \in Seq(ViewEntry(typed)) /\ outbox \in Seq(OutEntry(typed))
  BY DEF KeysFit
<1>2. CASE RetryTimer
  <2>1. /\ turn = <<>> /\ turn' = <<Call("flushOutbox")>>
        /\ UNCHANGED <<typed, pendingInputQueue, seen, pending, timer, at, outbox, onWire>>
    BY <1>2 DEF RetryTimer, TurnIsOver, viewVars, sequencerVars
  <2> QED  BY <1>1, <2>1, WaitingFits, TurnsFit
<1>3. CASE ExpireView
  <2> DEFINE over(e) == e.late /\ (typed[e.id].boundary \/ gate # "blocked")
             stay == {i \in DOMAIN pendingInputQueue : ~over(pendingInputQueue[i])}
  <2>1. /\ turn = <<>> /\ turn' = <<>> /\ pendingInputQueue' = Pick(pendingInputQueue, stay)
        /\ UNCHANGED <<typed, seen, pending, timer, at, outbox, onWire>>
    BY <1>3 DEF ExpireView, TurnIsOver, sequencerVars
  <2>2. stay \in SUBSET DOMAIN pendingInputQueue
    OBVIOUS
  <2> HIDE DEF stay
  <2>3. Pick(pendingInputQueue, stay) \in Seq(ViewEntry(typed))
    BY <1>1, <2>2, Picked
  <2> QED  BY <1>1, <2>1, <2>3, WaitingFits, TurnsFit
<1>4. CASE ExpireOutbox
  <2> DEFINE stay == {i \in DOMAIN outbox : ~outbox[i].late}
  <2>1. /\ turn = <<>> /\ turn' = <<>> /\ outbox' = Pick(outbox, stay)
        /\ UNCHANGED <<typed, pendingInputQueue, seen, pending, timer, at, onWire>>
    BY <1>4 DEF ExpireOutbox, TurnIsOver, sequencerVars, viewVars
  <2>2. stay \in SUBSET DOMAIN outbox
    OBVIOUS
  <2> HIDE DEF stay
  <2>3. Pick(outbox, stay) \in Seq(OutEntry(typed))
    BY <1>1, <2>2, Picked
  <2> QED  BY <1>1, <2>1, <2>3, WaitingFits, TurnsFit
<1>5. CASE ViewEntryLate
  <2>1. /\ turn = <<>> /\ turn' = <<>>
        /\ UNCHANGED <<typed, seen, pending, timer, at, outbox, onWire>>
    BY <1>5 DEF ViewEntryLate, TurnIsOver, sequencerVars, outVars
  <2>2. PICK i \in DOMAIN pendingInputQueue :
           pendingInputQueue' = [pendingInputQueue EXCEPT ![i].late = TRUE]
    BY <1>5 DEF ViewEntryLate
  <2>3. [pendingInputQueue[i] EXCEPT !.late = TRUE] \in ViewEntry(typed)
    <3> DEFINE x == pendingInputQueue[i]
               y == [x EXCEPT !.late = TRUE]
    <3>1. x \in ViewEntry(typed)
      BY <1>1
    <3> HIDE DEF x
    <3>2. /\ y \in [id : Nat, gen : Nat, late : BOOLEAN] /\ y.id = x.id /\ y.gen = x.gen
          /\ OfGen(typed, x.id, x.gen)
      BY <3>1 DEF ViewEntry
    <3> HIDE DEF y
    <3>3. y \in ViewEntry(typed)
      BY <3>2 DEF ViewEntry
    <3> QED  BY <3>3 DEF x, y
  <2> DEFINE e == [pendingInputQueue[i] EXCEPT !.late = TRUE]
  <2>5. pendingInputQueue' = [pendingInputQueue EXCEPT ![i] = e]
    BY <2>2
  <2> HIDE DEF e
  <2>4. pendingInputQueue' \in Seq(ViewEntry(typed))
    <3>1. e \in ViewEntry(typed)
      BY <2>3 DEF e
    <3> QED  BY <1>1, <2>5, <3>1, ExceptSeq
  <2> QED  BY <1>1, <2>1, <2>4, WaitingFits, TurnsFit
<1>6. ASSUME NEW i \in 1 .. MaxTyped, OutboxEntryLate(i) PROVE KeysFit'
  <2>1. /\ turn = <<>> /\ turn' = <<>> /\ i \in DOMAIN outbox
        /\ outbox' = [outbox EXCEPT ![i].late = TRUE]
        /\ UNCHANGED <<typed, pendingInputQueue, seen, pending, timer, at, onWire>>
    BY <1>6 DEF OutboxEntryLate, TurnIsOver, sequencerVars, viewVars
  <2>2. [outbox[i] EXCEPT !.late = TRUE] \in OutEntry(typed)
    <3> DEFINE x == outbox[i]
               y == [x EXCEPT !.late = TRUE]
    <3>1. x \in OutEntry(typed)
      BY <1>1, <2>1
    <3> HIDE DEF x
    <3>2. /\ y \in [ids : Seq(Nat), gen : Nat, late : BOOLEAN]
          /\ y.ids = x.ids /\ y.gen = x.gen
          /\ \A id \in ToSet(x.ids) : OfGen(typed, id, x.gen)
      BY <3>1 DEF OutEntry
    <3> HIDE DEF y
    <3>3. y \in OutEntry(typed)
      BY <3>2 DEF OutEntry
    <3> QED  BY <3>3 DEF x, y
  <2> DEFINE e == [outbox[i] EXCEPT !.late = TRUE]
  <2>4. outbox' = [outbox EXCEPT ![i] = e] /\ i \in DOMAIN outbox
    BY <2>1
  <2> HIDE DEF e
  <2>3. outbox' \in Seq(OutEntry(typed))
    <3>1. e \in OutEntry(typed)
      BY <2>2 DEF e
    <3> QED  BY <1>1, <2>4, <3>1, ExceptSeq
  <2> QED  BY <1>1, <2>1, <2>3, WaitingFits, TurnsFit
<1>7. CASE RenderSync
  <2>1. /\ turn = <<>> /\ turn' = <<Call("sync")>>
        /\ UNCHANGED <<typed, pendingInputQueue, seen, pending, timer, at, outbox, onWire>>
    BY <1>7 DEF RenderSync, TurnIsOver, viewVars, sequencerVars, outVars
  <2> QED  BY <1>1, <2>1, WaitingFits, TurnsFit
<1>8. CASE Restore
  <2>1. /\ turn = <<>> /\ turn' = <<Call("gate")>>
        /\ UNCHANGED <<typed, pendingInputQueue, seen, pending, timer, at, outbox, onWire>>
    BY <1>8 DEF Restore, TurnIsOver, sequencerVars, outVars
  <2> QED  BY <1>1, <2>1, WaitingFits, TurnsFit
<1> QED  BY <1>2, <1>3, <1>4, <1>5, <1>6, <1>7, <1>8

\* To connect again takes longer than to gather characters: none wait when it succeeds.
LEMMA RenderStatusFits ==
    ASSUME KeysFit, NEW status \in Statuses, RenderStatus(status) PROVE KeysFit'
<1>1. at \in At /\ (pending # <<>> => timer)
  BY DEF KeysFit
<1>2. /\ turn = <<>> /\ turn' = <<>> /\ (status = "connected" => ~timer)
      /\ at' = [at EXCEPT !.status = status, !.effect = TRUE, !.stale = FALSE]
      /\ UNCHANGED <<typed, pendingInputQueue, seen, pending, timer, outbox, onWire>>
  BY DEF RenderStatus, TurnIsOver, viewVars, sequencerVars, outVars
<1>3. at' \in At /\ at'.gen = at.gen /\ at'.closed = at.closed /\ at'.status = status
  BY <1>1, <1>2 DEF At
<1> QED  BY <1>1, <1>2, <1>3, TransportFits, TurnsFit

\* The effects of a render, each by the status it finds.
LEMMA EffectFits ==
    ASSUME KeysFit, ConnectedEffect \/ ReconnectingEffect \/ DisconnectedEffect PROVE KeysFit'
<1>1. at \in At
  BY DEF KeysFit
<1>2. CASE ConnectedEffect
  <2>1. /\ turn = <<>> /\ turn' = <<Call("sync")>> \o flushTransportPipeline
        /\ at.status = "connected"
        /\ at' = [at EXCEPT !.effect = FALSE, !.reconnect = "none",
                            !.closed = IF @ = "link" THEN "none" ELSE @]
        /\ UNCHANGED <<typed, pendingInputQueue, seen, pending, timer, outbox, onWire>>
    BY <1>2 DEF ConnectedEffect, TurnIsOver, viewVars, sequencerVars, outVars
  <2>2. at' \in At /\ at'.gen = at.gen
    BY <1>1, <2>1 DEF At
  <2> QED  BY <2>1, <2>2, TransportFits, TurnsFit
<1>3. CASE ReconnectingEffect
  <2>1. /\ turn = <<>> /\ turn' = <<Call("sync")>>
        /\ UNCHANGED <<typed, pendingInputQueue, seen, pending, timer, outbox, onWire>>
    BY <1>3 DEF ReconnectingEffect, TurnIsOver, viewVars, sequencerVars, outVars
  <2>2. PICK still \in StillRecovering :
           at' = [at EXCEPT !.effect = FALSE, !.recovering = still,
                            !.reconnect = IF @ = "none" THEN "short" ELSE @]
    BY <1>3 DEF ReconnectingEffect
  <2>3. still \in BOOLEAN
    BY DEF StillRecovering
  <2>4. at' \in At /\ at'.gen = at.gen /\ at'.closed = at.closed /\ at'.status = at.status
    BY <1>1, <2>2, <2>3 DEF At
  <2> QED  BY <2>1, <2>4, TransportFits, TurnsFit
<1>4. CASE DisconnectedEffect
  <2>1. /\ turn = <<>> /\ turn' = <<Call("sync")>> \o Closing("link")
        /\ at.status = "disconnected"
        /\ UNCHANGED <<typed, pendingInputQueue, seen, pending, timer, outbox, onWire>>
    BY <1>4 DEF DisconnectedEffect, TurnIsOver, viewVars, sequencerVars, outVars
  <2>2. PICK still \in StillRecovering :
           at' = [at EXCEPT !.effect = FALSE, !.recovering = still]
    BY <1>4 DEF DisconnectedEffect
  <2>3. still \in BOOLEAN
    BY DEF StillRecovering
  <2>4. at' \in At /\ at'.gen = at.gen /\ at'.closed = at.closed /\ at'.status = at.status
    BY <1>1, <2>2, <2>3 DEF At
  <2>5. TurnFits(turn', typed, at')
    <3>1. at'.status # "connected" /\ "link" \in Reasons
      BY <2>1, <2>4 DEF Reasons
    <3> QED  BY <2>1, <3>1, ClosingFits
  <2> QED  BY <2>1, <2>4, <2>5, TransportFits
<1> QED  BY <1>2, <1>3, <1>4

\* The socket and the reconnect change, and no call is made but to close the transport.
LEMMA SocketFits ==
    ASSUME KeysFit, SocketCloses \/ ReconnectOver \/ ReconnectTimer \/ ShowOrHide
    PROVE  KeysFit'
<1>1. at \in At
  BY DEF KeysFit
<1>2. CASE SocketCloses
  <2>1. /\ turn = <<>> /\ turn' = <<>> /\ at' = [at EXCEPT !.stale = TRUE]
        /\ UNCHANGED <<typed, pendingInputQueue, seen, pending, timer, outbox, onWire>>
    BY <1>2 DEF SocketCloses, TurnIsOver, viewVars, sequencerVars, outVars
  <2>2. at' \in At /\ at'.gen = at.gen /\ at'.closed = at.closed /\ at'.status = at.status
    BY <1>1, <2>1 DEF At
  <2> QED  BY <2>1, <2>2, TransportFits, TurnsFit
<1>3. CASE ReconnectOver
  <2>1. /\ turn = <<>> /\ turn' = <<>> /\ at' = [at EXCEPT !.reconnect = "over"]
        /\ UNCHANGED <<typed, pendingInputQueue, seen, pending, timer, outbox, onWire>>
    BY <1>3 DEF ReconnectOver, TurnIsOver, viewVars, sequencerVars, outVars
  <2>2. at' \in At /\ at'.gen = at.gen /\ at'.closed = at.closed /\ at'.status = at.status
    BY <1>1, <2>1 DEF At
  <2> QED  BY <2>1, <2>2, TransportFits, TurnsFit
<1>4. CASE ReconnectTimer
  <2>1. /\ turn = <<>> /\ turn' = Closing("link") /\ at.status = "reconnecting" /\ at' = at
        /\ UNCHANGED <<typed, pendingInputQueue, seen, pending, timer, outbox, onWire>>
    BY <1>4 DEF ReconnectTimer, TurnIsOver, viewVars, sequencerVars, outVars
  <2>2. TurnFits(turn', typed, at')
    <3>1. at'.status # "connected" /\ "link" \in Reasons
      BY <2>1 DEF Reasons
    <3> QED  BY <2>1, <3>1, ClosingFits
  <2> QED  BY <1>1, <2>1, <2>2, TransportFits
<1>5. CASE ShowOrHide
  <2>1. /\ turn = <<>> /\ turn' = <<>> /\ at' = [at EXCEPT !.visible = ~@]
        /\ UNCHANGED <<typed, pendingInputQueue, seen, pending, timer, outbox, onWire>>
    BY <1>5 DEF ShowOrHide, TurnIsOver, viewVars, sequencerVars, outVars
  <2>2. at' \in At /\ at'.gen = at.gen /\ at'.closed = at.closed /\ at'.status = at.status
    BY <1>1, <2>1 DEF At
  <2> QED  BY <2>1, <2>2, TransportFits, TurnsFit
<1> QED  BY <1>2, <1>3, <1>4, <1>5

\* The server opens the session again: only while the link is up.
LEMMA SubscribedFits ==
    ASSUME KeysFit, ReadyInRecovery \/ \E isReady \in BOOLEAN : Subscribed(isReady)
    PROVE  KeysFit'
<1>1. at \in At
  BY DEF KeysFit
<1>2. CASE ReadyInRecovery
  <2>1. /\ turn = <<>> /\ turn' = <<Call("sync")>> /\ at.status = "connected"
        /\ at' = [at EXCEPT !.ready = TRUE, !.closed = "none"]
        /\ UNCHANGED <<typed, pendingInputQueue, seen, pending, timer, outbox, onWire>>
    BY <1>2 DEF ReadyInRecovery, TurnIsOver, viewVars, sequencerVars, outVars
  <2>2. at' \in At /\ at'.gen = at.gen
    BY <1>1, <2>1 DEF At
  <2> QED  BY <2>1, <2>2, TransportFits, TurnsFit
<1>3. ASSUME NEW isReady \in BOOLEAN, Subscribed(isReady) PROVE KeysFit'
  <2>1. /\ turn = <<>> /\ at.status = "connected"
        /\ turn' = <<Call("sync")>> \o (IF isReady THEN flushTransportPipeline ELSE <<>>)
        /\ at' = [at EXCEPT !.ready = isReady, !.closed = IF isReady THEN "none" ELSE @]
        /\ UNCHANGED <<typed, pendingInputQueue, seen, pending, timer, outbox, onWire>>
    BY <1>3 DEF Subscribed, TurnIsOver, viewVars, sequencerVars, outVars
  <2>2. at' \in At /\ at'.gen = at.gen
    BY <1>1, <2>1 DEF At
  <2>3. TurnFits(turn', typed, at')
    BY <2>1, TurnsFit
  <2> QED  BY <2>1, <2>2, <2>3, TransportFits
<1> QED  BY <1>2, <1>3

\* The output is recovered, or no more.
LEMMA RecoveryFits ==
    ASSUME KeysFit, RecoveryStarts \/ ConvergenceOver \/ RecoveryFinished PROVE KeysFit'
<1>1. at \in At
  BY DEF KeysFit
<1>2. CASE RecoveryStarts \/ ConvergenceOver
  <2>1. /\ turn = <<>> /\ turn' = <<Call("sync")>>
        /\ \E ready \in {at.ready, FALSE}, over \in BOOLEAN :
              at' = [at EXCEPT !.recovering = over, !.ready = ready]
        /\ UNCHANGED <<typed, pendingInputQueue, seen, pending, timer, outbox, onWire>>
    BY <1>2 DEF RecoveryStarts, ConvergenceOver, TurnIsOver, viewVars, sequencerVars, outVars
  <2>2. at' \in At /\ at'.gen = at.gen /\ at'.closed = at.closed /\ at'.status = at.status
    BY <1>1, <2>1 DEF At
  <2> QED  BY <2>1, <2>2, TransportFits, TurnsFit
<1>3. CASE RecoveryFinished
  <2>1. /\ turn = <<>> /\ turn' = <<Call("sync"), Call("flushOutbox")>>
        /\ at' = [at EXCEPT !.recovering = FALSE]
        /\ UNCHANGED <<typed, pendingInputQueue, seen, pending, timer, outbox, onWire>>
    BY <1>3 DEF RecoveryFinished, TurnIsOver, viewVars, sequencerVars, outVars
  <2>2. at' \in At /\ at'.gen = at.gen /\ at'.closed = at.closed /\ at'.status = at.status
    BY <1>1, <2>1 DEF At
  <2> QED  BY <2>1, <2>2, TransportFits, TurnsFit
<1> QED  BY <1>2, <1>3

\* The session fails, or the terminal is taken down.
LEMMA LossFits == ASSUME KeysFit, SessionError \/ Detach PROVE KeysFit'
<1>1. at \in At
  BY DEF KeysFit
<1>2. PICK r \in {"error", "detached"} :
        /\ turn = <<>> /\ turn' = Closing(r)
        /\ at' = [at EXCEPT !.ready = FALSE] \/ at' = [at EXCEPT !.recovering = FALSE]
        /\ UNCHANGED <<typed, pendingInputQueue, seen, pending, timer, outbox, onWire>>
  BY DEF SessionError, Detach, TurnIsOver, viewVars, sequencerVars, outVars
<1>3. at' \in At /\ at'.gen = at.gen /\ at'.closed = at.closed /\ at'.status = at.status
  BY <1>1, <1>2 DEF At
<1>4. TurnFits(turn', typed, at')
  <2>1. r \in Reasons /\ r # "link"
    BY DEF Reasons
  <2> QED  BY <1>2, <2>1, ClosingFits
<1> QED  BY <1>2, <1>3, <1>4, TransportFits

LEMMA BrowserEventFits == ASSUME KeysFit, BrowserEvent PROVE KeysFit'
BY TypeFits, CoalesceTimerFits, WaitingEventFits, RenderStatusFits, EffectFits, SocketFits,
   SubscribedFits, RecoveryFits, LossFits DEF BrowserEvent, Statuses

-----------------------------------------------------------------------------
(* The theorems.                                                           *)

LEMMA BrowserInitFits == BrowserInit => KeysFit
<1> SUFFICES ASSUME BrowserInit PROVE KeysFit
  OBVIOUS
<1>1. /\ typed = <<>> /\ at \in At /\ seen \in Seen /\ seen.gen = at.gen
      /\ pendingInputQueue = <<>> /\ outbox = <<>> /\ onWire = <<>> /\ pending = <<>>
      /\ turn = <<>>
  BY DEF BrowserInit, At, Seen, Statuses
<1>2. TurnFits(turn, typed, at)
  BY <1>1, TurnsFit
<1>3. GatheredFit(turn, typed, at, pending)
  BY <1>1 DEF GatheredFit, ToSet
<1> QED  BY <1>1, <1>2, <1>3 DEF KeysFit, Told

\* In every state of the browser what waits and what goes on is known by the session
\* generation it was typed in, and the characters of an earlier generation that are still
\* gathered are given up before the transport can be opened (TerminalContainer.tsx,
\* markTransportClosed and syncInputTransportState).
THEOREM KeysAlwaysFit == BrowserSpec => []KeysFit
<1>1. BrowserInit => KeysFit
  BY BrowserInitFits
<1>2. KeysFit /\ [BrowserNext]_browserVars => KeysFit'
  <2> SUFFICES ASSUME KeysFit, [BrowserNext]_browserVars PROVE KeysFit'
    OBVIOUS
  <2>1. CASE TurnStep  BY <2>1, TurnStepFits
  <2>2. CASE BrowserEvent  BY <2>2, BrowserEventFits
  <2>3. CASE UNCHANGED browserVars
    BY <2>3 DEF browserVars, viewVars, sequencerVars, outVars, KeysFit, TurnFits, Told,
                GatheredFit, Shape, Closes, CallFits, OfGen, Calling, Flushes, ViewEntry,
                OutEntry, WireEntry
  <2> QED  BY <2>1, <2>2, <2>3 DEF BrowserNext
<1> QED  BY <1>1, <1>2, PTL DEF BrowserSpec

\* Whatever is typed while the link is lost, the session fails or the tab is hidden, no
\* input is sent into a session generation other than the one it was typed in.
THEOREM SentInItsGenerationHolds == BrowserSpec => []SentInItsGeneration
<1>1. KeysFit => SentInItsGeneration
  <2> SUFFICES ASSUME KeysFit, NEW i \in DOMAIN onWire, NEW id \in ToSet(onWire[i].ids)
               PROVE  typed[id].gen = onWire[i].gen
    BY DEF SentInItsGeneration
  <2>1. onWire \in Seq(WireEntry(typed))
    BY DEF KeysFit
  <2>2. onWire[i] \in WireEntry(typed)
    BY <2>1
  <2> QED  BY <2>2 DEF WireEntry, OfGen
<1> QED  BY <1>1, KeysAlwaysFit, PTL

-----------------------------------------------------------------------------
(* What is held is held in its place: what moves between the places.       *)

\* The older come before the newer: what is under way of the outbox, the outbox, what is
\* being delivered, what is gathered, what is being submitted, what the view holds.
Rising(F, O, D, P, B, V) ==
    /\ Before(F, O) /\ Before(F, D) /\ Before(F, P) /\ Before(F, B) /\ Before(F, V)
    /\ Before(O, D) /\ Before(O, P) /\ Before(O, B) /\ Before(O, V)
    /\ Before(D, P) /\ Before(D, B) /\ Before(D, V)
    /\ Before(P, B) /\ Before(P, V) /\ Before(B, V)

\* Each of T waits (in W), was sent (S) or given up (R), and only one of these.
Whole(T, W, S, R) ==
    /\ T = W \cup S \cup R
    /\ W \cap S = {} /\ W \cap R = {} /\ S \cap R = {}

Placed(T, F, O, D, P, B, V, S, R) ==
    /\ T \subseteq Nat
    /\ Rising(F, O, D, P, B, V)
    /\ Whole(T, F \cup O \cup D \cup P \cup B \cup V, S, R)
    /\ Before(S, V)

LEMMA Apart ==
    ASSUME NEW A, NEW C, A \subseteq Nat, Before(A, C)
    PROVE  A \cap C = {}
<1> SUFFICES ASSUME NEW x \in A, x \in C PROVE FALSE
  OBVIOUS
<1>1. x \in Nat /\ x < x
  BY DEF Before
<1> QED  BY <1>1

\* The gate lets go what is kept of the view.
LEMMA GateMoves ==
    ASSUME NEW T, NEW O, NEW P, NEW V, NEW S, NEW R, NEW K \in SUBSET V,
           Placed(T, {}, O, {}, P, {}, V, S, R)
    PROVE  Placed(T, {}, O, {}, P, K, {}, S, R \cup (V \ K))
BY DEF Placed, Rising, Whole, Before

\* What is gathered is emitted, and a boundary after it.
LEMMA EmitMoves ==
    ASSUME NEW T, NEW F, NEW O, NEW P, NEW B, NEW V, NEW S, NEW R,
           Placed(T, F, O, {}, P, B, V, S, R)
    PROVE  Placed(T, F, O, P, {}, B, V, S, R)
BY DEF Placed, Rising, Whole, Before

LEMMA BoundaryMoves ==
    ASSUME NEW T, NEW F, NEW O, NEW P, NEW B, NEW V, NEW S, NEW R, NEW X, Before(X, B),
           Placed(T, F, O, {}, P, X \cup B, V, S, R)
    PROVE  Placed(T, F, O, P \cup X, {}, B, V, S, R)
BY DEF Placed, Rising, Whole, Before

\* A character is gathered.
LEMMA GatherMoves ==
    ASSUME NEW T, NEW F, NEW O, NEW D, NEW P, NEW B, NEW V, NEW S, NEW R, NEW X, Before(X, B),
           Placed(T, F, O, D, P, X \cup B, V, S, R)
    PROVE  Placed(T, F, O, D, P \cup X, B, V, S, R)
BY DEF Placed, Rising, Whole, Before

\* What is delivered is sent, or given up.
LEMMA DeliverMoves ==
    ASSUME NEW T, NEW F, NEW O, NEW D, NEW P, NEW B, NEW V, NEW S, NEW R, NEW X, Before(X, D),
           Placed(T, F, O, X \cup D, P, B, V, S, R)
    PROVE  /\ Placed(T, F, O, D, P, B, V, S \cup X, R)
           /\ Placed(T, F, O, D, P, B, V, S, R \cup X)
<1>1. X \cap D = {}
  BY Apart DEF Placed, Whole
<1> QED  BY <1>1 DEF Placed, Rising, Whole, Before

\* Or it joins the outbox, where the oldest, Y, make room.
LEMMA EnqueueMoves ==
    ASSUME NEW T, NEW F, NEW O, NEW D, NEW P, NEW B, NEW V, NEW S, NEW R, NEW X, Before(X, D),
           NEW Y, NEW Q, O \cup X = Y \cup Q, Before(Y, Q),
           Placed(T, F, O, X \cup D, P, B, V, S, R)
    PROVE  Placed(T, F, Q, D, P, B, V, S, R \cup Y)
<1>1. Placed(T, F, O \cup X, D, P, B, V, S, R)
  BY DEF Placed, Rising, Whole, Before
<1>2. Y \cap Q = {}
  BY <1>1, Apart DEF Placed, Whole
<1> QED  BY <1>1, <1>2 DEF Placed, Rising, Whole, Before

\* The outbox loses some.
LEMMA OutboxMoves ==
    ASSUME NEW T, NEW F, NEW O, NEW D, NEW P, NEW B, NEW V, NEW S, NEW R, NEW K \in SUBSET O,
           Placed(T, F, O, D, P, B, V, S, R)
    PROVE  Placed(T, F, K, D, P, B, V, S, R \cup (O \ K))
BY DEF Placed, Rising, Whole, Before

\* The outbox is taken out, and what is left of it put back.
LEMMA FlushMoves ==
    ASSUME NEW T, NEW O, NEW D, NEW P, NEW B, NEW V, NEW S, NEW R,
           Placed(T, {}, O, D, P, B, V, S, R)
    PROVE  Placed(T, O, {}, D, P, B, V, S, R)
BY DEF Placed, Rising, Whole, Before

LEMMA RestoreMoves ==
    ASSUME NEW T, NEW F, NEW O, NEW D, NEW P, NEW B, NEW V, NEW S, NEW R,
           Placed(T, F, O, D, P, B, V, S, R)
    PROVE  Placed(T, {}, F \cup O, D, P, B, V, S, R)
BY DEF Placed, Rising, Whole, Before

\* What is under way of it is sent, or given up.
LEMMA EntryMoves ==
    ASSUME NEW T, NEW F, NEW O, NEW D, NEW P, NEW B, NEW V, NEW S, NEW R, NEW X, Before(X, F),
           Placed(T, X \cup F, O, D, P, B, V, S, R)
    PROVE  /\ Placed(T, F, O, D, P, B, V, S \cup X, R)
           /\ Placed(T, F, O, D, P, B, V, S, R \cup X)
<1>1. X \cap F = {}
  BY Apart DEF Placed, Whole
<1> QED  BY <1>1 DEF Placed, Rising, Whole, Before

\* The view loses some.
LEMMA ViewMoves ==
    ASSUME NEW T, NEW F, NEW O, NEW D, NEW P, NEW B, NEW V, NEW S, NEW R, NEW K \in SUBSET V,
           Placed(T, F, O, D, P, B, V, S, R)
    PROVE  Placed(T, F, O, D, P, B, K, S, R \cup (V \ K))
BY DEF Placed, Rising, Whole, Before

\* The newest is submitted, held, or given up.
LEMMA NewestMoves ==
    ASSUME NEW T, NEW O, NEW P, NEW V, NEW S, NEW R, NEW x \in Nat, \A y \in T : y < x,
           Placed(T, {}, O, {}, P, {}, V, S, R)
    PROVE  /\ V = {} => Placed(T \cup {x}, {}, O, {}, P, {x}, V, S, R)
           /\ Placed(T \cup {x}, {}, O, {}, P, {}, V \cup {x}, S, R)
           /\ Placed(T \cup {x}, {}, O, {}, P, {}, V, S, R \cup {x})
<1>1. x \notin T
  BY DEF Placed
<1> QED  BY <1>1 DEF Placed, Rising, Whole, Before

-----------------------------------------------------------------------------
(* Lists of inputs and calls in order.                                     *)

\* The inputs a call carries.
Inputs(x) ==
    CASE x.call = "submit" -> {x.id}
      [] x.call = "deliver" -> ToSet(x.ids)
      [] x.call = "flushEntries" -> IdsIn(x.entries)
      [] OTHER -> {}

Carried(c) == UNION {Inputs(c[k]) : k \in DOMAIN c}
Of(c, name) == UNION {Inputs(c[k]) : k \in {j \in DOMAIN c : c[j].call = name}}

CallInOrder(x) ==
    /\ x.call = "deliver" => Ascends(x.ids)
    /\ x.call = "flushEntries" => EntriesInOrder(x.entries)

\* Deliveries are made before other calls, and the outbox is gone through at once.
TurnInOrder(c) ==
    /\ \A k \in DOMAIN c : CallInOrder(c[k])
    /\ \A j, k \in DOMAIN c : j < k => Before(Inputs(c[j]), Inputs(c[k]))
    /\ \A j, k \in DOMAIN c : j < k /\ c[k].call = "deliver" => c[j].call = "deliver"
    /\ \A k \in DOMAIN c : c[k].call = "flushEntries" => k = 1

ViewInOrder(v) == \A j \in DOMAIN v : \A i \in 1 .. j - 1 : v[i].id < v[j].id

LEMMA CarriedParts ==
    ASSUME NEW c
    PROVE  Carried(c) = Of(c, "flushEntries") \cup Of(c, "deliver") \cup Of(c, "submit")
<1>1. \A k \in DOMAIN c :
         Inputs(c[k]) # {} => c[k].call \in {"flushEntries", "deliver", "submit"}
  BY DEF Inputs
<1>2. ASSUME NEW i \in Carried(c)
      PROVE  i \in Of(c, "flushEntries") \cup Of(c, "deliver") \cup Of(c, "submit")
  <2>1. PICK k \in DOMAIN c : i \in Inputs(c[k])
    BY DEF Carried
  <2>2. c[k].call \in {"flushEntries", "deliver", "submit"}
    BY <1>1, <2>1
  <2> QED  BY <2>1, <2>2 DEF Of
<1>3. \A name : Of(c, name) \subseteq Carried(c)
  BY DEF Of, Carried
<1> QED  BY <1>2, <1>3

\* The head of a turn and the rest.
LEMMA TailInOrder ==
    ASSUME NEW X, NEW c \in Seq(X), c # <<>>, TurnInOrder(c)
    PROVE  /\ TurnInOrder(Tail(c)) /\ CallInOrder(Head(c))
           /\ \A name : Of(c, name) = (IF Head(c).call = name THEN Inputs(Head(c)) ELSE {})
                                       \cup Of(Tail(c), name)
           /\ Before(Inputs(Head(c)), Carried(Tail(c)))
           /\ \A k \in DOMAIN Tail(c) :
                 /\ Tail(c)[k].call # "flushEntries"
                 /\ Head(c).call # "deliver" => Tail(c)[k].call # "deliver"
<1> DEFINE d == Tail(c)
           h == Head(c)
           n == Len(c)
<1>1. /\ n \in Nat /\ DOMAIN c = 1 .. n /\ h = c[1] /\ 1 \in DOMAIN c
      /\ DOMAIN d = 1 .. n - 1 /\ \A k \in 1 .. n - 1 : d[k] = c[k + 1]
  OBVIOUS
<1> HIDE DEF d, h, n
<1>2. \A k \in DOMAIN d : k \in Nat /\ 1 <= k /\ k + 1 \in DOMAIN c /\ d[k] = c[k + 1]
  BY <1>1
<1>3. \A k \in DOMAIN c : k # 1 => k - 1 \in DOMAIN d /\ d[k - 1] = c[k]
  BY <1>1
<1>4. \A k \in DOMAIN d : d[k].call # "flushEntries"
  <2> SUFFICES ASSUME NEW k \in DOMAIN d, c[k + 1].call = "flushEntries" PROVE FALSE
    BY <1>2
  <2>1. k + 1 = 1 /\ 1 <= k /\ k \in Nat
    BY <1>2 DEF TurnInOrder
  <2> QED  BY <2>1
<1>5. h.call # "deliver" => \A k \in DOMAIN d : d[k].call # "deliver"
  <2> SUFFICES ASSUME NEW k \in DOMAIN d, c[k + 1].call = "deliver" PROVE c[1].call = "deliver"
    BY <1>1, <1>2
  <2>1. 1 < k + 1 /\ k + 1 \in DOMAIN c
    BY <1>2
  <2> QED  BY <1>1, <2>1 DEF TurnInOrder
<1>6. TurnInOrder(d)
  <2>1. \A j, k \in DOMAIN d : j < k => j + 1 < k + 1
    BY <1>2
  <2> QED  BY <1>2, <1>4, <2>1 DEF TurnInOrder
<1>7. Before(Inputs(h), Carried(d))
  <2> SUFFICES ASSUME NEW k \in DOMAIN d PROVE Before(Inputs(c[1]), Inputs(d[k]))
    BY <1>1 DEF Before, Carried
  <2>1. 1 < k + 1 /\ k + 1 \in DOMAIN c /\ d[k] = c[k + 1]
    BY <1>2
  <2> QED  BY <1>1, <2>1 DEF TurnInOrder
<1>8. ASSUME NEW name
      PROVE  Of(c, name) = (IF h.call = name THEN Inputs(h) ELSE {}) \cup Of(d, name)
  <2>1. ASSUME NEW i \in Of(c, name)
        PROVE  (h.call = name /\ i \in Inputs(h)) \/ i \in Of(d, name)
    <3>1. PICK k \in DOMAIN c : c[k].call = name /\ i \in Inputs(c[k])
      BY DEF Of
    <3> QED  BY <1>1, <1>3, <3>1 DEF Of
  <2>2. ASSUME NEW i \in Of(d, name) PROVE i \in Of(c, name)
    BY <1>2 DEF Of
  <2>3. ASSUME h.call = name, NEW i \in Inputs(h) PROVE i \in Of(c, name)
    BY <1>1, <2>3 DEF Of
  <2> QED  BY <2>1, <2>2, <2>3
<1>9. CallInOrder(h)
  BY <1>1 DEF TurnInOrder
<1> QED  BY <1>4, <1>5, <1>6, <1>7, <1>8, <1>9 DEF d, h

\* Calls that are put before the rest of a turn.
LEMMA PushInOrder ==
    ASSUME NEW X, NEW u \in Seq(X), NEW d \in Seq(X), TurnInOrder(u), TurnInOrder(d),
           Before(Carried(u), Carried(d)),
           \A k \in DOMAIN d : d[k].call # "flushEntries",
           \/ \A k \in DOMAIN d : d[k].call # "deliver"
           \/ \A k \in DOMAIN u : u[k].call = "deliver"
    PROVE  /\ TurnInOrder(u \o d)
           /\ \A name : Of(u \o d, name) = Of(u, name) \cup Of(d, name)
<1> DEFINE c == u \o d
           m == Len(u)
           n == Len(d)
<1>1. /\ m \in Nat /\ n \in Nat /\ DOMAIN u = 1 .. m /\ DOMAIN d = 1 .. n
      /\ DOMAIN c = 1 .. m + n
      /\ \A k \in 1 .. m : c[k] = u[k]
      /\ \A k \in 1 .. n : c[m + k] = d[k]
  OBVIOUS
<1> HIDE DEF c, m, n
<1>2. \A k \in DOMAIN c : \/ k \in DOMAIN u /\ c[k] = u[k]
                          \/ k > m /\ k - m \in DOMAIN d /\ c[k] = d[k - m]
  <2> TAKE k \in DOMAIN c
  <2>0. k \in Nat /\ m \in Nat /\ n \in Nat /\ 1 <= k /\ k <= m + n
    BY <1>1
  <2>1. CASE k <= m
    <3>1. k \in 1 .. m
      BY <2>0, <2>1
    <3>2. c[k] = u[k] /\ k \in DOMAIN u
      BY <1>1, <3>1
    <3> QED  BY <3>2
  <2>2. CASE ~(k <= m)
    <3>1. k - m \in 1 .. n /\ m + (k - m) = k /\ k > m
      BY <2>0, <2>2
    <3>2. c[m + (k - m)] = d[k - m]
      BY <1>1, <3>1
    <3> QED  BY <1>1, <3>1, <3>2
  <2> QED  BY <2>1, <2>2
<1>3. /\ \A k \in DOMAIN u : k \in DOMAIN c /\ c[k] = u[k]
      /\ \A k \in DOMAIN d : m + k \in DOMAIN c /\ c[m + k] = d[k]
  BY <1>1
<1>4. ASSUME NEW j \in DOMAIN c, NEW k \in DOMAIN c, j < k
      PROVE  /\ Before(Inputs(c[j]), Inputs(c[k]))
             /\ c[k].call = "deliver" => c[j].call = "deliver"
  <2>1. CASE k \in DOMAIN u /\ c[k] = u[k]
    <3>1. j \in DOMAIN u /\ c[j] = u[j]
      BY <1>1, <1>4, <2>1
    <3> QED  BY <1>4, <2>1, <3>1 DEF TurnInOrder
  <2>2. CASE k > m /\ k - m \in DOMAIN d /\ c[k] = d[k - m]
    <3>1. CASE j \in DOMAIN u /\ c[j] = u[j]
      BY <2>2, <3>1 DEF Carried, Before
    <3>2. CASE j > m /\ j - m \in DOMAIN d /\ c[j] = d[j - m]
      <4>2. j \in Nat /\ k \in Nat /\ m \in Nat
        BY <1>1
      <4>1. j - m < k - m
        BY <1>4, <4>2
      <4> QED  BY <2>2, <3>2, <4>1 DEF TurnInOrder
    <3> QED  BY <1>2, <3>1, <3>2
  <2> QED  BY <1>2, <2>1, <2>2
<1>5. \A k \in DOMAIN c : CallInOrder(c[k]) /\ (c[k].call = "flushEntries" => k = 1)
  BY <1>2 DEF TurnInOrder
<1>6. ASSUME NEW name PROVE Of(c, name) = Of(u, name) \cup Of(d, name)
  <2>1. ASSUME NEW i \in Of(c, name) PROVE i \in Of(u, name) \cup Of(d, name)
    <3>1. PICK k \in DOMAIN c : c[k].call = name /\ i \in Inputs(c[k])
      BY DEF Of
    <3> QED  BY <1>2, <3>1 DEF Of
  <2>2. Of(u, name) \subseteq Of(c, name) /\ Of(d, name) \subseteq Of(c, name)
    BY <1>3 DEF Of
  <2> QED  BY <2>1, <2>2
<1>7. TurnInOrder(c)
  BY <1>4, <1>5 DEF TurnInOrder
<1> QED  BY <1>6, <1>7 DEF c

-----------------------------------------------------------------------------
(* The outbox and the view in order.                                       *)

LEMMA ConcatInOrder ==
    ASSUME NEW X, NEW q \in Seq(X), NEW r \in Seq(X)
    PROVE  /\ IdsIn(q \o r) = IdsIn(q) \cup IdsIn(r)
           /\ EntriesInOrder(q) /\ EntriesInOrder(r) /\ Before(IdsIn(q), IdsIn(r))
                 => EntriesInOrder(q \o r)
<1> DEFINE c == q \o r
           m == Len(q)
           n == Len(r)
<1>1. /\ m \in Nat /\ n \in Nat /\ DOMAIN q = 1 .. m /\ DOMAIN r = 1 .. n
      /\ DOMAIN c = 1 .. m + n
      /\ \A k \in 1 .. m : c[k] = q[k]
      /\ \A k \in 1 .. n : c[m + k] = r[k]
  OBVIOUS
<1> HIDE DEF c, m, n
<1>2. \A k \in DOMAIN c : \/ k \in DOMAIN q /\ c[k] = q[k]
                          \/ k > m /\ k - m \in DOMAIN r /\ c[k] = r[k - m]
  <2> TAKE k \in DOMAIN c
  <2>0. k \in Nat /\ m \in Nat /\ n \in Nat /\ 1 <= k /\ k <= m + n
    BY <1>1
  <2>1. CASE k <= m
    <3>1. k \in 1 .. m
      BY <2>0, <2>1
    <3>2. c[k] = q[k] /\ k \in DOMAIN q
      BY <1>1, <3>1
    <3> QED  BY <3>2
  <2>2. CASE ~(k <= m)
    <3>1. k - m \in 1 .. n /\ m + (k - m) = k /\ k > m
      BY <2>0, <2>2
    <3>2. c[m + (k - m)] = r[k - m]
      BY <1>1, <3>1
    <3> QED  BY <1>1, <3>1, <3>2
  <2> QED  BY <2>1, <2>2
<1>3. /\ \A k \in DOMAIN q : k \in DOMAIN c /\ c[k] = q[k]
      /\ \A k \in DOMAIN r : m + k \in DOMAIN c /\ c[m + k] = r[k]
  BY <1>1
<1>4. IdsIn(c) = IdsIn(q) \cup IdsIn(r)
  <2>1. ASSUME NEW x \in IdsIn(c) PROVE x \in IdsIn(q) \cup IdsIn(r)
    BY <1>2 DEF IdsIn
  <2>2. IdsIn(q) \subseteq IdsIn(c) /\ IdsIn(r) \subseteq IdsIn(c)
    BY <1>3 DEF IdsIn
  <2> QED  BY <2>1, <2>2
<1>5. ASSUME EntriesInOrder(q), EntriesInOrder(r), Before(IdsIn(q), IdsIn(r))
      PROVE  EntriesInOrder(c)
  <2> SUFFICES ASSUME NEW j \in DOMAIN c, NEW i \in 1 .. j - 1
               PROVE  /\ Ascends(c[j].ids)
                      /\ Before(ToSet(c[i].ids), ToSet(c[j].ids))
    <3>1. \A j \in DOMAIN c : Ascends(c[j].ids)
      BY <1>2, <1>5 DEF EntriesInOrder
    <3> QED  BY <3>1 DEF EntriesInOrder
  <2>1. Ascends(c[j].ids)
    BY <1>2, <1>5 DEF EntriesInOrder
  <2>2. /\ j \in Nat /\ i \in Nat /\ m \in Nat /\ n \in Nat /\ i < j /\ i \in DOMAIN c
        /\ 1 <= i /\ j <= m + n
    BY <1>1
  <2>3. CASE j \in DOMAIN q /\ c[j] = q[j]
    <3>1. i \in DOMAIN q /\ c[i] = q[i]
      BY <1>1, <2>2, <2>3
    <3> QED  BY <1>5, <2>1, <2>3, <3>1 DEF EntriesInOrder
  <2>4. CASE j > m /\ j - m \in DOMAIN r /\ c[j] = r[j - m]
    <3>1. CASE i \in DOMAIN q /\ c[i] = q[i]
      <4>1. ToSet(c[i].ids) \subseteq IdsIn(q) /\ ToSet(c[j].ids) \subseteq IdsIn(r)
        BY <2>4, <3>1 DEF IdsIn
      <4> QED  BY <1>5, <2>1, <4>1 DEF Before
    <3>2. CASE i > m /\ i - m \in DOMAIN r /\ c[i] = r[i - m]
      <4>1. i - m \in 1 .. (j - m) - 1
        BY <2>2, <3>2
      <4> QED  BY <1>5, <2>1, <2>4, <3>2, <4>1 DEF EntriesInOrder
    <3> QED  BY <1>2, <2>2, <3>1, <3>2
  <2> QED  BY <1>2, <2>3, <2>4
<1> QED  BY <1>4, <1>5 DEF c

\* The oldest make room: they are older than the rest.
LEMMA CutInOrder ==
    ASSUME NEW X, NEW q \in Seq(X), NEW k \in 0 .. Len(q)
    PROVE  LET a == SubSeq(q, 1, k)
               b == SubSeq(q, k + 1, Len(q))
           IN  /\ IdsIn(a) \cup IdsIn(b) = IdsIn(q) /\ ViewIds(a) \cup ViewIds(b) = ViewIds(q)
               /\ EntriesInOrder(q) => EntriesInOrder(b) /\ Before(IdsIn(a), IdsIn(b))
               /\ ViewInOrder(q) => ViewInOrder(b) /\ Before(ViewIds(a), ViewIds(b))
<1> DEFINE a == SubSeq(q, 1, k)
           b == SubSeq(q, k + 1, Len(q))
           n == Len(q)
<1>1. k \in Nat /\ n \in Nat /\ k <= n /\ DOMAIN q = 1 .. n
  OBVIOUS
<1>2. /\ DOMAIN a = 1 .. k /\ \A i \in 1 .. k : a[i] = q[i]
      /\ DOMAIN b = 1 .. n - k /\ \A i \in 1 .. n - k : b[i] = q[k + i]
  <2>1. \A i \in 1 .. k : q[i] \in X
    BY <1>1
  <2>2. /\ a \in Seq(X) /\ Len(a) = (IF 1 <= k THEN k - 1 + 1 ELSE 0)
        /\ \A i \in 1 .. k - 1 + 1 : a[i] = q[1 + i - 1]
    BY <1>1, <2>1, SubSeqProperties
  <2>3. \A i \in k + 1 .. n : q[i] \in X
    BY <1>1
  <2>4. /\ b \in Seq(X) /\ Len(b) = (IF k + 1 <= n THEN n - (k + 1) + 1 ELSE 0)
        /\ \A i \in 1 .. n - (k + 1) + 1 : b[i] = q[(k + 1) + i - 1]
    <3>1. k + 1 \in Int /\ n \in Int
      BY <1>1
    <3> QED  BY <2>3, <3>1, SubSeqProperties
  <2> HIDE DEF a, b, n
  <2>5. Len(a) = k /\ Len(b) = n - k
    BY <1>1, <2>2, <2>4
  <2>6. DOMAIN a = 1 .. k /\ DOMAIN b = 1 .. n - k
    BY <2>2, <2>4, <2>5
  <2>7. \A i \in 1 .. k : a[i] = q[i]
    <3> TAKE i \in 1 .. k
    <3>1. i \in 1 .. k - 1 + 1 /\ 1 + i - 1 = i
      BY <1>1
    <3> QED  BY <2>2, <3>1
  <2>8. \A i \in 1 .. n - k : b[i] = q[k + i]
    <3> TAKE i \in 1 .. n - k
    <3>1. i \in 1 .. n - (k + 1) + 1 /\ (k + 1) + i - 1 = k + i
      BY <1>1
    <3> QED  BY <2>4, <3>1
  <2> QED  BY <2>6, <2>7, <2>8
<1> HIDE DEF a, b, n
<1>3. \A i \in DOMAIN q : \/ i \in DOMAIN a /\ a[i] = q[i]
                          \/ i - k \in DOMAIN b /\ b[i - k] = q[i]
  <2> TAKE i \in DOMAIN q
  <2>1. i \in Nat /\ 1 <= i /\ i <= n
    BY <1>1
  <2>2. CASE i <= k
    <3>1. i \in 1 .. k
      BY <1>1, <2>1, <2>2
    <3>2. i \in DOMAIN a /\ a[i] = q[i]
      BY <1>2, <3>1
    <3> QED  BY <3>2
  <2>3. CASE ~(i <= k)
    <3>1. i - k \in 1 .. n - k /\ k + (i - k) = i
      BY <1>1, <2>1, <2>3
    <3>2. b[i - k] = q[k + (i - k)]
      BY <1>2, <3>1
    <3> QED  BY <1>2, <3>1, <3>2
  <2> QED  BY <2>2, <2>3
<1>4. /\ \A i \in DOMAIN a : i \in DOMAIN q /\ a[i] = q[i]
      /\ \A i \in DOMAIN b : k + i \in DOMAIN q /\ b[i] = q[k + i]
  BY <1>1, <1>2
<1>5. \A i \in DOMAIN a, j \in DOMAIN b : i \in 1 .. (k + j) - 1
  BY <1>1, <1>2
<1>6. \A j \in DOMAIN b : \A i \in 1 .. j - 1 : i \in DOMAIN b /\ k + i \in 1 .. (k + j) - 1
  BY <1>1, <1>2
<1>7. IdsIn(a) \cup IdsIn(b) = IdsIn(q)
  <2>1. IdsIn(a) \subseteq IdsIn(q) /\ IdsIn(b) \subseteq IdsIn(q)
    BY <1>4 DEF IdsIn
  <2>2. ASSUME NEW x \in IdsIn(q) PROVE x \in IdsIn(a) \cup IdsIn(b)
    <3>1. PICK i \in DOMAIN q : x \in ToSet(q[i].ids)
      BY DEF IdsIn
    <3> QED  BY <1>3, <3>1 DEF IdsIn
  <2> QED  BY <2>1, <2>2
<1>8. ViewIds(a) \cup ViewIds(b) = ViewIds(q)
  <2>1. ViewIds(a) \subseteq ViewIds(q) /\ ViewIds(b) \subseteq ViewIds(q)
    BY <1>4 DEF ViewIds
  <2>2. ASSUME NEW x \in ViewIds(q) PROVE x \in ViewIds(a) \cup ViewIds(b)
    <3>1. PICK i \in DOMAIN q : x = q[i].id
      BY DEF ViewIds
    <3> QED  BY <1>3, <3>1 DEF ViewIds
  <2> QED  BY <2>1, <2>2
<1>9. EntriesInOrder(q) => EntriesInOrder(b) /\ Before(IdsIn(a), IdsIn(b))
  <2> SUFFICES ASSUME EntriesInOrder(q)
               PROVE  EntriesInOrder(b) /\ Before(IdsIn(a), IdsIn(b))
    OBVIOUS
  <2>1. EntriesInOrder(b)
    BY <1>4, <1>6 DEF EntriesInOrder
  <2>2. ASSUME NEW x \in IdsIn(a), NEW y \in IdsIn(b) PROVE x < y
    <3>1. PICK i \in DOMAIN a : x \in ToSet(a[i].ids)
      BY DEF IdsIn
    <3>2. PICK j \in DOMAIN b : y \in ToSet(b[j].ids)
      BY DEF IdsIn
    <3>3. Before(ToSet(q[i].ids), ToSet(q[k + j].ids))
      BY <1>4, <1>5 DEF EntriesInOrder
    <3> QED  BY <1>4, <3>1, <3>2, <3>3 DEF Before
  <2> QED  BY <2>1, <2>2 DEF Before
<1>10. ViewInOrder(q) => ViewInOrder(b) /\ Before(ViewIds(a), ViewIds(b))
  <2> SUFFICES ASSUME ViewInOrder(q)
               PROVE  ViewInOrder(b) /\ Before(ViewIds(a), ViewIds(b))
    OBVIOUS
  <2>1. ViewInOrder(b)
    BY <1>4, <1>6 DEF ViewInOrder
  <2>2. \A i \in DOMAIN a, j \in DOMAIN b : a[i].id < b[j].id
    BY <1>4, <1>5 DEF ViewInOrder
  <2> QED  BY <2>1, <2>2 DEF Before, ViewIds
<1> QED  BY <1>7, <1>8, <1>9, <1>10 DEF a, b, n

\* What is picked keeps its order.
LEMMA PickedRises ==
    ASSUME NEW X, NEW q \in Seq(X), NEW kept \in SUBSET DOMAIN q
    PROVE  \A m, n \in DOMAIN Pick(q, kept) : m < n =>
              \E i, j \in kept : i < j /\ Pick(q, kept)[m] = q[i] /\ Pick(q, kept)[n] = q[j]
<1> DEFINE upto(i) == {j \in kept : j <= i}
           nth(n) == CHOOSE i \in kept : Cardinality(upto(i)) = n
           c == Cardinality(kept)
<1>1. DOMAIN q = 1 .. Len(q) /\ Len(q) \in Nat
  OBVIOUS
<1>2. IsFiniteSet(kept) /\ c \in Nat
  <2>1. IsFiniteSet(1 .. Len(q))
    BY <1>1, FS_Interval
  <2>2. IsFiniteSet(kept)
    BY <1>1, <2>1, FS_Subset
  <2> QED  BY <2>2, FS_CardinalityType
<1>3. \A n \in 1 .. c : nth(n) \in kept /\ Cardinality(upto(nth(n))) = n
  <2> TAKE n \in 1 .. c
  <2>1. kept \in SUBSET (1 .. Len(q)) /\ Len(q) \in Nat /\ n \in 1 .. Cardinality(kept)
    BY <1>1
  <2>2. \E i \in kept : Cardinality({j \in kept : j <= i}) = n
    BY ZenonT(40), <2>1, Ranked
  <2> QED  BY <2>2
<1>4. Pick(q, kept) = [n \in 1 .. c |-> q[nth(n)]]
  BY DEF Pick
<1>5. \A i, j \in kept : j <= i => Cardinality(upto(j)) <= Cardinality(upto(i))
  <2> SUFFICES ASSUME NEW i \in kept, NEW j \in kept, j <= i
               PROVE  Cardinality(upto(j)) <= Cardinality(upto(i))
    OBVIOUS
  <2>1. i \in Nat /\ j \in Nat /\ kept \subseteq Nat
    BY <1>1
  <2>2. upto(j) \subseteq upto(i)
    BY <2>1
  <2>3. upto(i) \subseteq kept
    OBVIOUS
  <2> HIDE DEF upto
  <2>4. IsFiniteSet(upto(i))
    BY <1>2, <2>3, FS_Subset
  <2> QED  BY <2>2, <2>4, FS_Subset
<1> HIDE DEF upto, nth, c
<1>6. ASSUME NEW m \in 1 .. c, NEW n \in 1 .. c, m < n PROVE nth(m) < nth(n)
  <2>1. ~(nth(n) <= nth(m))
    <3>1. nth(n) <= nth(m) => Cardinality(upto(nth(n))) <= Cardinality(upto(nth(m)))
      BY <1>3, <1>5
    <3>2. m \in Nat /\ n \in Nat
      BY <1>2
    <3> QED  BY <1>3, <1>6, <3>1, <3>2
  <2>2. nth(m) \in Nat /\ nth(n) \in Nat
    <3>1. kept \subseteq Nat
      BY <1>1
    <3> QED  BY <1>3, <3>1
  <2> QED  BY <2>1, <2>2
<1>7. DOMAIN Pick(q, kept) = 1 .. c /\ \A n \in 1 .. c : Pick(q, kept)[n] = q[nth(n)]
  BY <1>4
<1> QED  BY <1>3, <1>6, <1>7

LEMMA PickInOrder ==
    ASSUME NEW X, NEW q \in Seq(X), NEW kept \in SUBSET DOMAIN q
    PROVE  LET r == Pick(q, kept)
           IN  /\ IdsIn(r) \subseteq IdsIn(q) /\ ViewIds(r) \subseteq ViewIds(q)
               /\ EntriesInOrder(q) => EntriesInOrder(r)
               /\ ViewInOrder(q) => ViewInOrder(r)
<1> DEFINE r == Pick(q, kept)
<1>1. r \in Seq(X) /\ \A n \in DOMAIN r : \E i \in kept : r[n] = q[i]
  BY Picked
<1>2. \A m, n \in DOMAIN r : m < n => \E i, j \in kept : i < j /\ r[m] = q[i] /\ r[n] = q[j]
  BY PickedRises
<1> HIDE DEF r
<1>3. \A n \in DOMAIN r : \A m \in 1 .. n - 1 : m \in DOMAIN r /\ m < n
  <2>1. DOMAIN r = 1 .. Len(r) /\ Len(r) \in Nat
    BY <1>1
  <2> QED  BY <2>1
<1>4. \A i, j \in kept : i < j => i \in 1 .. j - 1
  <2>1. DOMAIN q = 1 .. Len(q) /\ Len(q) \in Nat
    OBVIOUS
  <2> QED  BY <2>1
<1>5. IdsIn(r) \subseteq IdsIn(q) /\ ViewIds(r) \subseteq ViewIds(q)
  BY <1>1 DEF IdsIn, ViewIds
<1>6. EntriesInOrder(q) => EntriesInOrder(r)
  <2> SUFFICES ASSUME EntriesInOrder(q), NEW n \in DOMAIN r
               PROVE  /\ Ascends(r[n].ids)
                      /\ \A m \in 1 .. n - 1 : Before(ToSet(r[m].ids), ToSet(r[n].ids))
    BY DEF EntriesInOrder
  <2>1. Ascends(r[n].ids)
    BY <1>1 DEF EntriesInOrder
  <2>2. ASSUME NEW m \in 1 .. n - 1 PROVE Before(ToSet(r[m].ids), ToSet(r[n].ids))
    <3>1. PICK i \in kept, j \in kept : i < j /\ r[m] = q[i] /\ r[n] = q[j]
      BY <1>2, <1>3
    <3> QED  BY <1>4, <3>1 DEF EntriesInOrder
  <2> QED  BY <2>1, <2>2
<1>7. ViewInOrder(q) => ViewInOrder(r)
  <2> SUFFICES ASSUME ViewInOrder(q), NEW n \in DOMAIN r, NEW m \in 1 .. n - 1
               PROVE  r[m].id < r[n].id
    BY DEF ViewInOrder
  <2>1. PICK i \in kept, j \in kept : i < j /\ r[m] = q[i] /\ r[n] = q[j]
    BY <1>2, <1>3
  <2> QED  BY <1>4, <2>1 DEF ViewInOrder
<1> QED  BY <1>5, <1>6, <1>7 DEF r

\* The first entry and the rest.
LEMMA FirstInOrder ==
    ASSUME NEW X, NEW q \in Seq(X), q # <<>>, EntriesInOrder(q)
    PROVE  /\ IdsIn(q) = ToSet(Head(q).ids) \cup IdsIn(Tail(q))
           /\ Before(ToSet(Head(q).ids), IdsIn(Tail(q)))
           /\ Ascends(Head(q).ids) /\ EntriesInOrder(Tail(q))
<1> DEFINE d == Tail(q)
           n == Len(q)
<1>1. /\ n \in Nat /\ DOMAIN q = 1 .. n /\ Head(q) = q[1] /\ 1 \in DOMAIN q
      /\ DOMAIN d = 1 .. n - 1 /\ \A k \in 1 .. n - 1 : d[k] = q[k + 1]
  OBVIOUS
<1> HIDE DEF d, n
<1>2. \A k \in DOMAIN d :
         /\ k + 1 \in DOMAIN q /\ d[k] = q[k + 1] /\ 1 \in 1 .. (k + 1) - 1
         /\ \A i \in 1 .. k - 1 : i \in DOMAIN d /\ i + 1 \in 1 .. (k + 1) - 1
  BY <1>1
<1>3. \A k \in DOMAIN q : k # 1 => k - 1 \in DOMAIN d /\ d[k - 1] = q[k]
  BY <1>1
<1>4. IdsIn(q) = ToSet(q[1].ids) \cup IdsIn(d)
  <2>1. ASSUME NEW x \in IdsIn(q) PROVE x \in ToSet(q[1].ids) \cup IdsIn(d)
    <3>1. PICK k \in DOMAIN q : x \in ToSet(q[k].ids)
      BY DEF IdsIn
    <3> QED  BY <1>3, <3>1 DEF IdsIn
  <2>2. ToSet(q[1].ids) \subseteq IdsIn(q) /\ IdsIn(d) \subseteq IdsIn(q)
    BY <1>1, <1>2 DEF IdsIn
  <2> QED  BY <2>1, <2>2
<1>5. Before(ToSet(q[1].ids), IdsIn(d))
  <2> SUFFICES ASSUME NEW k \in DOMAIN d PROVE Before(ToSet(q[1].ids), ToSet(d[k].ids))
    BY DEF Before, IdsIn
  <2> QED  BY <1>2 DEF EntriesInOrder
<1>6. Ascends(q[1].ids) /\ EntriesInOrder(d)
  BY <1>1, <1>2 DEF EntriesInOrder
<1> QED  BY <1>1, <1>4, <1>5, <1>6 DEF d

\* The newest, at the end.
LEMMA AppendInOrder ==
    ASSUME NEW X, NEW q \in Seq(X), NEW x \in X, NEW r, r = Append(q, x)
    PROVE  /\ IdsIn(r) = IdsIn(q) \cup ToSet(x.ids)
           /\ EntriesInOrder(q) /\ Ascends(x.ids) /\ Before(IdsIn(q), ToSet(x.ids))
                 => EntriesInOrder(r)
<1> DEFINE n == Len(q)
<1>1. /\ n \in Nat /\ DOMAIN q = 1 .. n /\ DOMAIN r = 1 .. n + 1 /\ r[n + 1] = x
      /\ \A k \in 1 .. n : r[k] = q[k]
  OBVIOUS
<1> HIDE DEF n
<1>2. \A k \in DOMAIN r : (k \in DOMAIN q /\ r[k] = q[k]) \/ (k = n + 1 /\ r[k] = x)
  BY <1>1
<1>3. /\ \A k \in DOMAIN q : k \in DOMAIN r /\ r[k] = q[k]
      /\ n + 1 \in DOMAIN r /\ r[n + 1] = x
  BY <1>1
<1>4. \A k \in DOMAIN r : \A i \in 1 .. k - 1 : i \in DOMAIN q
  BY <1>1
<1>5. IdsIn(r) = IdsIn(q) \cup ToSet(x.ids)
  <2>1. IdsIn(q) \subseteq IdsIn(r) /\ ToSet(x.ids) \subseteq IdsIn(r)
    BY <1>3 DEF IdsIn
  <2>2. ASSUME NEW y \in IdsIn(r) PROVE y \in IdsIn(q) \cup ToSet(x.ids)
    <3>1. PICK k \in DOMAIN r : y \in ToSet(r[k].ids)
      BY DEF IdsIn
    <3> QED  BY <1>2, <3>1 DEF IdsIn
  <2> QED  BY <2>1, <2>2
<1>6. ASSUME EntriesInOrder(q), Ascends(x.ids), Before(IdsIn(q), ToSet(x.ids))
      PROVE  EntriesInOrder(r)
  <2>1. \A k \in DOMAIN r : Ascends(r[k].ids)
    BY <1>2, <1>6 DEF EntriesInOrder
  <2>2. ASSUME NEW k \in DOMAIN r, NEW i \in 1 .. k - 1
        PROVE  Before(ToSet(r[i].ids), ToSet(r[k].ids))
    <3>1. i \in DOMAIN q /\ r[i] = q[i]
      BY <1>3, <1>4
    <3>2. ToSet(q[i].ids) \subseteq IdsIn(q)
      BY <3>1 DEF IdsIn
    <3> QED  BY <1>2, <1>6, <3>1, <3>2 DEF EntriesInOrder, Before
  <2> QED  BY <2>1, <2>2 DEF EntriesInOrder
<1> QED  BY <1>5, <1>6

LEMMA AppendToView ==
    ASSUME NEW X, NEW q \in Seq(X), NEW x \in X, NEW r, r = Append(q, x)
    PROVE  /\ ViewIds(r) = ViewIds(q) \cup {x.id}
           /\ ViewInOrder(q) /\ Before(ViewIds(q), {x.id}) => ViewInOrder(r)
<1> DEFINE n == Len(q)
<1>1. /\ n \in Nat /\ DOMAIN q = 1 .. n /\ DOMAIN r = 1 .. n + 1 /\ r[n + 1] = x
      /\ \A k \in 1 .. n : r[k] = q[k]
  OBVIOUS
<1> HIDE DEF n
<1>2. \A k \in DOMAIN r : (k \in DOMAIN q /\ r[k] = q[k]) \/ (k = n + 1 /\ r[k] = x)
  BY <1>1
<1>3. /\ \A k \in DOMAIN q : k \in DOMAIN r /\ r[k] = q[k]
      /\ n + 1 \in DOMAIN r /\ r[n + 1] = x
  BY <1>1
<1>4. \A k \in DOMAIN r : \A i \in 1 .. k - 1 : i \in DOMAIN q
  BY <1>1
<1>5. ViewIds(r) = ViewIds(q) \cup {x.id}
  <2>1. ViewIds(q) \subseteq ViewIds(r) /\ x.id \in ViewIds(r)
    BY <1>3 DEF ViewIds
  <2>2. ASSUME NEW y \in ViewIds(r) PROVE y \in ViewIds(q) \cup {x.id}
    BY <1>2 DEF ViewIds
  <2> QED  BY <2>1, <2>2
<1>6. ASSUME ViewInOrder(q), Before(ViewIds(q), {x.id}) PROVE ViewInOrder(r)
  <2> SUFFICES ASSUME NEW k \in DOMAIN r, NEW i \in 1 .. k - 1 PROVE r[i].id < r[k].id
    BY DEF ViewInOrder
  <2>1. i \in DOMAIN q /\ r[i] = q[i] /\ q[i].id \in ViewIds(q)
    BY <1>3, <1>4 DEF ViewIds
  <2> QED  BY <1>2, <1>6, <2>1 DEF ViewInOrder, Before
<1> QED  BY <1>5, <1>6

\* The time of an entry ends: nothing else changes.
LEMMA LateInOrder ==
    ASSUME NEW X, NEW q \in Seq(X), NEW r, DOMAIN r = DOMAIN q
    PROVE  /\ (\A i \in DOMAIN q : r[i].ids = q[i].ids) =>
                 IdsIn(r) = IdsIn(q) /\ (EntriesInOrder(q) => EntriesInOrder(r))
           /\ (\A i \in DOMAIN q : r[i].id = q[i].id) =>
                 ViewIds(r) = ViewIds(q) /\ (ViewInOrder(q) => ViewInOrder(r))
<1>1. \A j \in DOMAIN q : \A i \in 1 .. j - 1 : i \in DOMAIN q
  <2>1. DOMAIN q = 1 .. Len(q) /\ Len(q) \in Nat
    OBVIOUS
  <2> QED  BY <2>1
<1>2. ASSUME \A i \in DOMAIN q : r[i].ids = q[i].ids
      PROVE  IdsIn(r) = IdsIn(q) /\ (EntriesInOrder(q) => EntriesInOrder(r))
  <2>1. IdsIn(r) = IdsIn(q)
    BY <1>2 DEF IdsIn
  <2>2. EntriesInOrder(q) => EntriesInOrder(r)
    BY <1>1, <1>2 DEF EntriesInOrder
  <2> QED  BY <2>1, <2>2
<1>3. ASSUME \A i \in DOMAIN q : r[i].id = q[i].id
      PROVE  ViewIds(r) = ViewIds(q) /\ (ViewInOrder(q) => ViewInOrder(r))
  <2>1. ViewIds(r) = ViewIds(q)
    BY <1>3 DEF ViewIds
  <2>2. ViewInOrder(q) => ViewInOrder(r)
    BY <1>1, <1>3 DEF ViewInOrder
  <2> QED  BY <2>1, <2>2
<1> QED  BY <1>2, <1>3

-----------------------------------------------------------------------------
(* The invariant.                                                          *)

\* Between these no input is lost, and none overtakes another, at any step of a turn.
SentOnce(w) ==
    \A j \in DOMAIN w :
        Ascends(w[j].ids)
        /\ \A i \in 1 .. j - 1 : ToSet(w[i].ids) \cap ToSet(w[j].ids) = {}

InOrder(c, o, p, v) ==
    TurnInOrder(c) /\ EntriesInOrder(o) /\ Ascends(p) /\ ViewInOrder(v)

HeldFit ==
    /\ KeysFit
    /\ InOrder(turn, outbox, pending, pendingInputQueue)
    /\ SentOnce(onWire)
    /\ Placed(TypedIds, Of(turn, "flushEntries"), IdsIn(outbox), Of(turn, "deliver"),
              ToSet(pending), Of(turn, "submit"), ViewIds(pendingInputQueue),
              IdsIn(onWire), rejected)
    /\ gate # "blocked" => pendingInputQueue = <<>>

\* What fits in every step.
LEMMA HeldParts ==
    ASSUME HeldFit
    PROVE  /\ turn \in Seq(Calling(typed)) /\ typed \in Seq(Input)
           /\ pendingInputQueue \in Seq(ViewEntry(typed))
           /\ outbox \in Seq(OutEntry(typed)) /\ onWire \in Seq(WireEntry(typed))
           /\ pending \in Seq(Nat)
BY DEF HeldFit, KeysFit, TurnFits

LEMMA EmptySets ==
    /\ \A name : Of(<<>>, name) = {}
    /\ Carried(<<>>) = {} /\ TurnInOrder(<<>>)
    /\ IdsIn(<<>>) = {} /\ ViewIds(<<>>) = {} /\ ToSet(<<>>) = {}
    /\ EntriesInOrder(<<>>) /\ ViewInOrder(<<>>) /\ Ascends(<<>>)
<1>1. DOMAIN <<>> = {}
  OBVIOUS
<1> QED
  BY <1>1 DEF Of, Carried, TurnInOrder, IdsIn, ViewIds, ToSet, EntriesInOrder, ViewInOrder,
              Ascends

\* Calls without inputs.
LEMMA PlainInOrder ==
    ASSUME NEW c, \A k \in DOMAIN c : c[k].call \notin {"submit", "deliver", "flushEntries"}
    PROVE  TurnInOrder(c) /\ Carried(c) = {}
           /\ \A name \in {"submit", "deliver", "flushEntries"} : Of(c, name) = {}
<1>1. \A k \in DOMAIN c : Inputs(c[k]) = {}
  BY DEF Inputs
<1> QED  BY <1>1 DEF TurnInOrder, Carried, Of, CallInOrder, Before

\* What is appended to the wire was not on it.
LEMMA SentOnceMore ==
    ASSUME NEW X, NEW w \in Seq(X), NEW e \in X, SentOnce(w), Ascends(e.ids),
           IdsIn(w) \cap ToSet(e.ids) = {}
    PROVE  SentOnce(Append(w, e))
<1> DEFINE r == Append(w, e)
           n == Len(w)
<1>1. /\ n \in Nat /\ DOMAIN w = 1 .. n /\ DOMAIN r = 1 .. n + 1 /\ r[n + 1] = e
      /\ \A k \in 1 .. n : r[k] = w[k]
  OBVIOUS
<1> HIDE DEF r, n
<1>2. \A k \in DOMAIN r : (k \in DOMAIN w /\ r[k] = w[k]) \/ (k = n + 1 /\ r[k] = e)
  BY <1>1
<1>3. \A k \in DOMAIN r : \A i \in 1 .. k - 1 : i \in DOMAIN w /\ r[i] = w[i]
  BY <1>1
<1>4. \A i \in DOMAIN w : ToSet(w[i].ids) \cap ToSet(e.ids) = {}
  BY DEF IdsIn
<1>5. \A k \in DOMAIN r : Ascends(r[k].ids)
  BY <1>2 DEF SentOnce
<1>6. \A k \in DOMAIN r : \A i \in 1 .. k - 1 : ToSet(r[i].ids) \cap ToSet(r[k].ids) = {}
  BY <1>2, <1>3, <1>4 DEF SentOnce
<1>7. SentOnce(r)
  BY <1>5, <1>6 DEF SentOnce
<1> QED  BY <1>7 DEF r

LEMMA SingleInOrder ==
    ASSUME NEW x, CallInOrder(x)
    PROVE  /\ TurnInOrder(<<x>>) /\ Carried(<<x>>) = Inputs(x)
           /\ \A name : Of(<<x>>, name) = IF x.call = name THEN Inputs(x) ELSE {}
<1> DEFINE c == <<x>>
<1>1. DOMAIN c = {1} /\ c[1] = x
  OBVIOUS
<1> HIDE DEF c
<1>2. Carried(c) = Inputs(x)
  BY <1>1 DEF Carried
<1>3. \A name : Of(c, name) = IF x.call = name THEN Inputs(x) ELSE {}
  <2> TAKE name
  <2>1. CASE x.call = name
    <3>1. {j \in DOMAIN c : c[j].call = name} = {1}
      BY <1>1, <2>1
    <3> QED  BY <1>1, <2>1, <3>1 DEF Of
  <2>2. CASE x.call # name
    <3>1. {j \in DOMAIN c : c[j].call = name} = {}
      BY <1>1, <2>2
    <3> QED  BY <2>2, <3>1 DEF Of
  <2> QED  BY <2>1, <2>2
<1>4. TurnInOrder(c)
  <2>1. \A j, k \in DOMAIN c : ~(j < k)
    BY <1>1
  <2>2. \A k \in DOMAIN c : k = 1 /\ CallInOrder(c[k])
    BY <1>1
  <2> QED  BY <2>1, <2>2 DEF TurnInOrder
<1> QED  BY <1>2, <1>3, <1>4 DEF c

\* What the head of a turn and the rest of it carry.
LEMMA HeadHeld ==
    ASSUME HeldFit, turn # <<>>
    PROVE  /\ Tail(turn) \in Seq(Calling(typed)) /\ TurnInOrder(Tail(turn))
           /\ Head(turn) \in Calling(typed) /\ CallInOrder(Head(turn))
           /\ Before(Inputs(Head(turn)), Carried(Tail(turn)))
           /\ \A k \in DOMAIN Tail(turn) :
                 /\ Tail(turn)[k].call # "flushEntries"
                 /\ Head(turn).call # "deliver" => Tail(turn)[k].call # "deliver"
           /\ Of(Tail(turn), "flushEntries") = {}
           /\ Head(turn).call # "deliver" => Of(Tail(turn), "deliver") = {}
           /\ Head(turn).call \notin Urgent => Carried(Tail(turn)) = {}
           /\ Carried(Tail(turn)) = Of(Tail(turn), "deliver") \cup Of(Tail(turn), "submit")
           /\ \A name : Of(turn, name) =
                 (IF Head(turn).call = name THEN Inputs(Head(turn)) ELSE {})
                 \cup Of(Tail(turn), name)
<1> DEFINE d == Tail(turn)
<1>1. turn \in Seq(Calling(typed)) /\ TurnInOrder(turn) /\ TurnFits(turn, typed, at)
  BY HeldParts DEF HeldFit, InOrder, KeysFit
<1>2. /\ TurnInOrder(d) /\ CallInOrder(Head(turn))
      /\ \A name : Of(turn, name) =
            (IF Head(turn).call = name THEN Inputs(Head(turn)) ELSE {}) \cup Of(d, name)
      /\ Before(Inputs(Head(turn)), Carried(d))
      /\ \A k \in DOMAIN d : /\ d[k].call # "flushEntries"
                             /\ Head(turn).call # "deliver" => d[k].call # "deliver"
  BY <1>1, TailInOrder
<1>3. /\ TurnFits(d, typed, at) /\ Head(turn) \in Calling(typed)
      /\ Head(turn).call \notin Urgent => \A k \in DOMAIN d : d[k].call \notin Urgent
  BY <1>1, TailFits
<1> HIDE DEF d
<1>4. Of(d, "flushEntries") = {} /\ (Head(turn).call # "deliver" => Of(d, "deliver") = {})
  BY <1>2 DEF Of
<1>5. Head(turn).call \notin Urgent => Of(d, "submit") = {} /\ Head(turn).call # "deliver"
  BY <1>3 DEF Of, Urgent
<1>6. Carried(d) = Of(d, "deliver") \cup Of(d, "submit")
  BY <1>4, CarriedParts
<1>7. Head(turn).call \notin Urgent => Carried(d) = {}
  BY <1>4, <1>5, <1>6
<1>8. d \in Seq(Calling(typed))
  BY <1>3 DEF TurnFits
<1> QED  BY <1>2, <1>3, <1>4, <1>6, <1>7, <1>8 DEF d

\* A step of a turn moves what its head carries.
LEMMA StepHeld ==
    ASSUME HeldFit, turn # <<>>, KeysFit', typed' = typed,
           NEW u \in Seq(Calling(typed)), turn' = u \o Tail(turn),
           TurnInOrder(u), Before(Carried(u), Carried(Tail(turn))),
           Head(turn).call # "deliver" \/ u = <<>>,
           EntriesInOrder(outbox'), Ascends(pending'), ViewInOrder(pendingInputQueue'),
           SentOnce(onWire'),
           Placed(TypedIds, Of(u, "flushEntries"), IdsIn(outbox'),
                  Of(u, "deliver") \cup Of(Tail(turn), "deliver"), ToSet(pending'),
                  Of(u, "submit") \cup Of(Tail(turn), "submit"), ViewIds(pendingInputQueue'),
                  IdsIn(onWire'), rejected'),
           gate' # "blocked" => pendingInputQueue' = <<>>
    PROVE  HeldFit'
<1> DEFINE d == Tail(turn)
<1>1. /\ d \in Seq(Calling(typed)) /\ TurnInOrder(d) /\ Of(d, "flushEntries") = {}
      /\ \A k \in DOMAIN d : /\ d[k].call # "flushEntries"
                             /\ Head(turn).call # "deliver" => d[k].call # "deliver"
  BY HeadHeld
<1> HIDE DEF d
<1>2. \/ \A k \in DOMAIN d : d[k].call # "deliver"
      \/ \A k \in DOMAIN u : u[k].call = "deliver"
  BY <1>1
<1>3. TurnInOrder(u \o d) /\ \A name : Of(u \o d, name) = Of(u, name) \cup Of(d, name)
  <2>1. Before(Carried(u), Carried(d))
    BY DEF d
  <2> QED  BY <1>1, <1>2, <2>1, PushInOrder
<1>4. turn' = u \o d
  BY DEF d
<1>5. /\ TurnInOrder(turn') /\ Of(turn', "flushEntries") = Of(u, "flushEntries")
      /\ Of(turn', "deliver") = Of(u, "deliver") \cup Of(d, "deliver")
      /\ Of(turn', "submit") = Of(u, "submit") \cup Of(d, "submit")
  BY <1>1, <1>3, <1>4
<1>6. TypedIds' = TypedIds
  BY DEF TypedIds
<1>7. InOrder(turn', outbox', pending', pendingInputQueue')
  BY <1>5 DEF InOrder
<1>8. Placed(TypedIds', Of(turn', "flushEntries"), IdsIn(outbox'), Of(turn', "deliver"),
             ToSet(pending'), Of(turn', "submit"), ViewIds(pendingInputQueue'),
             IdsIn(onWire'), rejected')
  BY <1>5, <1>6 DEF d
<1> HIDE DEF d
<1> QED
  BY <1>7, <1>8 DEF HeldFit, InOrder, SentOnce, Placed, Rising, Whole, Of, IdsIn, ViewIds,
                    TurnInOrder, EntriesInOrder, ViewInOrder, Inputs, CallInOrder, TypedIds

LEMMA HeadPlaced ==
    ASSUME HeldFit, turn # <<>>
    PROVE  LET h == Head(turn)
               d == Tail(turn)
               In(name) == IF h.call = name THEN Inputs(h) ELSE {}
           IN  Placed(TypedIds, In("flushEntries"), IdsIn(outbox),
                      In("deliver") \cup Of(d, "deliver"), ToSet(pending),
                      In("submit") \cup Of(d, "submit"), ViewIds(pendingInputQueue),
                      IdsIn(onWire), rejected)
<1> DEFINE h == Head(turn)
           d == Tail(turn)
           In(name) == IF h.call = name THEN Inputs(h) ELSE {}
<1>1. Of(d, "flushEntries") = {} /\ \A name : Of(turn, name) = In(name) \cup Of(d, name)
  BY HeadHeld
<1> HIDE DEF In, d
<1>2. /\ Of(turn, "flushEntries") = In("flushEntries")
      /\ Of(turn, "deliver") = In("deliver") \cup Of(d, "deliver")
      /\ Of(turn, "submit") = In("submit") \cup Of(d, "submit")
  BY <1>1
<1>3. Placed(TypedIds, Of(turn, "flushEntries"), IdsIn(outbox), Of(turn, "deliver"),
             ToSet(pending), Of(turn, "submit"), ViewIds(pendingInputQueue),
             IdsIn(onWire), rejected)
  BY DEF HeldFit
<1> QED  BY <1>2, <1>3 DEF In, d

\* A head that carries nothing, and that emits nothing.
LEMMA QuietHeld ==
    ASSUME HeldFit, turn # <<>>, KeysFit',
           Head(turn).call \in {"sync", "gate", "markClosed", "flushOutbox", "rejectOutbox"},
           NEW u \in Seq(Calling(typed)), turn' = u \o Tail(turn),
           \A k \in DOMAIN u : u[k].call \notin {"submit", "deliver", "flushEntries"},
           UNCHANGED <<typed, outbox, pending, pendingInputQueue, onWire, rejected>>,
           gate' # "blocked" => pendingInputQueue = <<>>
    PROVE  HeldFit'
<1>1. /\ TurnInOrder(u) /\ Carried(u) = {}
      /\ Of(u, "submit") = {} /\ Of(u, "deliver") = {} /\ Of(u, "flushEntries") = {}
  BY PlainInOrder
<1>2. /\ EntriesInOrder(outbox) /\ Ascends(pending) /\ ViewInOrder(pendingInputQueue)
      /\ SentOnce(onWire)
  BY DEF HeldFit, InOrder
<1>3. Placed(TypedIds, {}, IdsIn(outbox), Of(Tail(turn), "deliver"), ToSet(pending),
             Of(Tail(turn), "submit"), ViewIds(pendingInputQueue), IdsIn(onWire), rejected)
  BY HeadPlaced
<1>4. Before(Carried(u), Carried(Tail(turn)))
  BY <1>1 DEF Before
<1> QED  BY <1>1, <1>2, <1>3, <1>4, StepHeld

LEMMA SyncTransportHeld == ASSUME HeldFit, KeysFit', SyncTransport PROVE HeldFit'
<1>1. turn # <<>> /\ Head(turn).call = "sync"
  BY DEF SyncTransport, Calls
<1> DEFINE u == <<Call("gate")>>
<1>2. /\ turn' = u \o Tail(turn)
      /\ UNCHANGED <<typed, outbox, pending, pendingInputQueue, onWire, rejected, gate>>
  BY DEF SyncTransport, Then, sequencerVars, outVars
<1>3. Call("gate") \in Calling(typed) /\ Call("gate").call = "gate"
  BY DEF Call, Calling, Plain
<1>4. u \in Seq(Calling(typed)) /\ \A k \in DOMAIN u : u[k].call = "gate"
  BY <1>3
<1>5. gate' # "blocked" => pendingInputQueue = <<>>
  BY <1>2 DEF HeldFit
<1> HIDE DEF u
<1> QED  BY <1>1, <1>2, <1>4, <1>5, QuietHeld

LEMMA MarkClosedHeld == ASSUME HeldFit, KeysFit', MarkClosed PROVE HeldFit'
<1>1. turn # <<>> /\ Head(turn).call = "markClosed"
  BY DEF MarkClosed, Calls
<1>2. /\ turn' = <<>> \o Tail(turn)
      /\ UNCHANGED <<typed, outbox, pending, pendingInputQueue, onWire, rejected, gate>>
  BY DEF MarkClosed, Then, viewVars, sequencerVars, outVars
<1>3. <<>> \in Seq(Calling(typed)) /\ DOMAIN <<>> = {}
  OBVIOUS
<1>4. gate' # "blocked" => pendingInputQueue = <<>>
  BY <1>2 DEF HeldFit
<1> QED  BY <1>1, <1>2, <1>3, <1>4, QuietHeld

\* The gate lets what the view holds go, in its order, or gives it up.
LEMMA SyncGateHeld == ASSUME HeldFit, KeysFit', SyncGate PROVE HeldFit'
<1>1. turn # <<>> /\ Head(turn).call = "gate"
  BY DEF SyncGate, Calls
<1>2. UNCHANGED <<typed, outbox, pending, onWire>> /\ gate' = Capture
  BY DEF SyncGate, sequencerVars
<1>3. <<>> \in Seq(Calling(typed)) /\ DOMAIN <<>> = {}
  OBVIOUS
<1>4. CASE Capture = "blocked"
  <2>1. /\ turn' = <<>> \o Tail(turn) /\ gate' = "blocked"
        /\ UNCHANGED <<pendingInputQueue, rejected>>
    BY <1>2, <1>4 DEF SyncGate, Then
  <2> QED  BY <1>1, <1>2, <1>3, <2>1, QuietHeld
<1>5. CASE Capture # "blocked"
  <2> DEFINE kept == IF Capture = "open" THEN Pick(pendingInputQueue, HeldStillValid) ELSE <<>>
             u == [i \in DOMAIN kept |-> [call |-> "submit", id |-> kept[i].id]]
             V == ViewIds(pendingInputQueue)
  <2>1. /\ turn' = u \o Tail(turn) /\ pendingInputQueue' = <<>>
        /\ rejected' = rejected \cup (V \ ViewIds(kept))
    BY <1>5 DEF SyncGate, Then, Reject
  <2>2. kept \in Seq(ViewEntry(typed)) /\ ViewIds(kept) \subseteq V /\ ViewInOrder(kept)
    <3>1. CASE Capture = "open"
      <4>1. HeldStillValid \in SUBSET DOMAIN pendingInputQueue
        BY DEF HeldStillValid
      <4>2. pendingInputQueue \in Seq(ViewEntry(typed)) /\ ViewInOrder(pendingInputQueue)
        BY HeldParts DEF HeldFit, InOrder
      <4>3. kept = Pick(pendingInputQueue, HeldStillValid)
        BY <3>1
      <4> HIDE DEF kept
      <4> QED  BY <4>1, <4>2, <4>3, Picked, PickInOrder
    <3>2. CASE Capture # "open"
      <4>1. kept = <<>>
        BY <3>2
      <4> HIDE DEF kept
      <4> QED  BY <4>1, EmptySets
    <3> QED  BY <3>1, <3>2
  <2> HIDE DEF kept
  <2>3. /\ DOMAIN kept = 1 .. Len(kept) /\ Len(kept) \in Nat
        /\ \A i \in DOMAIN kept : kept[i] \in ViewEntry(typed) /\ kept[i].id \in Nat
    BY <2>2 DEF ViewEntry
  <2>4. /\ DOMAIN u = DOMAIN kept
        /\ \A i \in DOMAIN u : /\ u[i] \in Calling(typed) /\ u[i].call = "submit"
                               /\ Inputs(u[i]) = {kept[i].id}
    <3>1. \A i \in DOMAIN kept :
             LET x == [call |-> "submit", id |-> kept[i].id]
             IN  x \in Calling(typed) /\ x.call = "submit" /\ Inputs(x) = {kept[i].id}
      BY <2>3 DEF Calling, Inputs
    <3> QED  BY <3>1
  <2>5. u \in Seq(Calling(typed))
    BY <2>3, <2>4
  <2> HIDE DEF u
  <2>6. /\ Of(u, "submit") = ViewIds(kept) /\ Of(u, "deliver") = {}
        /\ Of(u, "flushEntries") = {}
    <3>1. {j \in DOMAIN u : u[j].call = "submit"} = DOMAIN kept
      BY <2>4
    <3>2. Of(u, "submit") = ViewIds(kept)
      BY <2>4, <3>1 DEF Of, ViewIds
    <3> QED  BY <2>4, <3>2 DEF Of
  <2>7. TurnInOrder(u)
    <3>1. \A j, k \in DOMAIN u : j < k => kept[j].id < kept[k].id
      <4> SUFFICES ASSUME NEW j \in DOMAIN u, NEW k \in DOMAIN u, j < k
                   PROVE  kept[j].id < kept[k].id
        OBVIOUS
      <4>1. j \in 1 .. k - 1
        BY <2>3, <2>4
      <4> QED  BY <2>2, <2>4, <4>1 DEF ViewInOrder
    <3> QED  BY <2>4, <3>1 DEF TurnInOrder, Before, CallInOrder
  <2>8. Carried(Tail(turn)) = {} /\ Of(Tail(turn), "deliver") = {}
        /\ Of(Tail(turn), "submit") = {}
    BY <1>1, HeadHeld DEF Urgent
  <2>9. Placed(TypedIds, {}, IdsIn(outbox), {}, ToSet(pending), {}, V, IdsIn(onWire), rejected)
    BY <1>1, <2>8, HeadPlaced
  <2>10. Placed(TypedIds, {}, IdsIn(outbox), {}, ToSet(pending), ViewIds(kept), {},
                IdsIn(onWire), rejected')
    BY <2>1, <2>2, <2>9, GateMoves
  <2>11. /\ EntriesInOrder(outbox) /\ Ascends(pending) /\ SentOnce(onWire)
         /\ ViewInOrder(<<>>) /\ ViewIds(<<>>) = {}
    BY EmptySets DEF HeldFit, InOrder
  <2>12. Before(Carried(u), Carried(Tail(turn)))
    BY <2>8 DEF Before
  <2> HIDE DEF V
  <2> QED  BY <1>1, <1>2, <2>1, <2>5, <2>6, <2>7, <2>8, <2>10, <2>11, <2>12, StepHeld
<1> QED  BY <1>4, <1>5

\* The characters that were gathered go on in one delivery.
LEMMA EmittedInOrder ==
    ASSUME HeldFit
    PROVE  /\ EmitPending \in Seq(Calling(typed)) /\ TurnInOrder(EmitPending)
           /\ Carried(EmitPending) = ToSet(pending)
           /\ Of(EmitPending, "deliver") = ToSet(pending)
           /\ Of(EmitPending, "submit") = {} /\ Of(EmitPending, "flushEntries") = {}
           /\ \A k \in DOMAIN EmitPending : EmitPending[k].call = "deliver"
<1>1. KeysFit /\ Ascends(pending)
  BY DEF HeldFit, InOrder
<1>2. /\ EmitPending \in Seq(Calling(typed))
      /\ \A k \in DOMAIN EmitPending : EmitPending[k].call = "deliver"
  BY <1>1, Emitted
<1>3. CASE pending = <<>>
  <2>1. EmitPending = <<>>
    BY <1>3 DEF EmitPending
  <2> QED  BY <1>2, <1>3, <2>1, EmptySets
<1>4. CASE pending # <<>>
  <2> DEFINE x == Emit(pending)
  <2>1. EmitPending = <<x>> /\ x.call = "deliver" /\ x.ids = pending
    BY <1>4 DEF EmitPending, Emit
  <2> HIDE DEF x
  <2>2. CallInOrder(x) /\ Inputs(x) = ToSet(pending)
    BY <1>1, <2>1 DEF CallInOrder, Inputs
  <2> QED  BY <1>2, <2>1, <2>2, SingleInOrder
<1> QED  BY <1>3, <1>4

\* What is submitted and what else is in its turn.
LEMMA SubmitParts ==
    ASSUME HeldFit, turn # <<>>, Head(turn).call = "submit"
    PROVE  /\ Head(turn).id \in Nat /\ Inputs(Head(turn)) = {Head(turn).id}
           /\ Of(Tail(turn), "deliver") = {}
           /\ Carried(Tail(turn)) = Of(Tail(turn), "submit")
           /\ Before({Head(turn).id}, Of(Tail(turn), "submit"))
           /\ Placed(TypedIds, {}, IdsIn(outbox), {}, ToSet(pending),
                     {Head(turn).id} \cup Of(Tail(turn), "submit"), ViewIds(pendingInputQueue),
                     IdsIn(onWire), rejected)
<1>1. /\ Head(turn) \in Calling(typed) /\ Of(Tail(turn), "deliver") = {}
      /\ Carried(Tail(turn)) = Of(Tail(turn), "submit")
      /\ Before(Inputs(Head(turn)), Carried(Tail(turn)))
  BY HeadHeld
<1>2. Head(turn).id \in Nat /\ Inputs(Head(turn)) = {Head(turn).id}
  BY <1>1, CallParts DEF Inputs
<1>3. Placed(TypedIds, {}, IdsIn(outbox), {} \cup Of(Tail(turn), "deliver"), ToSet(pending),
             {Head(turn).id} \cup Of(Tail(turn), "submit"), ViewIds(pendingInputQueue),
             IdsIn(onWire), rejected)
  BY <1>2, HeadPlaced
<1> QED  BY <1>1, <1>2, <1>3

\* What was gathered is older than what is submitted.
LEMMA GatheredOlder ==
    ASSUME NEW T, NEW F, NEW O, NEW D, NEW P, NEW B, NEW V, NEW S, NEW R,
           Placed(T, F, O, D, P, B, V, S, R)
    PROVE  Before(P, B) /\ Before(O, P) /\ Before(O, D) /\ Before(F, O)
           /\ S \cap (F \cup D) = {} /\ Before(S, V)
BY DEF Placed, Rising, Whole

LEMMA SubmitBoundaryHeld == ASSUME HeldFit, KeysFit', SubmitBoundary PROVE HeldFit'
<1>1. turn # <<>> /\ Head(turn).call = "submit"
  BY DEF SubmitBoundary, Calls
<1> DEFINE id == Head(turn).id
           B == Of(Tail(turn), "submit")
           x == Emit(<<id>>)
           u == EmitPending \o <<x>>
<1>2. /\ turn' = u \o Tail(turn) /\ pending' = <<>>
      /\ UNCHANGED <<typed, pendingInputQueue, gate, outbox, onWire, rejected>>
  BY DEF SubmitBoundary, Then, NothingPending, viewVars, outVars
<1>3. /\ id \in Nat /\ Of(Tail(turn), "deliver") = {} /\ Carried(Tail(turn)) = B
      /\ Before({id}, B)
      /\ Placed(TypedIds, {}, IdsIn(outbox), {}, ToSet(pending), {id} \cup B,
                ViewIds(pendingInputQueue), IdsIn(onWire), rejected)
  BY <1>1, SubmitParts
<1> HIDE DEF id, B
<1>4. /\ x \in Calling(typed) /\ CallInOrder(x) /\ Inputs(x) = {id} /\ x.call = "deliver"
  <2>1. /\ <<id>> \in Seq(Nat) /\ ToSet(<<id>>) = {id} /\ Ascends(<<id>>)
    <3>1. DOMAIN <<id>> = {1} /\ <<id>>[1] = id
      OBVIOUS
    <3>2. ToSet(<<id>>) = {id}
      BY <3>1 DEF ToSet
    <3>3. Ascends(<<id>>)
      BY <3>1 DEF Ascends
    <3> QED  BY <1>3, <3>2, <3>3
  <2>2. x.call = "deliver" /\ x.ids = <<id>>
    BY DEF Emit
  <2>3. x \in [call : {"deliver"}, ids : Seq(Nat)]
    BY <2>1 DEF Emit
  <2> HIDE DEF x
  <2> QED  BY <2>1, <2>2, <2>3 DEF Calling, CallInOrder, Inputs
<1> HIDE DEF x
<1>5. /\ TurnInOrder(<<x>>) /\ Carried(<<x>>) = {id} /\ Of(<<x>>, "deliver") = {id}
      /\ Of(<<x>>, "submit") = {} /\ Of(<<x>>, "flushEntries") = {}
      /\ <<x>> \in Seq(Calling(typed)) /\ \A k \in DOMAIN <<x>> : <<x>>[k].call = "deliver"
  BY <1>4, SingleInOrder
<1>6. /\ EmitPending \in Seq(Calling(typed)) /\ TurnInOrder(EmitPending)
      /\ Carried(EmitPending) = ToSet(pending) /\ Of(EmitPending, "deliver") = ToSet(pending)
      /\ Of(EmitPending, "submit") = {} /\ Of(EmitPending, "flushEntries") = {}
      /\ \A k \in DOMAIN EmitPending : EmitPending[k].call = "deliver"
  BY EmittedInOrder
<1>7. Before(ToSet(pending), {id} \cup B)
  BY <1>3, GatheredOlder
<1>8. /\ TurnInOrder(u) /\ Of(u, "deliver") = ToSet(pending) \cup {id}
      /\ Of(u, "submit") = {} /\ Of(u, "flushEntries") = {} /\ u \in Seq(Calling(typed))
  <2>1. Before(Carried(EmitPending), Carried(<<x>>))
    BY <1>5, <1>6, <1>7 DEF Before
  <2> DEFINE y == <<x>>
  <2>2. /\ TurnInOrder(u)
        /\ \A name : Of(u, name) = Of(EmitPending, name) \cup Of(y, name)
    <3>1. /\ y \in Seq(Calling(typed)) /\ TurnInOrder(y)
          /\ Before(Carried(EmitPending), Carried(y))
          /\ \A k \in DOMAIN y : y[k].call # "flushEntries"
      BY <1>5, <2>1
    <3>2. u = EmitPending \o y
      OBVIOUS
    <3> HIDE DEF u, y
    <3> QED  BY <1>6, <3>1, <3>2, PushInOrder
  <2>3. /\ Of(u, "deliver") = ToSet(pending) \cup {id} /\ Of(u, "submit") = {}
        /\ Of(u, "flushEntries") = {}
    BY <1>5, <1>6, <2>2
  <2>4. u \in Seq(Calling(typed))
    BY <1>5, <1>6
  <2> QED  BY <2>2, <2>3, <2>4
<1> HIDE DEF u
<1>9. Carried(u) = ToSet(pending) \cup {id}
  BY <1>8, CarriedParts
<1>10. Before(Carried(u), Carried(Tail(turn)))
  BY <1>3, <1>7, <1>9 DEF Before
<1>11. Placed(TypedIds, {}, IdsIn(outbox), ToSet(pending) \cup {id}, {}, B,
              ViewIds(pendingInputQueue), IdsIn(onWire), rejected)
  BY <1>3, BoundaryMoves
<1>12. /\ EntriesInOrder(outbox) /\ ViewInOrder(pendingInputQueue) /\ SentOnce(onWire)
       /\ Ascends(<<>>) /\ ToSet(<<>>) = {} /\ (gate # "blocked" => pendingInputQueue = <<>>)
  BY EmptySets DEF HeldFit, InOrder
<1>13. Placed(TypedIds, Of(u, "flushEntries"), IdsIn(outbox),
              Of(u, "deliver") \cup Of(Tail(turn), "deliver"), {},
              Of(u, "submit") \cup Of(Tail(turn), "submit"), ViewIds(pendingInputQueue),
              IdsIn(onWire), rejected)
  BY <1>3, <1>8, <1>11 DEF B
<1> QED  BY <1>1, <1>2, <1>8, <1>10, <1>12, <1>13, StepHeld

LEMMA FlushSequencerHeld == ASSUME HeldFit, KeysFit', FlushSequencer PROVE HeldFit'
<1>1. turn # <<>> /\ Head(turn).call = "flushSequencer"
  BY DEF FlushSequencer, Calls
<1>2. /\ turn' = EmitPending \o Tail(turn) /\ pending' = <<>>
      /\ UNCHANGED <<typed, pendingInputQueue, gate, outbox, onWire, rejected>>
  BY DEF FlushSequencer, Then, NothingPending, viewVars, outVars
<1>3. /\ Carried(Tail(turn)) = {} /\ Of(Tail(turn), "deliver") = {}
      /\ Of(Tail(turn), "submit") = {}
  BY <1>1, HeadHeld DEF Urgent
<1>4. Placed(TypedIds, {}, IdsIn(outbox), {}, ToSet(pending), {}, ViewIds(pendingInputQueue),
             IdsIn(onWire), rejected)
  BY <1>1, <1>3, HeadPlaced
<1>5. Placed(TypedIds, {}, IdsIn(outbox), ToSet(pending), {}, {}, ViewIds(pendingInputQueue),
             IdsIn(onWire), rejected)
  BY <1>4, EmitMoves
<1>6. /\ EntriesInOrder(outbox) /\ ViewInOrder(pendingInputQueue) /\ SentOnce(onWire)
      /\ Ascends(<<>>) /\ ToSet(<<>>) = {} /\ (gate # "blocked" => pendingInputQueue = <<>>)
  BY EmptySets DEF HeldFit, InOrder
<1>7. Before(Carried(EmitPending), Carried(Tail(turn)))
  BY <1>3 DEF Before
<1> QED  BY <1>1, <1>2, <1>3, <1>5, <1>6, <1>7, EmittedInOrder, StepHeld

LEMMA SubmitCharacterHeld == ASSUME HeldFit, KeysFit', SubmitCharacter PROVE HeldFit'
<1>1. turn # <<>> /\ Head(turn).call = "submit"
  BY DEF SubmitCharacter, Calls
<1> DEFINE id == Head(turn).id
           B == Of(Tail(turn), "submit")
<1>2. UNCHANGED <<typed, pendingInputQueue, gate, outbox, onWire, rejected>>
  BY DEF SubmitCharacter, viewVars, outVars
<1>3. /\ id \in Nat /\ Of(Tail(turn), "deliver") = {} /\ Carried(Tail(turn)) = B
      /\ Before({id}, B) /\ Inputs(Head(turn)) = {id}
      /\ Placed(TypedIds, {}, IdsIn(outbox), {}, ToSet(pending), {id} \cup B,
                ViewIds(pendingInputQueue), IdsIn(onWire), rejected)
  BY <1>1, SubmitParts
<1>4. /\ EntriesInOrder(outbox) /\ ViewInOrder(pendingInputQueue) /\ SentOnce(onWire)
      /\ Ascends(pending) /\ pending \in Seq(Nat)
      /\ Ascends(<<>>) /\ ToSet(<<>>) = {} /\ (gate # "blocked" => pendingInputQueue = <<>>)
  BY EmptySets, HeldParts DEF HeldFit, InOrder
<1>5. Before(ToSet(pending), {id} \cup B)
  BY <1>3, GatheredOlder
<1>6. /\ turn \in Seq(Calling(typed)) /\ Head(turn) \in Calling(typed)
      /\ CallInOrder(Head(turn)) /\ Tail(turn) \in Seq(Calling(typed))
  BY <1>1, HeldParts, HeadHeld
<1>7. CASE SpanIsFull
  <2> DEFINE x == Head(turn)
             u == EmitPending \o <<x>>
  <2>1. /\ EmitPending \in Seq(Calling(typed)) /\ TurnInOrder(EmitPending)
        /\ Carried(EmitPending) = ToSet(pending) /\ Of(EmitPending, "deliver") = ToSet(pending)
        /\ Of(EmitPending, "submit") = {} /\ Of(EmitPending, "flushEntries") = {}
        /\ \A k \in DOMAIN EmitPending : EmitPending[k].call = "deliver"
    BY EmittedInOrder
  <2>2. turn' = EmitPending \o turn /\ pending' = <<>>
    BY <1>7 DEF SubmitCharacter, NothingPending
  <2>3. <<x>> \in Seq(Calling(typed)) /\ turn = <<x>> \o Tail(turn)
    BY <1>1, <1>6
  <2>4. turn' = u \o Tail(turn)
    <3> HIDE DEF x
    <3> QED  BY <1>6, <2>1, <2>2, <2>3, ConcatAssociative
  <2>5. /\ TurnInOrder(<<x>>) /\ Carried(<<x>>) = {id} /\ Of(<<x>>, "submit") = {id}
        /\ Of(<<x>>, "deliver") = {} /\ Of(<<x>>, "flushEntries") = {}
        /\ \A k \in DOMAIN <<x>> : <<x>>[k].call = "submit"
    BY <1>1, <1>3, <1>6, SingleInOrder
  <2> DEFINE y == <<x>>
  <2>6. /\ TurnInOrder(u) /\ \A name : Of(u, name) = Of(EmitPending, name) \cup Of(y, name)
    <3>1. /\ y \in Seq(Calling(typed)) /\ TurnInOrder(y)
          /\ \A k \in DOMAIN y : y[k].call # "flushEntries"
      BY <2>3, <2>5
    <3>2. Before(Carried(EmitPending), Carried(y))
      BY <1>5, <2>1, <2>5 DEF Before
    <3>3. u = EmitPending \o y
      OBVIOUS
    <3> HIDE DEF x, u, y
    <3> QED  BY <2>1, <3>1, <3>2, <3>3, PushInOrder
  <2>7. u \in Seq(Calling(typed))
    BY <2>1, <2>3
  <2>8. /\ Of(u, "deliver") = ToSet(pending) /\ Of(u, "submit") = {id}
        /\ Of(u, "flushEntries") = {}
    BY <2>1, <2>5, <2>6
  <2> HIDE DEF u
  <2>9. Before(Carried(u), Carried(Tail(turn)))
    <3>1. Carried(u) = ToSet(pending) \cup {id}
      BY <2>8, CarriedParts
    <3> QED  BY <1>3, <1>5, <3>1 DEF Before
  <2> HIDE DEF id, B, x
  <2>10. Placed(TypedIds, {}, IdsIn(outbox), ToSet(pending), {}, {id} \cup B,
                ViewIds(pendingInputQueue), IdsIn(onWire), rejected)
    BY <1>3, EmitMoves
  <2>11. Placed(TypedIds, Of(u, "flushEntries"), IdsIn(outbox),
               Of(u, "deliver") \cup Of(Tail(turn), "deliver"), {},
               Of(u, "submit") \cup Of(Tail(turn), "submit"), ViewIds(pendingInputQueue),
               IdsIn(onWire), rejected)
    BY <1>3, <2>8, <2>10 DEF B
  <2> QED  BY <1>1, <1>2, <1>4, <2>2, <2>4, <2>6, <2>7, <2>9, <2>11, StepHeld
<1>8. CASE ~SpanIsFull
  <2>1. turn' = <<>> \o Tail(turn) /\ pending' = Append(pending, id)
    BY <1>8 DEF SubmitCharacter, Then
  <2> HIDE DEF id, B
  <2>2. Ascends(pending') /\ ToSet(pending') = ToSet(pending) \cup {id}
    <3> DEFINE n == Len(pending)
               p == Append(pending, id)
    <3>1. /\ n \in Nat /\ DOMAIN pending = 1 .. n /\ DOMAIN p = 1 .. n + 1 /\ p[n + 1] = id
          /\ \A k \in 1 .. n : p[k] = pending[k]
      BY <1>4
    <3> HIDE DEF n, p
    <3>2. \A k \in DOMAIN p : (k \in DOMAIN pending /\ p[k] = pending[k]) \/ (k = n + 1 /\ p[k] = id)
      BY <3>1
    <3>3. \A i, j \in DOMAIN p : i < j => i \in DOMAIN pending /\ p[i] = pending[i]
      BY <3>1
    <3>4. \A i \in DOMAIN pending : pending[i] < id
      BY <1>5 DEF Before, ToSet
    <3>5. Ascends(p)
      BY <1>4, <3>2, <3>3, <3>4 DEF Ascends
    <3>6. \A k \in DOMAIN pending : k \in DOMAIN p /\ p[k] = pending[k]
      BY <3>1
    <3>7. n + 1 \in DOMAIN p /\ p[n + 1] = id
      BY <3>1
    <3>8. ToSet(p) = ToSet(pending) \cup {id}
      BY <3>2, <3>6, <3>7 DEF ToSet
    <3> QED  BY <2>1, <3>5, <3>8 DEF p
  <2>3. Placed(TypedIds, {}, IdsIn(outbox), {}, ToSet(pending'), B,
               ViewIds(pendingInputQueue), IdsIn(onWire), rejected)
    BY <1>3, <2>2, GatherMoves
  <2>4. /\ <<>> \in Seq(Calling(typed)) /\ TurnInOrder(<<>>) /\ Of(<<>>, "deliver") = {}
        /\ Of(<<>>, "submit") = {} /\ Of(<<>>, "flushEntries") = {}
        /\ Before(Carried(<<>>), Carried(Tail(turn)))
    BY EmptySets DEF Before
  <2>5. Placed(TypedIds, Of(<<>>, "flushEntries"), IdsIn(outbox),
               Of(<<>>, "deliver") \cup Of(Tail(turn), "deliver"), ToSet(pending'),
               Of(<<>>, "submit") \cup Of(Tail(turn), "submit"), ViewIds(pendingInputQueue),
               IdsIn(onWire), rejected)
    BY <1>3, <2>3, <2>4 DEF B
  <2> QED  BY <1>1, <1>2, <1>4, <2>1, <2>2, <2>4, <2>5, StepHeld
<1> QED  BY <1>7, <1>8

\* A delivery, and what else is delivered in its turn.
LEMMA DeliverParts ==
    ASSUME HeldFit, turn # <<>>, Head(turn).call = "deliver"
    PROVE  /\ Head(turn).ids \in Seq(Nat) /\ Ascends(Head(turn).ids)
           /\ Before(ToSet(Head(turn).ids), Of(Tail(turn), "deliver"))
           /\ Placed(TypedIds, {}, IdsIn(outbox),
                     ToSet(Head(turn).ids) \cup Of(Tail(turn), "deliver"), ToSet(pending),
                     Of(Tail(turn), "submit"), ViewIds(pendingInputQueue),
                     IdsIn(onWire), rejected)
<1>1. /\ Head(turn) \in Calling(typed) /\ CallInOrder(Head(turn))
      /\ Before(Inputs(Head(turn)), Carried(Tail(turn)))
      /\ Of(Tail(turn), "deliver") \subseteq Carried(Tail(turn))
  BY HeadHeld
<1>2. Head(turn).ids \in Seq(Nat) /\ Inputs(Head(turn)) = ToSet(Head(turn).ids)
  BY <1>1, CallParts DEF Inputs
<1>3. Ascends(Head(turn).ids)
  BY <1>1 DEF CallInOrder
<1>4. Before(ToSet(Head(turn).ids), Of(Tail(turn), "deliver"))
  BY <1>1, <1>2 DEF Before
<1>5. Placed(TypedIds, {}, IdsIn(outbox),
             ToSet(Head(turn).ids) \cup Of(Tail(turn), "deliver"), ToSet(pending),
             {} \cup Of(Tail(turn), "submit"), ViewIds(pendingInputQueue),
             IdsIn(onWire), rejected)
  BY <1>2, HeadPlaced
<1> QED  BY <1>2, <1>3, <1>4, <1>5

\* A delivery is done: the turn goes on.
LEMMA DoneHeld ==
    ASSUME HeldFit, turn # <<>>, KeysFit', typed' = typed, turn' = <<>> \o Tail(turn),
           EntriesInOrder(outbox'), SentOnce(onWire'),
           UNCHANGED <<pending, pendingInputQueue, gate>>,
           Placed(TypedIds, {}, IdsIn(outbox'), Of(Tail(turn), "deliver"), ToSet(pending),
                  Of(Tail(turn), "submit"), ViewIds(pendingInputQueue),
                  IdsIn(onWire'), rejected')
    PROVE  HeldFit'
<1>1. /\ <<>> \in Seq(Calling(typed)) /\ TurnInOrder(<<>>)
      /\ Of(<<>>, "submit") = {} /\ Of(<<>>, "deliver") = {} /\ Of(<<>>, "flushEntries") = {}
      /\ Before(Carried(<<>>), Carried(Tail(turn)))
  BY EmptySets DEF Before
<1>2. /\ Ascends(pending) /\ ViewInOrder(pendingInputQueue)
      /\ gate # "blocked" => pendingInputQueue = <<>>
  BY DEF HeldFit, InOrder
<1> QED  BY <1>1, <1>2, StepHeld

LEMMA DeliverSentHeld == ASSUME HeldFit, KeysFit', DeliverSent PROVE HeldFit'
<1>1. turn # <<>> /\ Head(turn).call = "deliver"
  BY DEF DeliverSent, Calls
<1> DEFINE ids == Head(turn).ids
           D == Of(Tail(turn), "deliver")
           e == [ids |-> ids, gen |-> at.gen]
<1>2. /\ turn' = <<>> \o Tail(turn) /\ onWire' = Append(onWire, e) /\ at.closed = "none"
      /\ UNCHANGED <<typed, pending, pendingInputQueue, gate, outbox, rejected>>
  BY DEF DeliverSent, Then, OnWire, viewVars, sequencerVars, CanSend
<1>3. /\ ids \in Seq(Nat) /\ Ascends(ids) /\ Before(ToSet(ids), D)
      /\ Placed(TypedIds, {}, IdsIn(outbox), ToSet(ids) \cup D, ToSet(pending),
                Of(Tail(turn), "submit"), ViewIds(pendingInputQueue), IdsIn(onWire), rejected)
  BY <1>1, DeliverParts
<1>4. /\ onWire \in Seq(WireEntry(typed)) /\ SentOnce(onWire) /\ EntriesInOrder(outbox)
      /\ at.gen \in Nat
  <2>1. at \in At
    BY DEF HeldFit, KeysFit
  <2> QED  BY <2>1, HeldParts DEF HeldFit, InOrder, At
<1>5. e \in WireEntry(typed)
  <2>1. Head(turn) \in Calling(typed) /\ CallFits(Head(turn), typed, at)
    BY <1>1, HeadFits DEF HeldFit
  <2>2. \A id \in ToSet(ids) : OfGen(typed, id, at.gen)
    BY <1>1, <1>2, <2>1 DEF CallFits
  <2> HIDE DEF ids
  <2> QED  BY <1>3, <1>4, <2>2 DEF WireEntry
<1> HIDE DEF D
<1>6. e.ids = ids
  OBVIOUS
<1> HIDE DEF ids, e
<1>7. IdsIn(onWire) \cap ToSet(ids) = {}
  BY <1>3, GatheredOlder
<1>8. SentOnce(onWire') /\ IdsIn(onWire') = IdsIn(onWire) \cup ToSet(ids)
  <2> DEFINE w == Append(onWire, e)
  <2>1. SentOnce(w)
    BY Zenon, <1>3, <1>4, <1>5, <1>6, <1>7, SentOnceMore
  <2>2. w = onWire'
    BY <1>2
  <2>5. w = Append(onWire, e)
    OBVIOUS
  <2> HIDE DEF w
  <2> DEFINE X == WireEntry(typed)
  <2>4. onWire \in Seq(X) /\ e \in X
    BY <1>4, <1>5
  <2> HIDE DEF X
  <2>3. IdsIn(w) = IdsIn(onWire) \cup ToSet(e.ids)
    BY <2>4, <2>5, AppendInOrder
  <2> QED  BY <1>6, <2>1, <2>2, <2>3
<1>9. Placed(TypedIds, {}, IdsIn(outbox), D, ToSet(pending), Of(Tail(turn), "submit"),
             ViewIds(pendingInputQueue), IdsIn(onWire'), rejected)
  <2>1. Placed(TypedIds, {}, IdsIn(outbox), D, ToSet(pending), Of(Tail(turn), "submit"),
               ViewIds(pendingInputQueue), IdsIn(onWire) \cup ToSet(ids), rejected)
    BY <1>3, DeliverMoves
  <2> QED  BY <1>8, <2>1
<1> QED  BY <1>1, <1>2, <1>4, <1>8, <1>9, DoneHeld DEF D

\* What joins the outbox is newer than what is in it, and the oldest make room.
LEMMA EnqueueHeld ==
    ASSUME HeldFit, NEW ids \in Seq(Nat), Ascends(ids), Enqueue(ids),
           NEW D, NEW B, Before(ToSet(ids), D),
           Placed(TypedIds, {}, IdsIn(outbox), ToSet(ids) \cup D, ToSet(pending), B,
                  ViewIds(pendingInputQueue), IdsIn(onWire), rejected)
    PROVE  /\ EntriesInOrder(outbox')
           /\ Placed(TypedIds, {}, IdsIn(outbox'), D, ToSet(pending), B,
                     ViewIds(pendingInputQueue), IdsIn(onWire), rejected')
<1> DEFINE e == [ids |-> ids, gen |-> at.gen, late |-> FALSE]
           q == Append(outbox, e)
           sizes == [i \in DOMAIN q |-> Len(q[i].ids)]
           k == Dropped(sizes, transportOutboxMaxBytes)
           X == [ids : Seq(Nat), gen : Nat, late : BOOLEAN]
<1>1. outbox \in Seq(X) /\ EntriesInOrder(outbox) /\ at.gen \in Nat
  <2>1. outbox \in Seq(OutEntry(typed)) /\ EntriesInOrder(outbox) /\ at \in At
    BY HeldParts DEF HeldFit, InOrder, KeysFit
  <2>2. OutEntry(typed) \subseteq X /\ at.gen \in Nat
    BY <2>1 DEF OutEntry, At
  <2> HIDE DEF X
  <2> QED  BY <2>1, <2>2
<1>2. CASE Len(ids) > transportOutboxMaxBytes
  <2>1. rejected' = rejected \cup ToSet(ids) /\ outbox' = outbox
    BY <1>2 DEF Enqueue
  <2>2. Placed(TypedIds, {}, IdsIn(outbox), D, ToSet(pending), B, ViewIds(pendingInputQueue),
               IdsIn(onWire), rejected \cup ToSet(ids))
    BY DeliverMoves
  <2> QED  BY <1>1, <2>1, <2>2
<1>3. CASE ~(Len(ids) > transportOutboxMaxBytes)
  <2>1. /\ outbox' = SubSeq(q, k + 1, Len(q))
        /\ rejected' = rejected \cup IdsIn(SubSeq(q, 1, k))
    BY <1>3 DEF Enqueue
  <2>2. e \in X /\ e.ids = ids
    BY <1>1
  <2> HIDE DEF e, X
  <2>3. /\ q \in Seq(X) /\ Len(q) \in Nat /\ DOMAIN q = 1 .. Len(q)
        /\ IdsIn(q) = IdsIn(outbox) \cup ToSet(ids)
        /\ EntriesInOrder(q)
    <3>1. Before(IdsIn(outbox), ToSet(ids))
      <4>1. Before(IdsIn(outbox), ToSet(ids) \cup D)
        BY GatheredOlder
      <4> QED  BY <4>1 DEF Before
    <3>2. q \in Seq(X)
      BY <1>1, <2>2
    <3>3. IdsIn(q) = IdsIn(outbox) \cup ToSet(ids) /\ EntriesInOrder(q)
      <4>1. q = Append(outbox, e)
        OBVIOUS
      <4> HIDE DEF q
      <4> QED  BY <1>1, <2>2, <3>1, <4>1, AppendInOrder
    <3> HIDE DEF q
    <3> QED  BY <3>2, <3>3
  <2> HIDE DEF q
  <2>4. Len(sizes) = Len(q)
    BY <2>3
  <2> HIDE DEF sizes
  <2>5. k \in 0 .. Len(q)
    <3>1. transportOutboxMaxBytes \in Nat
      BY BrowserAssumption
    <3> QED  BY <2>3, <2>4, <3>1, DropsSome
  <2> HIDE DEF k
  <2> DEFINE Y == IdsIn(SubSeq(q, 1, k))
             Q == IdsIn(SubSeq(q, k + 1, Len(q)))
  <2>6. Y \cup Q = IdsIn(q) /\ EntriesInOrder(SubSeq(q, k + 1, Len(q))) /\ Before(Y, Q)
    BY <2>3, <2>5, CutInOrder
  <2>7. IdsIn(outbox') = Q /\ rejected' = rejected \cup Y
    BY <2>1
  <2> HIDE DEF Y, Q
  <2>8. Placed(TypedIds, {}, Q, D, ToSet(pending), B, ViewIds(pendingInputQueue),
               IdsIn(onWire), rejected \cup Y)
    <3>1. IdsIn(outbox) \cup ToSet(ids) = Y \cup Q
      BY <2>3, <2>6
    <3> QED  BY <2>6, <3>1, EnqueueMoves
  <2> QED  BY <2>1, <2>6, <2>7, <2>8
<1> QED  BY <1>2, <1>3

\* What cannot be sent joins the outbox, or is given up.
LEMMA KeptHeld ==
    ASSUME HeldFit, KeysFit', turn # <<>>, Head(turn).call = "deliver",
           turn' = <<>> \o Tail(turn),
           \/ Enqueue(Head(turn).ids)
           \/ Reject(ToSet(Head(turn).ids)) /\ outbox' = outbox,
           UNCHANGED <<typed, pending, pendingInputQueue, gate, onWire>>
    PROVE  HeldFit'
<1> DEFINE ids == Head(turn).ids
           D == Of(Tail(turn), "deliver")
           B == Of(Tail(turn), "submit")
<1>1. /\ ids \in Seq(Nat) /\ Ascends(ids) /\ Before(ToSet(ids), D)
      /\ Placed(TypedIds, {}, IdsIn(outbox), ToSet(ids) \cup D, ToSet(pending), B,
                ViewIds(pendingInputQueue), IdsIn(onWire), rejected)
  BY DeliverParts
<1>2. SentOnce(onWire) /\ EntriesInOrder(outbox)
  BY DEF HeldFit, InOrder
<1>3. /\ EntriesInOrder(outbox')
      /\ Placed(TypedIds, {}, IdsIn(outbox'), D, ToSet(pending), B,
                ViewIds(pendingInputQueue), IdsIn(onWire), rejected')
  <2> HIDE DEF ids, D, B
  <2>1. CASE Enqueue(ids)  BY <1>1, <2>1, EnqueueHeld
  <2>2. CASE rejected' = rejected \cup ToSet(ids) /\ outbox' = outbox
    BY <1>1, <1>2, <2>2, DeliverMoves
  <2> QED  BY <2>1, <2>2 DEF Reject, ids
<1> QED  BY <1>2, <1>3, DoneHeld

LEMMA DeliverRefusedHeld ==
    ASSUME HeldFit, KeysFit', NEW failure, DeliverRefused(failure) PROVE HeldFit'
<1>1. turn # <<>> /\ Head(turn).call = "deliver"
  BY DEF DeliverRefused, Calls
<1>2. /\ turn' = <<>> \o Tail(turn)
      /\ \/ Enqueue(Head(turn).ids)
         \/ Reject(ToSet(Head(turn).ids)) /\ outbox' = outbox
      /\ UNCHANGED <<typed, pending, pendingInputQueue, gate, onWire>>
  BY DEF DeliverRefused, Then, viewVars, sequencerVars
<1> QED  BY <1>1, <1>2, KeptHeld

LEMMA DeliverHeldHeld == ASSUME HeldFit, KeysFit', DeliverHeld PROVE HeldFit'
<1>1. turn # <<>> /\ Head(turn).call = "deliver"
  BY DEF DeliverHeld, Calls
<1>2. /\ turn' = <<>> \o Tail(turn)
      /\ \/ Enqueue(Head(turn).ids)
         \/ Reject(ToSet(Head(turn).ids)) /\ outbox' = outbox
      /\ UNCHANGED <<typed, pending, pendingInputQueue, gate, onWire>>
  BY DEF DeliverHeld, Then, viewVars, sequencerVars
<1> QED  BY <1>1, <1>2, KeptHeld

\* Going through the outbox is one call.
LEMMA FlushInOrder ==
    ASSUME NEW t, NEW q \in Seq(OutEntry(t)), EntriesInOrder(q), NEW u, u = FlushEntries(q)
    PROVE  /\ u \in Seq(Calling(t)) /\ TurnInOrder(u) /\ Carried(u) = IdsIn(q)
           /\ Of(u, "flushEntries") = IdsIn(q) /\ Of(u, "deliver") = {}
           /\ Of(u, "submit") = {}
<1> DEFINE x == [call |-> "flushEntries", entries |-> q]
<1>1. u \in Seq(Calling(t))
  BY FlushEntriesFit
<1>2. CASE q = <<>>
  <2>1. u = <<>>
    BY <1>2 DEF FlushEntries
  <2> QED  BY <1>1, <1>2, <2>1, EmptySets
<1>3. CASE q # <<>>
  <2>1. u = <<x>> /\ x.call = "flushEntries" /\ x.entries = q
    BY <1>3 DEF FlushEntries
  <2> HIDE DEF x
  <2>2. CallInOrder(x) /\ Inputs(x) = IdsIn(q)
    BY <2>1 DEF CallInOrder, Inputs
  <2> QED  BY <1>1, <2>1, <2>2, SingleInOrder
<1> QED  BY <1>2, <1>3

\* A step of a turn that carries on without calls, or goes through entries.
LEMMA GoesThrough ==
    ASSUME HeldFit, turn # <<>>, KeysFit', typed' = typed,
           Head(turn).call \in {"rejectOutbox", "flushOutbox", "flushEntries"},
           NEW q \in Seq(OutEntry(typed)), EntriesInOrder(q),
           turn' = FlushEntries(q) \o Tail(turn),
           EntriesInOrder(outbox'), SentOnce(onWire'),
           UNCHANGED <<pending, pendingInputQueue, gate>>,
           Placed(TypedIds, IdsIn(q), IdsIn(outbox'), {}, ToSet(pending), {},
                  ViewIds(pendingInputQueue), IdsIn(onWire'), rejected')
    PROVE  HeldFit'
<1> DEFINE u == FlushEntries(q)
<1>0. u = FlushEntries(q)
  OBVIOUS
<1> HIDE DEF u
<1>1. /\ u \in Seq(Calling(typed)) /\ TurnInOrder(u) /\ Carried(u) = IdsIn(q)
      /\ Of(u, "flushEntries") = IdsIn(q) /\ Of(u, "deliver") = {} /\ Of(u, "submit") = {}
  BY <1>0, FlushInOrder
<1>2. turn' = u \o Tail(turn)
  BY <1>0
<1>3. Carried(Tail(turn)) = {} /\ Of(Tail(turn), "deliver") = {}
      /\ Of(Tail(turn), "submit") = {}
  BY HeadHeld DEF Urgent
<1>4. /\ Ascends(pending) /\ ViewInOrder(pendingInputQueue)
      /\ gate # "blocked" => pendingInputQueue = <<>>
  BY DEF HeldFit, InOrder
<1>5. Before(Carried(u), Carried(Tail(turn)))
  BY <1>3 DEF Before
<1>6. Placed(TypedIds, Of(u, "flushEntries"), IdsIn(outbox'),
             Of(u, "deliver") \cup Of(Tail(turn), "deliver"), ToSet(pending'),
             Of(u, "submit") \cup Of(Tail(turn), "submit"), ViewIds(pendingInputQueue'),
             IdsIn(onWire'), rejected')
  BY <1>1, <1>3
<1> QED  BY <1>1, <1>2, <1>4, <1>5, <1>6, StepHeld

\* Nothing else is under way when the outbox is gone through, or given up.
LEMMA OutboxParts ==
    ASSUME HeldFit, turn # <<>>,
           Head(turn).call \in {"rejectOutbox", "flushOutbox", "flushEntries"}
    PROVE  Placed(TypedIds,
                  IF Head(turn).call = "flushEntries" THEN IdsIn(Head(turn).entries) ELSE {},
                  IdsIn(outbox), {}, ToSet(pending), {}, ViewIds(pendingInputQueue),
                  IdsIn(onWire), rejected)
<1>1. Of(Tail(turn), "deliver") = {} /\ Of(Tail(turn), "submit") = {}
  BY HeadHeld DEF Urgent
<1>2. CASE Head(turn).call = "flushEntries"
  <2>1. Inputs(Head(turn)) = IdsIn(Head(turn).entries)
    BY <1>2 DEF Inputs
  <2>2. Placed(TypedIds, IdsIn(Head(turn).entries), IdsIn(outbox),
               {} \cup Of(Tail(turn), "deliver"), ToSet(pending),
               {} \cup Of(Tail(turn), "submit"), ViewIds(pendingInputQueue),
               IdsIn(onWire), rejected)
    BY <1>2, <2>1, HeadPlaced
  <2> QED  BY <1>1, <1>2, <2>2
<1>3. CASE Head(turn).call # "flushEntries"
  <2>1. Placed(TypedIds, {}, IdsIn(outbox), {} \cup Of(Tail(turn), "deliver"), ToSet(pending),
               {} \cup Of(Tail(turn), "submit"), ViewIds(pendingInputQueue),
               IdsIn(onWire), rejected)
    BY <1>3, HeadPlaced
  <2> QED  BY <1>1, <1>3, <2>1
<1> QED  BY <1>2, <1>3

LEMMA EmptyFlush == FlushEntries(<<>>) = <<>>
BY DEF FlushEntries

\* The outbox is given up.
LEMMA GivenUpHeld ==
    ASSUME HeldFit, turn # <<>>, KeysFit',
           Head(turn).call \in {"rejectOutbox", "flushOutbox"},
           turn' = <<>> \o Tail(turn), outbox' = <<>>, Reject(IdsIn(outbox)),
           UNCHANGED <<typed, pending, pendingInputQueue, gate, onWire>>
    PROVE  HeldFit'
<1>1. Placed(TypedIds, {}, IdsIn(outbox), {}, ToSet(pending), {}, ViewIds(pendingInputQueue),
             IdsIn(onWire), rejected)
  BY OutboxParts
<1>2. Placed(TypedIds, {}, {}, {}, ToSet(pending), {}, ViewIds(pendingInputQueue),
             IdsIn(onWire), rejected \cup (IdsIn(outbox) \ {}))
  BY <1>1, OutboxMoves
<1>3. rejected' = rejected \cup (IdsIn(outbox) \ {})
  BY DEF Reject
<1>4. SentOnce(onWire) /\ <<>> \in Seq(OutEntry(typed)) /\ EntriesInOrder(<<>>)
      /\ IdsIn(<<>>) = {}
  BY EmptySets DEF HeldFit
<1>5. turn' = FlushEntries(<<>>) \o Tail(turn)
  BY EmptyFlush
<1> QED  BY <1>2, <1>3, <1>4, <1>5, GoesThrough

LEMMA RejectOutboxHeld == ASSUME HeldFit, KeysFit', RejectOutbox PROVE HeldFit'
<1>1. turn # <<>> /\ Head(turn).call = "rejectOutbox"
  BY DEF RejectOutbox, Calls
<1>2. /\ turn' = <<>> \o Tail(turn) /\ outbox' = <<>> /\ Reject(IdsIn(outbox))
      /\ UNCHANGED <<typed, pending, pendingInputQueue, gate, onWire>>
  BY DEF RejectOutbox, Then, viewVars, sequencerVars
<1> QED  BY <1>1, <1>2, GivenUpHeld

LEMMA FlushOutboxHeld == ASSUME HeldFit, KeysFit', FlushOutbox PROVE HeldFit'
<1>1. turn # <<>> /\ Head(turn).call = "flushOutbox"
  BY DEF FlushOutbox, Calls
<1>2. UNCHANGED <<typed, pending, pendingInputQueue, gate, onWire>>
  BY DEF FlushOutbox, viewVars, sequencerVars
<1>3. CASE turn' = FlushEntries(outbox) \o Tail(turn) /\ outbox' = <<>> /\ rejected' = rejected
  <2>1. outbox \in Seq(OutEntry(typed)) /\ EntriesInOrder(outbox) /\ SentOnce(onWire)
    BY HeldParts DEF HeldFit, InOrder
  <2>2. Placed(TypedIds, {}, IdsIn(outbox), {}, ToSet(pending), {}, ViewIds(pendingInputQueue),
               IdsIn(onWire), rejected)
    BY <1>1, OutboxParts
  <2>3. Placed(TypedIds, IdsIn(outbox), {}, {}, ToSet(pending), {}, ViewIds(pendingInputQueue),
               IdsIn(onWire), rejected)
    BY <2>2, FlushMoves
  <2>4. EntriesInOrder(<<>>) /\ IdsIn(<<>>) = {}
    BY EmptySets
  <2> QED  BY <1>1, <1>2, <1>3, <2>1, <2>3, <2>4, GoesThrough
<1>4. CASE turn' = <<>> \o Tail(turn) /\ UNCHANGED <<outbox, rejected>>
  <2>1. <<>> \in Seq(Calling(typed)) /\ DOMAIN <<>> = {}
    OBVIOUS
  <2>2. gate' # "blocked" => pendingInputQueue = <<>>
    BY <1>2 DEF HeldFit
  <2> QED  BY <1>1, <1>2, <1>4, <2>1, <2>2, QuietHeld
<1>5. CASE turn' = <<>> \o Tail(turn) /\ outbox' = <<>> /\ Reject(IdsIn(outbox))
  BY <1>1, <1>2, <1>5, GivenUpHeld
<1> QED  BY <1>3, <1>4, <1>5 DEF FlushOutbox, Then

\* What is under way of the outbox: the first entry, and the rest.
LEMMA FlushedParts ==
    ASSUME HeldFit, turn # <<>>, Head(turn).call = "flushEntries"
    PROVE  LET r == Tail(Head(turn).entries)
           IN  /\ r \in Seq(OutEntry(typed)) /\ EntriesInOrder(r)
               /\ Flushed \in OutEntry(typed) /\ Ascends(Flushed.ids)
               /\ Before(ToSet(Flushed.ids), IdsIn(r))
               /\ Placed(TypedIds, ToSet(Flushed.ids) \cup IdsIn(r), IdsIn(outbox), {},
                         ToSet(pending), {}, ViewIds(pendingInputQueue), IdsIn(onWire),
                         rejected)
<1>1. /\ Head(turn).entries \in Seq(OutEntry(typed)) /\ Head(turn).entries # <<>>
      /\ EntriesInOrder(Head(turn).entries)
  <2>1. Head(turn) \in Calling(typed) /\ CallInOrder(Head(turn))
    BY HeadHeld
  <2> QED  BY <2>1, CallParts DEF CallInOrder
<1> DEFINE q == Head(turn).entries
           r == Tail(q)
<1>2. /\ IdsIn(q) = ToSet(Flushed.ids) \cup IdsIn(r) /\ Before(ToSet(Flushed.ids), IdsIn(r))
      /\ Ascends(Flushed.ids) /\ EntriesInOrder(r)
  BY <1>1, FirstInOrder DEF Flushed
<1>3. r \in Seq(OutEntry(typed)) /\ Flushed \in OutEntry(typed)
  BY <1>1 DEF Flushed
<1>4. Placed(TypedIds, IdsIn(q), IdsIn(outbox), {}, ToSet(pending), {},
             ViewIds(pendingInputQueue), IdsIn(onWire), rejected)
  BY OutboxParts
<1> QED  BY <1>2, <1>3, <1>4

LEMMA FlushDropsHeld == ASSUME HeldFit, KeysFit', FlushDrops PROVE HeldFit'
<1>1. turn # <<>> /\ Head(turn).call = "flushEntries"
  BY DEF FlushDrops, Calls
<1> DEFINE r == Tail(Head(turn).entries)
           Y == ToSet(Flushed.ids)
<1>2. /\ turn' = FlushEntries(r) \o Tail(turn) /\ rejected' = rejected \cup Y
      /\ UNCHANGED <<typed, pending, pendingInputQueue, gate, outbox, onWire>>
  BY DEF FlushDrops, Then, FlushRest, Reject, viewVars, sequencerVars
<1>3. /\ r \in Seq(OutEntry(typed)) /\ EntriesInOrder(r) /\ Before(Y, IdsIn(r))
      /\ Placed(TypedIds, Y \cup IdsIn(r), IdsIn(outbox), {}, ToSet(pending), {},
                ViewIds(pendingInputQueue), IdsIn(onWire), rejected)
  BY <1>1, FlushedParts
<1> HIDE DEF r, Y
<1>4. Placed(TypedIds, IdsIn(r), IdsIn(outbox), {}, ToSet(pending), {},
             ViewIds(pendingInputQueue), IdsIn(onWire), rejected \cup Y)
  BY <1>3, EntryMoves
<1>5. EntriesInOrder(outbox) /\ SentOnce(onWire)
  BY DEF HeldFit, InOrder
<1> QED  BY <1>1, <1>2, <1>3, <1>4, <1>5, GoesThrough

LEMMA FlushSendsHeld == ASSUME HeldFit, KeysFit', FlushSends PROVE HeldFit'
<1>1. turn # <<>> /\ Head(turn).call = "flushEntries"
  BY DEF FlushSends, Calls
<1> DEFINE r == Tail(Head(turn).entries)
           Y == ToSet(Flushed.ids)
           e == [ids |-> Flushed.ids, gen |-> at.gen]
           w == Append(onWire, e)
<1>2. /\ turn' = FlushEntries(r) \o Tail(turn) /\ onWire' = w /\ Flushed.gen = at.gen
      /\ UNCHANGED <<typed, pending, pendingInputQueue, gate, outbox, rejected>>
  BY DEF FlushSends, Then, FlushRest, OnWire, StillValid, viewVars, sequencerVars
<1>3. /\ r \in Seq(OutEntry(typed)) /\ EntriesInOrder(r) /\ Before(Y, IdsIn(r))
      /\ Flushed \in OutEntry(typed) /\ Ascends(Flushed.ids)
      /\ Placed(TypedIds, Y \cup IdsIn(r), IdsIn(outbox), {}, ToSet(pending), {},
                ViewIds(pendingInputQueue), IdsIn(onWire), rejected)
  BY <1>1, FlushedParts
<1>4. onWire \in Seq(WireEntry(typed)) /\ SentOnce(onWire) /\ EntriesInOrder(outbox)
  BY HeldParts DEF HeldFit, InOrder
<1>5. e \in WireEntry(typed) /\ e.ids = Flushed.ids
  BY <1>2, <1>3 DEF OutEntry, WireEntry
<1>6. w = Append(onWire, e)
  OBVIOUS
<1>11. ToSet(e.ids) = Y /\ Ascends(e.ids)
  BY <1>3
<1> HIDE DEF r, Y, e, w
<1>7. IdsIn(onWire) \cap Y = {}
  BY <1>3, GatheredOlder
<1>8. SentOnce(w)
  BY <1>4, <1>5, <1>6, <1>7, <1>11, SentOnceMore
<1>9. IdsIn(w) = IdsIn(onWire) \cup Y
  <2> DEFINE X == WireEntry(typed)
  <2>1. onWire \in Seq(X) /\ e \in X
    BY <1>4, <1>5
  <2> HIDE DEF X
  <2>2. IdsIn(w) = IdsIn(onWire) \cup ToSet(e.ids)
    BY <1>6, <2>1, AppendInOrder
  <2> QED  BY <1>11, <2>2
<1>10. Placed(TypedIds, IdsIn(r), IdsIn(outbox), {}, ToSet(pending), {},
              ViewIds(pendingInputQueue), IdsIn(onWire) \cup Y, rejected)
  BY <1>3, EntryMoves
<1> QED  BY <1>1, <1>2, <1>3, <1>4, <1>8, <1>9, <1>10, GoesThrough

\* What was refused is put back before the rest, or all of it is given up.
LEMMA FlushRefusedHeld ==
    ASSUME HeldFit, KeysFit', NEW failure, FlushRefused(failure) PROVE HeldFit'
<1>1. turn # <<>> /\ Head(turn).call = "flushEntries"
  BY DEF FlushRefused, Calls
<1> DEFINE q == Head(turn).entries
<1>2. /\ turn' = <<>> \o Tail(turn)
      /\ \/ outbox' = q \o outbox /\ rejected' = rejected
         \/ outbox' = outbox /\ rejected' = rejected \cup IdsIn(q)
      /\ UNCHANGED <<typed, pending, pendingInputQueue, gate, onWire>>
  BY DEF FlushRefused, Then, Reject, restored, viewVars, sequencerVars
<1>3. q \in Seq(OutEntry(typed)) /\ EntriesInOrder(q)
  <2>1. Head(turn) \in Calling(typed) /\ CallInOrder(Head(turn))
    BY <1>1, HeadHeld
  <2> QED  BY <1>1, <2>1, CallParts DEF CallInOrder
<1>4. Placed(TypedIds, IdsIn(q), IdsIn(outbox), {}, ToSet(pending), {},
             ViewIds(pendingInputQueue), IdsIn(onWire), rejected)
  BY <1>1, OutboxParts
<1> HIDE DEF q
<1>5. outbox \in Seq(OutEntry(typed)) /\ EntriesInOrder(outbox) /\ SentOnce(onWire)
  BY HeldParts DEF HeldFit, InOrder
<1>6. /\ EntriesInOrder(outbox')
      /\ Placed(TypedIds, {}, IdsIn(outbox'), {}, ToSet(pending), {},
                ViewIds(pendingInputQueue), IdsIn(onWire), rejected')
  <2>1. CASE outbox' = q \o outbox /\ rejected' = rejected
    <3>1. Before(IdsIn(q), IdsIn(outbox))
      BY <1>4, GatheredOlder
    <3>2. IdsIn(q \o outbox) = IdsIn(q) \cup IdsIn(outbox) /\ EntriesInOrder(q \o outbox)
      BY <1>3, <1>5, <3>1, ConcatInOrder
    <3>3. Placed(TypedIds, {}, IdsIn(q) \cup IdsIn(outbox), {}, ToSet(pending), {},
                 ViewIds(pendingInputQueue), IdsIn(onWire), rejected)
      BY <1>4, RestoreMoves
    <3> QED  BY <2>1, <3>2, <3>3
  <2>2. CASE outbox' = outbox /\ rejected' = rejected \cup IdsIn(q)
    <3>1. Placed(TypedIds, IdsIn(q) \cup {}, IdsIn(outbox), {}, ToSet(pending), {},
                 ViewIds(pendingInputQueue), IdsIn(onWire), rejected)
      BY <1>4
    <3>2. Before(IdsIn(q), {})
      BY DEF Before
    <3>3. Placed(TypedIds, {}, IdsIn(outbox), {}, ToSet(pending), {},
                 ViewIds(pendingInputQueue), IdsIn(onWire), rejected \cup IdsIn(q))
      BY <3>1, <3>2, EntryMoves
    <3> QED  BY <1>5, <2>2, <3>3
  <2> QED  BY <1>2, <2>1, <2>2
<1>7. /\ turn' = FlushEntries(<<>>) \o Tail(turn) /\ <<>> \in Seq(OutEntry(typed))
      /\ EntriesInOrder(<<>>) /\ IdsIn(<<>>) = {}
  BY <1>2, EmptyFlush, EmptySets
<1> QED  BY <1>1, <1>2, <1>5, <1>6, <1>7, GoesThrough

LEMMA TurnStepHeld == ASSUME HeldFit, KeysFit', TurnStep PROVE HeldFit'
BY SyncTransportHeld, SyncGateHeld, SubmitBoundaryHeld, SubmitCharacterHeld,
   FlushSequencerHeld, DeliverSentHeld, DeliverHeldHeld, DeliverRefusedHeld, RejectOutboxHeld,
   FlushOutboxHeld, FlushDropsHeld, FlushSendsHeld, FlushRefusedHeld, MarkClosedHeld
   DEF TurnStep

-----------------------------------------------------------------------------
(* Events, and the order.                                                  *)

\* Calls that carry no input.
Signal == [call : Plain] \cup [call : {"markClosed"}, reason : Reasons]

LEMMA SignalsInOrder ==
    ASSUME NEW c \in Seq(Signal)
    PROVE  TurnInOrder(c) /\ Of(c, "submit") = {} /\ Of(c, "deliver") = {}
           /\ Of(c, "flushEntries") = {}
<1>1. \A x \in Signal : x.call \notin {"submit", "deliver", "flushEntries"}
  BY DEF Signal, Plain
<1>2. \A k \in DOMAIN c : c[k] \in Signal
  OBVIOUS
<1> QED  BY <1>1, <1>2, PlainInOrder

LEMMA CallsSignal ==
    /\ \A name \in Plain : Call(name) \in Signal
    /\ flushTransportPipeline \in Seq(Signal)
    /\ \A reason \in Reasons : Closing(reason) \in Seq(Signal)
<1>1. \A name \in Plain : Call(name) \in Signal
  BY DEF Call, Signal
<1>2. flushTransportPipeline \in Seq(Signal)
  <2> DEFINE a == Call("flushSequencer")
             b == Call("flushOutbox")
  <2>1. a \in Signal /\ b \in Signal
    BY <1>1 DEF Plain
  <2>2. flushTransportPipeline = <<a, b>>
    BY DEF flushTransportPipeline
  <2> HIDE DEF a, b
  <2> QED  BY <2>1, <2>2
<1>3. ASSUME NEW reason \in Reasons PROVE Closing(reason) \in Seq(Signal)
  <2> DEFINE a == Close(reason)
             b == Call("sync")
             z == Call("rejectOutbox")
  <2>1. b \in Signal /\ z \in Signal
    BY <1>1 DEF Plain
  <2>2. a \in Signal
    BY DEF Close, Signal
  <2>3. Closing(reason) = <<a, b>> \o flushTransportPipeline \o <<z>>
    BY DEF Closing
  <2> HIDE DEF a, b, z
  <2>4. <<a, b>> \in Seq(Signal) /\ <<z>> \in Seq(Signal)
    BY <2>1, <2>2
  <2> QED  BY <1>2, <2>3, <2>4
<1> QED  BY <1>1, <1>2, <1>3

\* What is so in the next state of the parts is so of the whole.
LEMMA HeldNext ==
    ASSUME KeysFit', InOrder(turn', outbox', pending', pendingInputQueue'), SentOnce(onWire'),
           Placed(1 .. Len(typed'), Of(turn', "flushEntries"), IdsIn(outbox'),
                  Of(turn', "deliver"), ToSet(pending'), Of(turn', "submit"),
                  ViewIds(pendingInputQueue'), IdsIn(onWire'), rejected'),
           gate' # "blocked" => pendingInputQueue' = <<>>
    PROVE  HeldFit'
BY DEF HeldFit, InOrder, SentOnce, Placed, Rising, Whole, Of, IdsIn, ViewIds, TurnInOrder,
       EntriesInOrder, ViewInOrder, Inputs, CallInOrder, TypedIds

\* Between turns nothing is under way.
LEMMA RestParts ==
    ASSUME HeldFit, turn = <<>>
    PROVE  /\ EntriesInOrder(outbox) /\ Ascends(pending) /\ ViewInOrder(pendingInputQueue)
           /\ SentOnce(onWire) /\ (gate # "blocked" => pendingInputQueue = <<>>)
           /\ Placed(TypedIds, {}, IdsIn(outbox), {}, ToSet(pending), {},
                     ViewIds(pendingInputQueue), IdsIn(onWire), rejected)
<1>1. Of(turn, "flushEntries") = {} /\ Of(turn, "deliver") = {} /\ Of(turn, "submit") = {}
  BY EmptySets
<1>2. Placed(TypedIds, Of(turn, "flushEntries"), IdsIn(outbox), Of(turn, "deliver"),
             ToSet(pending), Of(turn, "submit"), ViewIds(pendingInputQueue), IdsIn(onWire),
             rejected)
  BY DEF HeldFit
<1> QED  BY <1>1, <1>2 DEF HeldFit, InOrder

\* An event that makes calls without inputs, and may take some of what waits.
LEMMA WaitingHeld ==
    ASSUME HeldFit, KeysFit', turn = <<>>, turn' \in Seq(Signal),
           UNCHANGED <<typed, pending, gate, onWire>>,
           EntriesInOrder(outbox'), ViewInOrder(pendingInputQueue'),
           Placed(TypedIds, {}, IdsIn(outbox'), {}, ToSet(pending), {},
                  ViewIds(pendingInputQueue'), IdsIn(onWire), rejected'),
           gate # "blocked" => pendingInputQueue' = <<>>
    PROVE  HeldFit'
<1>1. Ascends(pending) /\ SentOnce(onWire)
  BY RestParts
<1>2. /\ TurnInOrder(turn') /\ Of(turn', "submit") = {} /\ Of(turn', "deliver") = {}
      /\ Of(turn', "flushEntries") = {}
  BY SignalsInOrder
<1>3. InOrder(turn', outbox', pending', pendingInputQueue')
  BY <1>1, <1>2 DEF InOrder
<1>4. Placed(1 .. Len(typed'), Of(turn', "flushEntries"), IdsIn(outbox'),
             Of(turn', "deliver"), ToSet(pending'), Of(turn', "submit"),
             ViewIds(pendingInputQueue'), IdsIn(onWire'), rejected')
  BY <1>2 DEF TypedIds
<1> QED  BY <1>1, <1>3, <1>4, HeldNext

\* An event that leaves the inputs alone.
LEMMA TransportHeld ==
    ASSUME HeldFit, KeysFit', turn = <<>>, turn' \in Seq(Signal),
           UNCHANGED <<typed, pending, gate, onWire, outbox, pendingInputQueue, rejected>>
    PROVE  HeldFit'
BY RestParts, WaitingHeld

\* The newest input goes on, waits behind what waits, or is given up.
LEMMA TypeHeld == ASSUME HeldFit, KeysFit', NEW boundary, Type(boundary) PROVE HeldFit'
<1> DEFINE x == [boundary |-> boundary, gen |-> seen.gen]
           id == Len(typed) + 1
           y == [call |-> "submit", id |-> id]
           T == 1 .. Len(typed')
           V == ViewIds(pendingInputQueue)
<1>1. /\ turn = <<>> /\ typed' = Append(typed, x)
      /\ UNCHANGED <<pending, gate, outbox, onWire>>
      /\ \/ /\ gate = "open" /\ turn' = <<y>>
            /\ UNCHANGED <<pendingInputQueue, rejected>>
         \/ gate = "blocked" /\ turn' = <<>> /\ enqueuePendingInput(id)
         \/ turn' = <<>> /\ rejected' = rejected \cup {id} /\ UNCHANGED pendingInputQueue
  BY DEF Type, TurnIsOver, sequencerVars, transportReady, Reject
<1>2. /\ EntriesInOrder(outbox) /\ Ascends(pending) /\ ViewInOrder(pendingInputQueue)
      /\ SentOnce(onWire) /\ (gate # "blocked" => pendingInputQueue = <<>>)
      /\ Placed(TypedIds, {}, IdsIn(outbox), {}, ToSet(pending), {}, V, IdsIn(onWire), rejected)
  BY <1>1, RestParts
<1>3. typed \in Seq(Input) /\ seen \in Seen /\ pendingInputQueue \in Seq(ViewEntry(typed))
  BY DEF HeldFit, KeysFit
<1>4. id \in Nat /\ T = TypedIds \cup {id} /\ \A n \in TypedIds : n < id
  <2>1. Len(typed) \in Nat /\ Len(typed') = Len(typed) + 1
    BY <1>1, <1>3
  <2> QED  BY <2>1 DEF TypedIds
<1> HIDE DEF id, T, V
<1>5. CASE gate = "open" /\ turn' = <<y>> /\ UNCHANGED <<pendingInputQueue, rejected>>
  <2>1. V = {} /\ pendingInputQueue = <<>>
    BY <1>2, <1>5, EmptySets DEF V
  <2>2. Placed(T, {}, IdsIn(outbox), {}, ToSet(pending), {id}, V, IdsIn(onWire), rejected)
    BY <1>2, <1>4, <2>1, NewestMoves
  <2>3. y.call = "submit" /\ Inputs(y) = {id} /\ CallInOrder(y)
    BY DEF Inputs, CallInOrder
  <2> HIDE DEF y
  <2>4. /\ TurnInOrder(turn') /\ Of(turn', "submit") = {id} /\ Of(turn', "deliver") = {}
        /\ Of(turn', "flushEntries") = {}
    BY <1>5, <2>3, SingleInOrder
  <2>5. InOrder(turn', outbox', pending', pendingInputQueue')
    BY <1>1, <1>2, <1>5, <2>4 DEF InOrder
  <2>6. Placed(T, Of(turn', "flushEntries"), IdsIn(outbox'),
               Of(turn', "deliver"), ToSet(pending'), Of(turn', "submit"),
               ViewIds(pendingInputQueue'), IdsIn(onWire'), rejected')
    BY <1>1, <1>5, <2>2, <2>4 DEF V
  <2> QED  BY <1>1, <1>2, <1>5, <2>1, <2>5, <2>6, HeldNext DEF T
<1>6. ASSUME turn' = <<>>, ViewInOrder(pendingInputQueue'),
             Placed(T, {}, IdsIn(outbox), {}, ToSet(pending), {}, ViewIds(pendingInputQueue'),
                    IdsIn(onWire), rejected'),
             gate # "blocked" => pendingInputQueue' = <<>>
      PROVE  HeldFit'
  <2>1. /\ TurnInOrder(turn') /\ Of(turn', "submit") = {} /\ Of(turn', "deliver") = {}
        /\ Of(turn', "flushEntries") = {}
    BY <1>6, EmptySets
  <2>2. InOrder(turn', outbox', pending', pendingInputQueue')
    BY <1>1, <1>2, <1>6, <2>1 DEF InOrder
  <2>3. Placed(T, Of(turn', "flushEntries"), IdsIn(outbox'),
               Of(turn', "deliver"), ToSet(pending'), Of(turn', "submit"),
               ViewIds(pendingInputQueue'), IdsIn(onWire'), rejected')
    BY <1>1, <1>6, <2>1
  <2> QED  BY <1>1, <1>2, <1>6, <2>2, <2>3, HeldNext DEF T
<1>7. CASE turn' = <<>> /\ rejected' = rejected \cup {id} /\ UNCHANGED pendingInputQueue
  <2>1. Placed(T, {}, IdsIn(outbox), {}, ToSet(pending), {}, V, IdsIn(onWire),
               rejected \cup {id})
    BY <1>2, <1>4, NewestMoves
  <2> QED  BY <1>2, <1>6, <1>7, <2>1 DEF V
<1>8. CASE gate = "blocked" /\ turn' = <<>> /\ enqueuePendingInput(id)
  <2> DEFINE X == [id : Nat, gen : Nat, late : BOOLEAN]
             e == [id |-> id, gen |-> seen.gen, late |-> FALSE]
             q == Append(pendingInputQueue, e)
             sizes == [i \in DOMAIN q |-> 1]
             k == Dropped(sizes, inputQueueMaxBytes)
             older == SubSeq(q, 1, k)
             rest == SubSeq(q, k + 1, Len(q))
  <2>1. pendingInputQueue' = rest /\ rejected' = rejected \cup ViewIds(older)
    BY <1>8 DEF enqueuePendingInput, Reject
  <2>2. pendingInputQueue \in Seq(X) /\ e \in X /\ e.id = id
    <3>1. ViewEntry(typed) \subseteq X
      BY DEF ViewEntry
    <3>2. e \in X /\ e.id = id
      BY <1>3, <1>4 DEF Seen
    <3> HIDE DEF X, e
    <3> QED  BY <1>3, <3>1, <3>2
  <2> HIDE DEF X, e
  <2>3. q = Append(pendingInputQueue, e) /\ q \in Seq(X) /\ Len(q) \in Nat
        /\ DOMAIN q = 1 .. Len(q)
    BY <2>2
  <2>4. Len(sizes) \in Nat /\ Len(sizes) = Len(q)
    <3> HIDE DEF q
    <3> QED  BY <2>3
  <2> HIDE DEF q, sizes
  <2>5. k \in 0 .. Len(q)
    <3>1. inputQueueMaxBytes \in Nat
      BY BrowserAssumption
    <3> QED  BY <2>4, <3>1, DropsSome
  <2> HIDE DEF k
  <2>6. Placed(T, {}, IdsIn(outbox), {}, ToSet(pending), {}, V \cup {id}, IdsIn(onWire),
               rejected)
    BY <1>2, <1>4, NewestMoves
  <2>7. ViewIds(q) = V \cup {id} /\ ViewInOrder(q)
    <3>1. Before(V, {id})
      <4>1. V \subseteq TypedIds
        BY <1>2 DEF Placed, Whole
      <4> QED  BY <1>4, <4>1 DEF Before
    <3>2. q = Append(pendingInputQueue, e)
      BY <2>3
    <3>3. /\ ViewIds(q) = ViewIds(pendingInputQueue) \cup {e.id}
          /\ ViewInOrder(pendingInputQueue) /\ Before(ViewIds(pendingInputQueue), {e.id})
                => ViewInOrder(q)
      BY <2>2, <3>2, AppendToView
    <3> QED  BY <1>2, <2>2, <3>1, <3>3 DEF V
  <2>8. /\ ViewIds(older) \cup ViewIds(rest) = ViewIds(q)
        /\ ViewInOrder(rest) /\ Before(ViewIds(older), ViewIds(rest))
    BY <2>3, <2>5, <2>7, CutInOrder
  <2> HIDE DEF older, rest
  <2>9. ViewIds(older) \cap ViewIds(rest) = {}
    <3>1. ViewIds(older) \subseteq Nat
      BY <2>6, <2>7, <2>8 DEF Placed, Whole
    <3> QED  BY <2>8, <3>1, Apart
  <2>10. ViewIds(older) = ViewIds(q) \ ViewIds(rest) /\ ViewIds(rest) \in SUBSET (V \cup {id})
    BY <2>7, <2>8, <2>9
  <2>11. Placed(T, {}, IdsIn(outbox), {}, ToSet(pending), {}, ViewIds(rest), IdsIn(onWire),
                rejected \cup ((V \cup {id}) \ ViewIds(rest)))
    BY <2>6, <2>10, ViewMoves
  <2>12. Placed(T, {}, IdsIn(outbox), {}, ToSet(pending), {}, ViewIds(pendingInputQueue'),
                IdsIn(onWire), rejected')
    BY <2>1, <2>7, <2>10, <2>11
  <2> QED  BY <1>6, <1>8, <2>1, <2>8, <2>12
<1> QED  BY <1>1, <1>5, <1>7, <1>8

\* What is gathered goes on when its time is over.
LEMMA CoalesceTimerHeld == ASSUME HeldFit, KeysFit', CoalesceTimer PROVE HeldFit'
<1>1. /\ turn = <<>> /\ turn' = EmitPending /\ pending' = <<>>
      /\ UNCHANGED <<typed, pendingInputQueue, gate, outbox, onWire, rejected>>
  BY DEF CoalesceTimer, TurnIsOver, NothingPending, viewVars, outVars
<1>2. /\ EntriesInOrder(outbox) /\ ViewInOrder(pendingInputQueue)
      /\ SentOnce(onWire) /\ (gate # "blocked" => pendingInputQueue = <<>>)
      /\ Placed(TypedIds, {}, IdsIn(outbox), {}, ToSet(pending), {},
                ViewIds(pendingInputQueue), IdsIn(onWire), rejected)
  BY <1>1, RestParts
<1>3. /\ TurnInOrder(EmitPending) /\ Of(EmitPending, "deliver") = ToSet(pending)
      /\ Of(EmitPending, "submit") = {} /\ Of(EmitPending, "flushEntries") = {}
  BY EmittedInOrder
<1>4. Placed(TypedIds, {}, IdsIn(outbox), ToSet(pending), {}, {},
             ViewIds(pendingInputQueue), IdsIn(onWire), rejected)
  BY <1>2, EmitMoves
<1>5. Ascends(<<>>) /\ ToSet(<<>>) = {}
  BY EmptySets
<1>6. InOrder(turn', outbox', pending', pendingInputQueue')
  BY <1>1, <1>2, <1>3, <1>5 DEF InOrder
<1>7. Placed(1 .. Len(typed'), Of(turn', "flushEntries"), IdsIn(outbox'),
             Of(turn', "deliver"), ToSet(pending'), Of(turn', "submit"),
             ViewIds(pendingInputQueue'), IdsIn(onWire'), rejected')
  BY <1>1, <1>3, <1>4, <1>5 DEF TypedIds
<1> QED  BY <1>1, <1>2, <1>6, <1>7, HeldNext

\* The time of what waits is over.
LEMMA ExpireHeld == ASSUME HeldFit, KeysFit', ExpireView \/ ExpireOutbox PROVE HeldFit'
<1>1. turn = <<>> /\ turn' = <<>> /\ <<>> \in Seq(Signal)
      /\ UNCHANGED <<typed, pending, gate, onWire>>
  BY DEF ExpireView, ExpireOutbox, TurnIsOver, sequencerVars, viewVars
<1>2. /\ EntriesInOrder(outbox) /\ ViewInOrder(pendingInputQueue)
      /\ (gate # "blocked" => pendingInputQueue = <<>>)
      /\ Placed(TypedIds, {}, IdsIn(outbox), {}, ToSet(pending), {},
                ViewIds(pendingInputQueue), IdsIn(onWire), rejected)
  BY <1>1, RestParts
<1>3. /\ pendingInputQueue \in Seq(ViewEntry(typed)) /\ outbox \in Seq(OutEntry(typed))
  BY HeldParts
<1>4. CASE ExpireView
  <2> DEFINE over(e) == e.late /\ (typed[e.id].boundary \/ gate # "blocked")
             stay == {i \in DOMAIN pendingInputQueue : ~over(pendingInputQueue[i])}
             kept == Pick(pendingInputQueue, stay)
             V == ViewIds(pendingInputQueue)
  <2>1. /\ pendingInputQueue' = kept /\ rejected' = rejected \cup (V \ ViewIds(kept))
        /\ outbox' = outbox
    BY <1>4 DEF ExpireView, Reject
  <2>2. stay \in SUBSET DOMAIN pendingInputQueue
    OBVIOUS
  <2> HIDE DEF stay
  <2>3. ViewIds(kept) \subseteq V /\ ViewInOrder(kept)
    BY <1>2, <1>3, <2>2, PickInOrder
  <2>4. gate # "blocked" => kept = <<>>
    <3> SUFFICES ASSUME pendingInputQueue = <<>> PROVE kept = <<>>
      BY <1>2
    <3>1. kept \in Seq(ViewEntry(typed)) /\ \A n \in DOMAIN kept : \E i \in stay : TRUE
      BY <1>3, <2>2, Picked
    <3>2. stay = {}
      BY <2>2
    <3> HIDE DEF kept
    <3>3. DOMAIN kept = {}
      BY <3>1, <3>2
    <3> QED  BY <3>1, <3>3
  <2> HIDE DEF kept
  <2>5. Placed(TypedIds, {}, IdsIn(outbox), {}, ToSet(pending), {}, ViewIds(kept),
               IdsIn(onWire), rejected \cup (V \ ViewIds(kept)))
    BY <1>2, <2>3, ViewMoves
  <2> QED  BY <1>1, <1>2, <2>1, <2>3, <2>4, <2>5, WaitingHeld
<1>5. CASE ExpireOutbox
  <2> DEFINE stay == {i \in DOMAIN outbox : ~outbox[i].late}
             kept == Pick(outbox, stay)
             O == IdsIn(outbox)
  <2>1. /\ outbox' = kept /\ rejected' = rejected \cup (O \ IdsIn(kept))
        /\ pendingInputQueue' = pendingInputQueue
    BY <1>5 DEF ExpireOutbox, Reject, viewVars
  <2>2. stay \in SUBSET DOMAIN outbox
    OBVIOUS
  <2> HIDE DEF stay
  <2>3. IdsIn(kept) \subseteq O /\ EntriesInOrder(kept)
    BY <1>2, <1>3, <2>2, PickInOrder
  <2> HIDE DEF kept
  <2>4. Placed(TypedIds, {}, IdsIn(kept), {}, ToSet(pending), {}, ViewIds(pendingInputQueue),
               IdsIn(onWire), rejected \cup (O \ IdsIn(kept)))
    BY <1>2, <2>3, OutboxMoves
  <2> QED  BY <1>1, <1>2, <2>1, <2>3, <2>4, WaitingHeld
<1> QED  BY <1>4, <1>5

\* An entry is late, where it waits.
LEMMA LateHeld ==
    ASSUME HeldFit, KeysFit', ViewEntryLate \/ \E i \in 1 .. MaxTyped : OutboxEntryLate(i)
    PROVE  HeldFit'
<1>1. turn = <<>> /\ turn' = <<>> /\ <<>> \in Seq(Signal)
      /\ UNCHANGED <<typed, pending, gate, onWire, rejected>>
  BY DEF ViewEntryLate, OutboxEntryLate, TurnIsOver, sequencerVars, viewVars, outVars
<1>2. /\ EntriesInOrder(outbox) /\ ViewInOrder(pendingInputQueue)
      /\ (gate # "blocked" => pendingInputQueue = <<>>)
      /\ Placed(TypedIds, {}, IdsIn(outbox), {}, ToSet(pending), {},
                ViewIds(pendingInputQueue), IdsIn(onWire), rejected)
  BY <1>1, RestParts
<1>3. /\ pendingInputQueue \in Seq(ViewEntry(typed)) /\ outbox \in Seq(OutEntry(typed))
  BY HeldParts
<1>4. CASE ViewEntryLate
  <2>1. PICK i \in DOMAIN pendingInputQueue :
           pendingInputQueue' = [pendingInputQueue EXCEPT ![i].late = TRUE]
    BY <1>4 DEF ViewEntryLate
  <2>2. /\ DOMAIN pendingInputQueue' = DOMAIN pendingInputQueue
        /\ \A j \in DOMAIN pendingInputQueue :
              pendingInputQueue'[j].id = pendingInputQueue[j].id
    <3>1. pendingInputQueue[i] \in [id : Nat, gen : Nat, late : BOOLEAN]
      BY <1>3 DEF ViewEntry
    <3> QED  BY <2>1, <3>1
  <2> DEFINE r == pendingInputQueue'
  <2>3. /\ DOMAIN r = DOMAIN pendingInputQueue
        /\ \A j \in DOMAIN pendingInputQueue : r[j].id = pendingInputQueue[j].id
    BY <2>2
  <2> HIDE DEF r
  <2>4. ViewIds(r) = ViewIds(pendingInputQueue) /\ ViewInOrder(r)
    BY <1>2, <1>3, <2>3, LateInOrder
  <2>5. outbox' = outbox /\ r = pendingInputQueue' /\ gate = "blocked"
    <3>1. outbox' = outbox
      BY <1>4 DEF ViewEntryLate, outVars
    <3>2. pendingInputQueue # <<>>
      BY <2>1
    <3> QED  BY <1>2, <3>1, <3>2 DEF r
  <2> QED  BY <1>1, <1>2, <2>4, <2>5, WaitingHeld
<1>5. ASSUME NEW i \in 1 .. MaxTyped, OutboxEntryLate(i) PROVE HeldFit'
  <2>1. /\ i \in DOMAIN outbox /\ outbox' = [outbox EXCEPT ![i].late = TRUE]
        /\ pendingInputQueue' = pendingInputQueue
    BY <1>5 DEF OutboxEntryLate, viewVars
  <2>2. /\ DOMAIN outbox' = DOMAIN outbox
        /\ \A j \in DOMAIN outbox : outbox'[j].ids = outbox[j].ids
    <3>1. outbox[i] \in [ids : Seq(Nat), gen : Nat, late : BOOLEAN]
      BY <1>3, <2>1 DEF OutEntry
    <3> QED  BY <2>1, <3>1
  <2> DEFINE r == outbox'
  <2>3. DOMAIN r = DOMAIN outbox /\ \A j \in DOMAIN outbox : r[j].ids = outbox[j].ids
    BY <2>2
  <2> HIDE DEF r
  <2>4. IdsIn(r) = IdsIn(outbox) /\ EntriesInOrder(r)
    BY <1>2, <1>3, <2>3, LateInOrder
  <2>5. r = outbox'
    BY DEF r
  <2> QED  BY <1>1, <1>2, <2>1, <2>4, <2>5, WaitingHeld
<1> QED  BY <1>4, <1>5

\* The events that make calls, and leave the inputs where they are.
LEMMA SignalHeld ==
    ASSUME HeldFit, KeysFit',
           \/ RetryTimer \/ SocketCloses \/ \E s \in Statuses : RenderStatus(s)
           \/ ConnectedEffect \/ ReconnectingEffect \/ DisconnectedEffect
           \/ ReconnectOver \/ ReconnectTimer \/ RenderSync
           \/ \E isReady \in BOOLEAN : Subscribed(isReady)
           \/ ReadyInRecovery \/ RecoveryStarts \/ ConvergenceOver \/ RecoveryFinished
           \/ ShowOrHide \/ Restore \/ SessionError \/ Detach
    PROVE  HeldFit'
<1> DEFINE s == Call("sync")
           g == Call("gate")
           o == Call("flushOutbox")
           p == flushTransportPipeline
           Waiting == <<typed, pending, gate, onWire, outbox, pendingInputQueue, rejected>>
<1>1. /\ s \in Signal /\ g \in Signal /\ o \in Signal /\ p \in Seq(Signal)
      /\ \A reason \in Reasons : Closing(reason) \in Seq(Signal)
  BY CallsSignal DEF Plain
<1>2. CASE /\ turn = <<>> /\ UNCHANGED Waiting
           /\ \/ turn' \in {<<>>, <<s>>, <<g>>, <<o>>, <<s, o>>, <<s>> \o p, <<s>> \o <<>>}
              \/ \E reason \in Reasons :
                    turn' = Closing(reason) \/ turn' = <<s>> \o Closing(reason)
  <2> HIDE DEF s, g, o, p
  <2>1. /\ <<>> \in Seq(Signal) /\ <<s>> \in Seq(Signal) /\ <<g>> \in Seq(Signal)
        /\ <<o>> \in Seq(Signal) /\ <<s, o>> \in Seq(Signal)
    BY <1>1
  <2>2. \A c \in Seq(Signal) : <<s>> \o c \in Seq(Signal)
    BY <2>1
  <2>3. turn' \in Seq(Signal)
    BY <1>1, <1>2, <2>1, <2>2
  <2> QED  BY <1>2, <2>3, TransportHeld
<1>3. "link" \in Reasons /\ "error" \in Reasons /\ "detached" \in Reasons
  BY DEF Reasons
<1> HIDE DEF s, g, o, p
<1>4. CASE RetryTimer \/ SocketCloses \/ RenderSync \/ ReconnectOver \/ ReconnectTimer
  BY <1>2, <1>3, <1>4 DEF RetryTimer, SocketCloses, RenderSync, ReconnectOver, ReconnectTimer,
        TurnIsOver, viewVars, sequencerVars, outVars, s, o
<1>5. CASE \E status \in Statuses : RenderStatus(status)
  BY <1>2, <1>5 DEF RenderStatus, TurnIsOver, viewVars, sequencerVars, outVars
<1>6. CASE ConnectedEffect \/ ReconnectingEffect \/ DisconnectedEffect
  BY <1>2, <1>3, <1>6 DEF ConnectedEffect, ReconnectingEffect, DisconnectedEffect,
        TurnIsOver, viewVars, sequencerVars, outVars, s, p
<1>7. CASE ReadyInRecovery \/ \E isReady \in BOOLEAN : Subscribed(isReady)
  BY <1>2, <1>7 DEF ReadyInRecovery, Subscribed, TurnIsOver, viewVars, sequencerVars, outVars,
        s, p
<1>8. CASE RecoveryStarts \/ ConvergenceOver \/ RecoveryFinished
  BY <1>2, <1>8 DEF RecoveryStarts, ConvergenceOver, RecoveryFinished, TurnIsOver, viewVars,
        sequencerVars, outVars, s, o
<1>9. CASE ShowOrHide \/ Restore \/ SessionError \/ Detach
  BY <1>2, <1>3, <1>9 DEF ShowOrHide, Restore, SessionError, Detach, TurnIsOver, viewVars,
        sequencerVars, outVars, g
<1> QED  BY <1>4, <1>5, <1>6, <1>7, <1>8, <1>9

LEMMA BrowserEventHeld == ASSUME HeldFit, KeysFit', BrowserEvent PROVE HeldFit'
BY TypeHeld, CoalesceTimerHeld, ExpireHeld, LateHeld, SignalHeld DEF BrowserEvent, Statuses

-----------------------------------------------------------------------------
(* One place for each input.                                               *)

LEMMA NoPlace ==
    ASSUME NEW name, NEW q, NEW id, id \notin IdsIn(q)
    PROVE  PlacesIn(name, q, id) = {}
<1>1. \A i \in DOMAIN q : {k \in DOMAIN q[i].ids : q[i].ids[k] = id} = {}
  BY DEF IdsIn, ToSet
<1> QED  BY <1>1 DEF PlacesIn

\* In a list that rises an input is at most once.
LEMMA OncePending ==
    ASSUME NEW p \in Seq(Nat), Ascends(p), NEW i \in DOMAIN p, NEW k \in DOMAIN p, p[i] = p[k]
    PROVE  i = k
<1>1. i \in Nat /\ k \in Nat /\ p[i] \in Nat /\ p[k] \in Nat
  OBVIOUS
<1>2. (i < k => p[i] < p[k]) /\ (k < i => p[k] < p[i])
  BY DEF Ascends
<1> QED  BY <1>1, <1>2

LEMMA OneEntry ==
    ASSUME NEW q, NEW n \in Nat, DOMAIN q = 1 .. n, SentOnce(q),
           \A i \in DOMAIN q : q[i].ids \in Seq(Nat)
    PROVE  \A name : \A id \in IdsIn(q) : \E place : PlacesIn(name, q, id) = {place}
<1> TAKE name
<1> TAKE id \in IdsIn(q)
<1>1. PICK i \in DOMAIN q : id \in ToSet(q[i].ids)
  BY DEF IdsIn
<1>2. PICK k \in DOMAIN q[i].ids : q[i].ids[k] = id
  BY <1>1 DEF ToSet
<1>3. \A m \in DOMAIN q[i].ids : q[i].ids[m] = id => m = k
  <2>1. q[i].ids \in Seq(Nat) /\ Ascends(q[i].ids)
    BY DEF SentOnce
  <2> QED  BY <1>2, <2>1, OncePending
<1>4. \A j \in DOMAIN q : id \in ToSet(q[j].ids) => j = i
  <2> SUFFICES ASSUME NEW j \in DOMAIN q, id \in ToSet(q[j].ids), j # i PROVE FALSE
    OBVIOUS
  <2>1. j \in 1 .. i - 1 \/ i \in 1 .. j - 1
    OBVIOUS
  <2>2. \/ ToSet(q[j].ids) \cap ToSet(q[i].ids) = {}
        \/ ToSet(q[i].ids) \cap ToSet(q[j].ids) = {}
    BY <2>1 DEF SentOnce
  <2> QED  BY <1>1, <2>2
<1>5. \A j \in DOMAIN q : \A m \in DOMAIN q[j].ids : q[j].ids[m] = id => j = i /\ m = k
  <2> SUFFICES ASSUME NEW j \in DOMAIN q, NEW m \in DOMAIN q[j].ids, q[j].ids[m] = id
               PROVE  j = i /\ m = k
    OBVIOUS
  <2>1. id \in ToSet(q[j].ids)
    BY DEF ToSet
  <2> QED  BY <1>3, <1>4, <2>1
<1>6. \A x \in PlacesIn(name, q, id) : x = <<name, i, k>>
  BY <1>5 DEF PlacesIn
<1>7. <<name, i, k>> \in PlacesIn(name, q, id)
  BY <1>2 DEF PlacesIn
<1>8. PlacesIn(name, q, id) = {<<name, i, k>>}
  BY <1>6, <1>7
<1> QED  BY <1>8

\* Entries in order share no input.
LEMMA EntriesApart ==
    ASSUME NEW q, NEW n \in Nat, DOMAIN q = 1 .. n, EntriesInOrder(q),
           \A i \in DOMAIN q : q[i].ids \in Seq(Nat)
    PROVE  SentOnce(q)
<1> SUFFICES ASSUME NEW j \in DOMAIN q, NEW i \in 1 .. j - 1
             PROVE  ToSet(q[i].ids) \cap ToSet(q[j].ids) = {}
  BY DEF SentOnce, EntriesInOrder
<1>1. i \in DOMAIN q
  OBVIOUS
<1>2. ToSet(q[i].ids) \subseteq Nat
  <2>1. q[i].ids \in Seq(Nat)
    BY <1>1
  <2> QED  BY <2>1 DEF ToSet
<1>3. Before(ToSet(q[i].ids), ToSet(q[j].ids))
  BY DEF EntriesInOrder
<1> QED  BY <1>2, <1>3, Apart

\* What is in place between turns.
LEMMA HeldShows == HeldFit => HeldInPlace
<1> SUFFICES ASSUME HeldFit, turn = <<>> PROVE HeldInPlace
  BY DEF HeldInPlace, OutboxInOrder, ViewKeepsOrder, EachInOnePlace
<1> DEFINE O == IdsIn(outbox)
           P == ToSet(pending)
           V == ViewIds(pendingInputQueue)
           S == IdsIn(onWire)
<1>1. /\ EntriesInOrder(outbox) /\ Ascends(pending) /\ ViewInOrder(pendingInputQueue)
      /\ SentOnce(onWire) /\ Placed(TypedIds, {}, O, {}, P, {}, V, S, rejected)
  BY RestParts
<1> HIDE DEF O, P, V, S
<1>2. /\ Before(O, P) /\ Before(O, V) /\ Before(P, V) /\ Before(S, V)
      /\ TypedIds = O \cup P \cup V \cup S \cup rejected /\ TypedIds \subseteq Nat
      /\ (O \cup P \cup V) \cap S = {} /\ (O \cup P \cup V) \cap rejected = {}
      /\ S \cap rejected = {}
  BY <1>1 DEF Placed, Rising, Whole
<1>3. O \cap P = {} /\ O \cap V = {} /\ P \cap V = {}
  BY <1>2, Apart
<1>4. Passed = P \cup O \cup S
  BY DEF Passed, Sent, O, P, S
<1>5. OutboxInOrder
  BY <1>1, <1>2 DEF OutboxInOrder, O, P
<1>6. ViewKeepsOrder
  <2>1. Before(Passed, V)
    BY <1>2, <1>4 DEF Before
  <2> QED  BY <2>1 DEF ViewKeepsOrder, V
<1>7. ASSUME NEW id \in TypedIds PROVE \E place \in Places(id) : Places(id) = {place}
  <2> DEFINE A == PlacesIn("outbox", outbox, id)
             B == PlacesIn("sent", onWire, id)
             C == {<<"pending", i, 1>> : i \in {k \in DOMAIN pending : pending[k] = id}}
             D == {<<"view", i, 1>> :
                      i \in {k \in DOMAIN pendingInputQueue : pendingInputQueue[k].id = id}}
             E == {<<"rejected", 1, 1>> : n \in {id} \cap rejected}
  <2>1. Places(id) = A \cup B \cup C \cup D \cup E
    BY DEF Places
  <2>2. (id \notin O => A = {}) /\ (id \notin S => B = {})
    BY NoPlace DEF O, S
  <2>3. id \notin P => C = {}
    BY DEF P, ToSet
  <2>4. id \notin V => D = {}
    BY DEF V, ViewIds
  <2>5. id \notin rejected => E = {}
    OBVIOUS
  <2>6. id \in O => \E place : A = {place}
    <3>1. outbox \in Seq(OutEntry(typed))
      BY HeldParts
    <3>2. /\ DOMAIN outbox = 1 .. Len(outbox) /\ Len(outbox) \in Nat
          /\ \A i \in DOMAIN outbox : outbox[i].ids \in Seq(Nat)
      BY <3>1 DEF OutEntry
    <3>3. SentOnce(outbox)
      BY <1>1, <3>2, EntriesApart
    <3> SUFFICES ASSUME id \in IdsIn(outbox) PROVE \E place : A = {place}
      BY DEF O
    <3>4. \A name : \A x \in IdsIn(outbox) : \E place : PlacesIn(name, outbox, x) = {place}
      BY Zenon, <3>2, <3>3, OneEntry
    <3> QED  BY <3>4
  <2>7. id \in S => \E place : B = {place}
    <3>1. onWire \in Seq(WireEntry(typed))
      BY HeldParts
    <3>2. /\ DOMAIN onWire = 1 .. Len(onWire) /\ Len(onWire) \in Nat
          /\ \A i \in DOMAIN onWire : onWire[i].ids \in Seq(Nat)
      BY <3>1 DEF WireEntry
    <3> SUFFICES ASSUME id \in IdsIn(onWire) PROVE \E place : B = {place}
      BY DEF S
    <3>3. \A name : \A x \in IdsIn(onWire) : \E place : PlacesIn(name, onWire, x) = {place}
      BY Zenon, <1>1, <3>2, OneEntry
    <3> QED  BY <3>3
  <2>8. id \in P => \E place : C = {place}
    <3> SUFFICES ASSUME id \in P PROVE \E place : C = {place}
      OBVIOUS
    <3>1. PICK i \in DOMAIN pending : pending[i] = id
      BY DEF P, ToSet
    <3>2. pending \in Seq(Nat)
      BY HeldParts
    <3>3. \A k \in DOMAIN pending : pending[k] = id => k = i
      BY <1>1, <3>1, <3>2, OncePending
    <3>4. C = {<<"pending", i, 1>>}
      BY <3>1, <3>3
    <3> QED  BY <3>4
  <2>9. id \in V => \E place : D = {place}
    <3> SUFFICES ASSUME id \in V PROVE \E place : D = {place}
      OBVIOUS
    <3>1. PICK i \in DOMAIN pendingInputQueue : pendingInputQueue[i].id = id
      BY DEF V, ViewIds
    <3>2. /\ pendingInputQueue \in Seq(ViewEntry(typed))
          /\ DOMAIN pendingInputQueue \subseteq Nat /\ id \in Nat
          /\ \A k \in DOMAIN pendingInputQueue : 1 <= k
      <4>1. pendingInputQueue \in Seq(ViewEntry(typed))
        BY HeldParts
      <4> QED  BY <1>2, <4>1
    <3>3. \A k \in DOMAIN pendingInputQueue : pendingInputQueue[k].id = id => k = i
      <4> SUFFICES ASSUME NEW k \in DOMAIN pendingInputQueue, pendingInputQueue[k].id = id,
                          k # i
                   PROVE  FALSE
        OBVIOUS
      <4>1. k \in 1 .. i - 1 \/ i \in 1 .. k - 1
        BY <3>2
      <4>2. id < id
        BY <1>1, <3>1, <4>1 DEF ViewInOrder
      <4> QED  BY <3>2, <4>2
    <3>4. D = {<<"view", i, 1>>}
      BY <3>1, <3>3
    <3> QED  BY <3>4
  <2>10. id \in rejected => \E place : E = {place}
    <3> SUFFICES ASSUME id \in rejected PROVE E = {<<"rejected", 1, 1>>}
      OBVIOUS
    <3> QED  OBVIOUS
  <2> HIDE DEF A, B, C, D, E
  <2>11. \E place : Places(id) = {place}
    <3>1. CASE id \in O  BY <1>2, <1>3, <2>1, <2>2, <2>3, <2>4, <2>5, <2>6, <3>1
    <3>2. CASE id \in P  BY <1>2, <1>3, <2>1, <2>2, <2>3, <2>4, <2>5, <2>8, <3>2
    <3>3. CASE id \in V  BY <1>2, <1>3, <2>1, <2>2, <2>3, <2>4, <2>5, <2>9, <3>3
    <3>4. CASE id \in S  BY <1>2, <1>3, <2>1, <2>2, <2>3, <2>4, <2>5, <2>7, <3>4
    <3>5. CASE id \in rejected  BY <1>2, <1>3, <2>1, <2>2, <2>3, <2>4, <2>5, <2>10, <3>5
    <3> QED  BY <1>2, <3>1, <3>2, <3>3, <3>4, <3>5
  <2> QED  BY <2>11
<1>8. EachInOnePlace
  <2>1. Passed \cup V \cup rejected \subseteq TypedIds
    BY <1>2, <1>4
  <2> QED  BY <1>7, <2>1 DEF EachInOnePlace, V
<1> QED  BY <1>5, <1>6, <1>8 DEF HeldInPlace

-----------------------------------------------------------------------------
(* The order, as theorems.                                                 *)

LEMMA BrowserInitHeld == BrowserInit => HeldFit
<1> SUFFICES ASSUME BrowserInit PROVE HeldFit
  OBVIOUS
<1>1. /\ typed = <<>> /\ pendingInputQueue = <<>> /\ outbox = <<>> /\ onWire = <<>>
      /\ pending = <<>> /\ turn = <<>> /\ rejected = {}
  BY DEF BrowserInit
<1>2. TypedIds = {}
  BY <1>1 DEF TypedIds
<1>3. SentOnce(<<>>)
  BY DEF SentOnce
<1>4. Placed({}, {}, {}, {}, {}, {}, {}, {}, {})
  BY DEF Placed, Rising, Whole, Before
<1> QED  BY <1>1, <1>2, <1>3, <1>4, BrowserInitFits, EmptySets DEF HeldFit, InOrder

\* At every step of every turn, however often the socket refuses and the link is lost, each
\* input waits in one place, was sent once or was given up, and what waits is in the order
\* it was typed in, across the view, the sequencer, the outbox and what is under way.
THEOREM HeldAlwaysFits == BrowserSpec => []HeldFit
<1>1. BrowserInit => HeldFit
  BY BrowserInitHeld
<1>2. HeldFit /\ [BrowserNext]_browserVars => HeldFit'
  <2> SUFFICES ASSUME HeldFit, [BrowserNext]_browserVars PROVE HeldFit'
    OBVIOUS
  <2>1. KeysFit
    BY DEF HeldFit
  <2>2. CASE TurnStep  BY <2>1, <2>2, TurnStepFits, TurnStepHeld
  <2>3. CASE BrowserEvent  BY <2>1, <2>3, BrowserEventFits, BrowserEventHeld
  <2>4. CASE UNCHANGED browserVars
    <3>1. KeysFit'
      BY <2>1, <2>4 DEF browserVars, viewVars, sequencerVars, outVars, KeysFit, TurnFits, Told,
           GatheredFit, Shape, Closes, CallFits, OfGen, Calling, Flushes, ViewEntry, OutEntry,
           WireEntry
    <3>2. UNCHANGED <<turn, typed, pending, pendingInputQueue, gate, outbox, onWire, rejected>>
      BY <2>4 DEF browserVars, viewVars, sequencerVars, outVars
    <3> QED  BY <3>1, <3>2, HeldNext DEF HeldFit, TypedIds
  <2> QED  BY <2>2, <2>3, <2>4 DEF BrowserNext
<1> QED  BY <1>1, <1>2, PTL DEF BrowserSpec

\* What a terminal holds back is held in its place: the outbox and the characters that are
\* gathered keep their order when a refused send is put back (restoreTransportOutboxFront),
\* nothing overtakes what the view holds, and no input vanishes or is sent twice.
THEOREM HeldInPlaceHolds == BrowserSpec => []HeldInPlace
BY HeldAlwaysFits, HeldShows, PTL
=============================================================================
