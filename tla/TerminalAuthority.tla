--------------------------- MODULE TerminalAuthority ---------------------------
(* Who answers for one terminal: the browsers' parsers (legacy) or the         *)
(* server's own model of the screen.  TerminalAuthorityController moves a      *)
(* session from one to the other and back; every frame it sends waits in one   *)
(* chain for the transport, so each transfer is a train of steps between which *)
(* outputs are applied, views leave, deadlines pass and frames fail.  The      *)
(* production adapter schedules its recoveries.                                *)
(*                                                                             *)
(* The n-th output of the shell is n, and each output holds one query.  Views  *)
(* are those attached at the start; they leave, and none joins.                *)
EXTENDS Integers, Sequences, FiniteSets

CONSTANTS
    Views,            \* the browser views able to hand over their parsers
    MaxHeldChunks,    \* maxHeldOutputChunks: outputs held or waiting to be sent
    MaxOutputs,       \* bound of the model: outputs of the shell
    MaxTroubles,      \* bound of the model: failures, departures, deadlines, rollbacks
    LastEpoch,        \* bound of the model: no promotion begins in a later epoch
    LateReceipts      \* whether a receipt may still be on its way when the next one begins

ASSUME AuthorityAssumption ==
    /\ IsFiniteSet(Views) /\ Views # {}
    /\ MaxHeldChunks \in Nat \ {0}
    /\ {MaxOutputs, MaxTroubles, LastEpoch} \subseteq Nat
    /\ LateReceipts \in BOOLEAN

VARIABLES
    au,        \* the controller and its adapter
    browsers   \* what the views have, and what they answer on its way back

authorityVars == <<au, browsers>>

NoRollback == [epoch |-> 0, settled |-> FALSE]
NoRetry == [at |-> "idle", again |-> FALSE, attempt |-> 0, of |-> 0]

AuthorityInit ==
    /\ au = [
        mode |-> "legacy", epoch |-> 0,
        fenced |-> FALSE,                   \* promotionAdmissionFenced
        opening |-> 0,                      \* the epoch of a promotion before its boundary
        begin |-> 0, commit |-> 0,          \* promotionBeginToken, promotionCommitToken
        rbegin |-> 0, ccommit |-> 0,        \* rollbackBeginToken, compatibilityCommitToken
        recovering |-> FALSE,               \* recoveryRequested
        views |-> {},                       \* the controller's frozenViews
        targets |-> {},                     \* the adapter's frozenViews
        acks |-> {}, receipts |-> {},       \* acceptedDisableAcks, receipts on their way
        deadline |-> FALSE,                 \* promotionDeadlineTimer
        leases |-> FALSE,                   \* serverAuthorityLeasesInstalled
        revoked |-> FALSE,                  \* the lease ids of this promotion may not return
        admitted |-> TRUE,                  \* the session admits its browsers: admission.mode
        rollback |-> NoRollback, restarted |-> <<>>,   \* restartedHeldQueries
        held |-> <<>>,                      \* heldPostBoundary
        owners |-> <<>>, applied |-> 0,     \* outputs enqueued, and applied to the model
        since |-> 0,                        \* history: outputs enqueued when the server took over
        effects |-> {},                     \* pendingTerminalAuthorityQueryEffects
        chain |-> <<>>, sending |-> FALSE, lost |-> {},
        retry |-> NoRetry, timer |-> FALSE, moved |-> FALSE,
        answers |-> [n \in 1 .. MaxOutputs |-> 0],   \* replies the server wrote to the PTY
        troubles |-> 0]
    /\ browsers = [
        attached |-> Views,
        seen |-> [v \in Views |-> 0],       \* outputs the screen shows
        answering |-> Views,                \* whose parser answers queries
        disabled |-> [v \in Views |-> 0],   \* disable acknowledgement on its way
        handoff |-> [v \in Views |-> 0],    \* compatibility checkpoint being applied
        drained |-> [v \in Views |-> NoRollback]]   \* drain on its way

-----------------------------------------------------------------------------
(* What the steps are made of: from a state of the authority to the next.      *)

MayFail == au.troubles < MaxTroubles
Troubled(a) == [a EXCEPT !.troubles = @ + 1]

\* recoverAuthoritySendFailure: one recovery at a time; a later reason asks again.
Schedule(a) ==
    IF a.retry.at \in {"idle", "spent"} THEN [a EXCEPT !.retry.at = "due"]
    ELSE [a EXCEPT !.retry.again = @ \/ a.retry.at = "running"]

\* requestOrderedCompatibilityRecovery
RequestRecovery(a) ==
    IF a.recovering THEN a
    ELSE Schedule([a EXCEPT !.recovering = TRUE, !.begin = 0, !.mode = "rolling-back",
                            !.acks = {}])

\* invalidateActiveRollbackForFreshRecovery; a quiet reason schedules nothing.  The queries
\* that were told are the first ones.
Invalidate(a, quiet) ==
    LET queries == a.rollback.queries
        told == {k \in DOMAIN queries : queries[k].told}
        untold == SubSeq(queries, Cardinality(told) + 1, Len(queries))
        room == MaxHeldChunks - Len(a.restarted)
        kept == SubSeq(untold, 1, IF Len(untold) < room THEN Len(untold) ELSE room)
        b == [a EXCEPT !.restarted = @ \o kept, !.rollback = NoRollback,
                       !.rbegin = 0, !.ccommit = 0,
                       !.recovering = TRUE, !.mode = "rolling-back"]
    IN  IF quiet THEN b ELSE Schedule(b)

\* queueTerminalDelivery: a frame of an epoch, on behalf of a view (or of none).
QueueFrame(a, kind, n, epoch, by) ==
    [a EXCEPT !.chain = Append(@, [kind |-> kind, n |-> n, epoch |-> epoch, by |-> by])]

OutputKinds == {"legacy", "server", "held", "tail"}
PendingTail(a) == IF a.rollback.epoch = 0 THEN <<>> ELSE a.rollback.pending

\* pendingDeliveryChunks
OutputFrames(chain) == {k \in DOMAIN chain : chain[k].kind \in OutputKinds}
Chunks(a) == Cardinality(OutputFrames(a.chain)) + Len(PendingTail(a))

\* queueOutputDelivery
QueueOutput(a, kind, n, epoch) ==
    IF Chunks(a) + 1 > MaxHeldChunks THEN RequestRecovery(a)
    ELSE QueueFrame(a, kind, n, epoch, {})

\* The same for each of some outputs: as many as there is room for.
QueueTails(a, outputs, epoch) ==
    LET room == MaxHeldChunks - Chunks(a)
        fit == IF Len(outputs) < room THEN Len(outputs) ELSE room
        tails == [k \in 1 .. fit |->
                     [kind |-> "tail", n |-> outputs[k], epoch |-> epoch, by |-> {}]]
        b == [a EXCEPT !.chain = @ \o tails]
    IN  IF fit < Len(outputs) THEN RequestRecovery(b) ELSE b

\* beginRollback up to its first frame.
MayBegin(a) ==
    \/ a.mode = "server"
    \/ a.mode = "rolling-back" /\ a.recovering /\ a.rollback.epoch = 0

BeginRollback(a, selected) ==
    LET e == a.epoch + 1
        rollback == [epoch |-> e, drained |-> a.applied, locked |-> FALSE, drains |-> {},
                     queries |-> a.restarted, settled |-> FALSE, pending |-> <<>>,
                     affected |-> a.views, selected |-> selected]
    IN  QueueFrame([a EXCEPT !.rollback = rollback, !.rbegin = e, !.epoch = e,
                             !.mode = "rolling-back", !.recovering = FALSE,
                             !.leases = FALSE, !.revoked = @ \/ a.leases, !.admitted = FALSE,
                             !.held = <<>>, !.restarted = <<>>,
                             !.retry.at = IF @ = "spent" THEN "idle" ELSE @],
                   "start", a.applied, e, {})

\* rollbackSession: what it makes of the authority, and whether its rollback began ("begun"),
\* is not needed ("done") or was refused ("refused").
Prepared(a, live) ==
    CASE a.mode = "rolling-back" ->
            [(IF a.rollback.epoch # 0 THEN Invalidate(a, TRUE) ELSE a)
                EXCEPT !.views = live, !.targets = live, !.acks = {}]
      [] a.mode = "server" ->
            [a EXCEPT !.targets = live, !.views = IF live = {} THEN @ ELSE live]
      [] OTHER -> a

RollbackSession(a, prepared, live) ==
    LET b == IF prepared THEN a ELSE Prepared(a, live)
        selected == CHOOSE v \in b.targets : TRUE
    IN  CASE a.mode = "legacy" -> [au |-> a, outcome |-> "done"]
          [] a.mode # "legacy" /\ b.targets # {} /\ MayBegin(b) /\ selected \in b.views ->
                [au |-> BeginRollback(b, selected), outcome |-> "begun"]
          [] OTHER -> [au |-> b, outcome |-> "refused"]

\* A rollback whose outcome nobody waits for.
ResumeRollback(a, live) ==
    IF a.mode = "rolling-back" THEN RollbackSession(a, FALSE, live).au ELSE a

\* The scheduled recovery has its answer: one retry, then it waits for a change of the views.
RetryEnds(a, ok) ==
    CASE ok /\ ~a.retry.again -> [a EXCEPT !.retry = NoRetry]
      [] ~ok /\ a.retry.attempt >= 1 -> [a EXCEPT !.retry = [NoRetry EXCEPT !.at = "spent"]]
      [] OTHER -> [a EXCEPT !.retry = [NoRetry EXCEPT !.at = "due",
                                                      !.attempt = IF ok THEN 0 ELSE 1]]

\* beginRollback returns.
BeginEnds(a, e, ok) ==
    LET b == IF ok THEN [a EXCEPT !.deadline = FALSE] ELSE a
    IN  IF b.retry.at = "running" /\ b.retry.of = e THEN RetryEnds(b, ok) ELSE b

\* settleQueryEffect of the query of output n, with the lease of the rollback (tailed) or not.
SettleEffect(a, n, tailed) ==
    CASE a.mode = "rolling-back" /\ a.rollback.epoch # 0 /\ tailed ->
            IF Len(a.rollback.queries) >= MaxHeldChunks THEN Invalidate(a, FALSE)
            ELSE [a EXCEPT !.rollback.queries = Append(@, [n |-> n, told |-> FALSE])]
      [] a.mode = "server" -> [a EXCEPT !.answers[n] = @ + 1]
      [] OTHER -> a   \* rejected

-----------------------------------------------------------------------------
(* Outputs of the shell.                                                       *)

EnqueueOutput ==   \* enqueueHeadlessOutput
    /\ Len(au.owners) < MaxOutputs
    /\ au' = [au EXCEPT !.owners = Append(@,
                 CASE au.mode = "server" -> "server"
                   [] au.mode = "legacy" /\ ~au.fenced -> "legacy"
                   [] OTHER -> "staged")]
    /\ UNCHANGED browsers

\* The delivery of an applied output, by the mode the authority is in by now.
Delivered(a, n) ==
    CASE a.mode = "promoting" ->
            LET b == [a EXCEPT !.held = Append(@, n)]
            IN  IF Len(b.held) > MaxHeldChunks THEN RequestRecovery(b) ELSE b
      [] a.mode = "rolling-back" /\ a.rollback.epoch # 0 ->
            LET b == IF a.rollback.locked THEN a
                     ELSE [a EXCEPT !.rollback.drained = n, !.rollback.drains = {}]
            IN  IF b.rollback.settled THEN QueueOutput(b, "tail", n, b.rollback.epoch)
                ELSE IF Chunks(b) + 1 > MaxHeldChunks THEN Invalidate(b, FALSE)
                ELSE [b EXCEPT !.rollback.pending = Append(@, n)]
      [] a.mode = "rolling-back" /\ a.rollback.epoch = 0 -> a
      [] OTHER -> QueueOutput(a, a.mode, n, a.epoch)

\* The effect of the query of output n: the browsers answer it, the server does, or it is
\* staged until the server has the authority.
EffectByMode(a, n, tailed) ==   \* a mutant: the owner of the output is forgotten
    IF a.mode = "rolling-back" THEN SettleEffect(a, n, tailed)
    ELSE [a EXCEPT !.effects = @ \union {n}]

Effect(a, n, tailed) ==
    CASE a.owners[n] = "legacy" -> a
      [] a.owners[n] = "server" \/ (a.owners[n] = "staged" /\ a.mode = "rolling-back") ->
            SettleEffect(a, n, tailed)
      [] OTHER -> [a EXCEPT !.effects = @ \union {n}]

ApplyOutput ==   \* applyEnqueuedHeadlessOutput, and the effect of the query it holds
    /\ au.applied < Len(au.owners)
    /\ LET n == au.applied + 1
       IN  au' = Effect(Delivered([au EXCEPT !.applied = n], n), n, au.mode = "rolling-back")
    /\ UNCHANGED browsers

-----------------------------------------------------------------------------
(* Promotion.                                                                  *)

StartPromotion ==   \* beginPromotion until the outputs of the browsers are applied
    /\ au.epoch <= LastEpoch
    /\ au.mode = "legacy" /\ ~au.fenced /\ browsers.attached # {}
    /\ LateReceipts \/ au.receipts = {}
    /\ au' = [au EXCEPT !.fenced = TRUE, !.admitted = FALSE, !.views = browsers.attached,
                        !.opening = au.epoch + 1]
    /\ UNCHANGED browsers

BoundaryDue ==
    /\ au.opening # 0
    /\ \A n \in au.applied + 1 .. Len(au.owners) : au.owners[n] # "legacy"

EnterPromotion ==   \* the rest of it, up to its frame
    /\ BoundaryDue
    /\ LET e == au.opening
           b == [au EXCEPT !.opening = 0, !.mode = "promoting", !.epoch = e, !.acks = {},
                           !.recovering = FALSE, !.begin = e, !.revoked = FALSE]
       IN  au' = IF au.views # browsers.attached
                 THEN ResumeRollback(RequestRecovery(b), browsers.attached)
                 ELSE QueueFrame(b, "boundary", au.applied, e, {})
    /\ UNCHANGED browsers

PromotionIsCurrent(a, e) ==
    a.commit = e /\ a.mode = "promoting" /\ a.epoch = e /\ ~a.recovering

\* acknowledgeLegacyDisable has its result; the adapter acts on a refusal.
CommitEnds(a, e, by, live) ==
    ResumeRollback([a EXCEPT !.commit = IF @ = e THEN 0 ELSE @, !.acks = @ \ by], live)

SomeDisabled(a) == a.acks # {}   \* a mutant: the first acknowledgement is enough
AllDisabled(a) == a.acks = a.views

HearDisable(v) ==
    LET e == browsers.disabled[v]
        b == [au EXCEPT !.acks = @ \union {v}]
    IN  /\ v \in browsers.attached /\ e # 0
        /\ browsers' = [browsers EXCEPT !.disabled[v] = 0]
        /\ au' = CASE au.mode # "promoting" \/ e # au.epoch \/ v \notin au.views ->
                          ResumeRollback(au, browsers.attached)
                   [] OTHER ->
                          IF ~AllDisabled(b) THEN b
                          ELSE [b EXCEPT !.commit = e,
                                         !.receipts = @ \union {[view |-> v, epoch |-> e]}]

\* Every effect staged so far, once the server answers.
Flush(a) ==
    [a EXCEPT !.effects = {},
              !.answers = [n \in DOMAIN @ |-> IF n \in a.effects THEN @[n] + 1 ELSE @[n]]]

ServerAnswers(a) ==
    Flush([a EXCEPT !.held = <<>>, !.mode = "server", !.deadline = FALSE, !.commit = 0,
                    !.since = Len(a.owners)])

\* A mutant: the outputs held since the checkpoint are forgotten.
ReleaseNone(a, n, e, by, live) == ServerAnswers(a)

\* The next held output, or the end of releasePromotedAuthority.
ReleaseNext(a, n, e, by, live) ==
    LET out == {k \in DOMAIN a.held : a.held[k] <= n}
        rest == SubSeq(a.held, Cardinality(out) + 1, Len(a.held))
    IN  CASE rest = <<>> -> ServerAnswers(a)
          [] rest # <<>> /\ Chunks(a) + 1 > MaxHeldChunks ->
                CommitEnds(RequestRecovery(a), e, by, live)
          [] OTHER -> QueueFrame(a, "held", Head(rest), e, by)

\* installServerAuthorityLeases refuses beside browsers that are admitted, and ids revoked before.
Installs(a) == ~a.admitted /\ ~a.revoked

Discard(a) ==   \* discardInstalledServerAuthorityLeases
    IF a.leases THEN [a EXCEPT !.leases = FALSE, !.revoked = TRUE] ELSE a

\* The receipt of the last acknowledgement is out or failed: releasePromotedAuthority, which
\* installs the leases before it asks whether its promotion is still the current one.
Receipt(r, sent) ==
    LET live == browsers.attached
        b == [au EXCEPT !.receipts = @ \ {r}]
        failed == Schedule([Troubled(b) EXCEPT !.acks = @ \ {r.view}])
    IN  /\ r \in au.receipts
        /\ ~sent => MayFail /\ r.view \in live
        /\ UNCHANGED browsers
        /\ au' = CASE ~sent -> CommitEnds(RequestRecovery(failed), r.epoch, {r.view}, live)
                   [] sent /\ ~Installs(b) ->
                         CommitEnds(RequestRecovery(b), r.epoch, {r.view}, live)
                   [] sent /\ Installs(b) /\ PromotionIsCurrent(b, r.epoch) ->
                         QueueFrame([b EXCEPT !.leases = TRUE], "recovery", b.applied,
                                    r.epoch, {r.view})
                   [] OTHER -> CommitEnds(Discard([b EXCEPT !.leases = TRUE]),
                                          r.epoch, {r.view}, live)

Deadline ==   \* checkPromotionDeadline, from the adapter's timer
    /\ au.deadline /\ MayFail
    /\ LET b == [Troubled(au) EXCEPT !.deadline = FALSE]
       IN  au' = IF b.mode # "promoting" \/ AllDisabled(b) THEN b
                 ELSE ResumeRollback(RequestRecovery(b), browsers.attached)
    /\ UNCHANGED browsers

-----------------------------------------------------------------------------
(* The chain of frames.  A frame goes out to its views, and settles later.     *)

RollbackIsCurrent(a, e) == a.rollback.epoch = e /\ a.mode = "rolling-back" /\ a.epoch = e

\* isTransactionCurrent of a queued frame; frames without one are always current.
FrameIsCurrent(a, i) ==
    CASE i.kind = "boundary" ->
            a.begin = i.epoch /\ a.mode = "promoting" /\ a.epoch = i.epoch /\ ~a.recovering
      [] i.kind \in {"start", "checkpoint"} -> a.rbegin = i.epoch /\ RollbackIsCurrent(a, i.epoch)
      [] i.kind = "tail" -> RollbackIsCurrent(a, i.epoch)
      [] OTHER -> TRUE

\* sendTerminalFrame: the views a frame goes to.
Receivers(a, i, live) ==
    CASE i.kind = "boundary" -> a.views
      [] i.kind = "enable" -> {i.to} \intersect a.targets
      [] i.kind \notin {"boundary", "enable"} /\ (a.mode = "server" \/ a.targets = {}) -> live
      [] OTHER -> a.targets

\* What a frame does to the views it reaches.
Received(br, i, views) ==
    LET shown(v) ==
            CASE i.kind \in {"checkpoint", "recovery"} -> i.n
              [] i.kind \in OutputKinds /\ i.n = br.seen[v] + 1 -> i.n
              [] OTHER -> br.seen[v]
        at(f, x) == [v \in Views |-> IF v \in views THEN x ELSE f[v]]
    IN  [br EXCEPT
          !.seen = [v \in Views |-> IF v \in views THEN shown(v) ELSE @[v]],
          !.answering = CASE i.kind = "boundary" -> @ \ views
                          [] i.kind = "enable" -> @ \union views
                          [] OTHER -> @,
          !.disabled = IF i.kind = "boundary" THEN at(@, i.epoch) ELSE @,
          !.handoff = CASE i.kind = "checkpoint" -> at(@, i.epoch)
                        [] i.kind = "start" -> at(@, 0)
                        [] OTHER -> @]

SendFrame(missed) ==   \* the transport refuses it for those in missed
    LET i == Head(au.chain)
        to == Receivers(au, i, browsers.attached) \intersect browsers.attached
    IN  /\ au.chain # <<>> /\ ~au.sending /\ FrameIsCurrent(au, i)
        /\ missed \subseteq to /\ (missed # {} => MayFail)
        /\ browsers' = Received(browsers, i, to \ missed)
        /\ au' = [(IF missed = {} THEN au ELSE Troubled(au)) EXCEPT
                     !.sending = TRUE, !.lost = missed,
                     !.targets = IF i.kind = "boundary" THEN au.views ELSE @]

\* beginRollback goes on.
AfterStart(a, i, ok) ==
    IF ok THEN QueueFrame(a, "checkpoint", i.n, i.epoch, {}) ELSE BeginEnds(a, i.epoch, FALSE)

AfterCheckpoint(a, i, ok) ==
    IF ~ok THEN BeginEnds(a, i.epoch, FALSE)
    ELSE LET b == QueueTails([a EXCEPT !.rollback.pending = <<>>],
                             a.rollback.pending, i.epoch)
         IN  BeginEnds([b EXCEPT !.rollback.settled = TRUE, !.rbegin = 0], i.epoch, TRUE)

AfterBoundary(a, ok, live) ==   \* beginPromotion returns to promoteSession
    IF ok THEN [a EXCEPT !.begin = 0, !.deadline = TRUE] ELSE ResumeRollback(a, live)

AfterRelease(a, i, ok, live) ==
    IF ok /\ PromotionIsCurrent(a, i.epoch) THEN ReleaseNext(a, i.n, i.epoch, i.by, live)
    ELSE CommitEnds(IF ok THEN Discard(a) ELSE a, i.epoch, i.by, live)

\* The commit of a rollback: the end of acknowledgeCompatibilityDrain.
CompatibilityIsCurrent(a, e) ==
    a.ccommit = e /\ RollbackIsCurrent(a, e) /\ a.rollback.drains = a.rollback.affected

AfterEnable(a, i, ok) ==
    LET over == [a EXCEPT !.ccommit = IF @ = i.epoch THEN 0 ELSE @]
        revoked == [over EXCEPT !.admitted = FALSE]
    IN  CASE ok /\ CompatibilityIsCurrent(a, i.epoch) ->
                [over EXCEPT !.mode = "legacy", !.fenced = FALSE]
          [] ~(ok /\ CompatibilityIsCurrent(a, i.epoch)) /\ a.rollback.epoch = i.epoch ->
                [revoked EXCEPT !.rollback.drains = @ \ i.by]
          [] OTHER -> revoked

\* The transaction that waited for a frame goes on, or ends.
AfterFrame(a, i, ok, live) ==
    CASE i.kind = "start" -> AfterStart(a, i, ok)
      [] i.kind = "checkpoint" -> AfterCheckpoint(a, i, ok)
      [] i.kind = "boundary" -> AfterBoundary(a, ok, live)
      [] i.kind \in {"recovery", "held"} -> AfterRelease(a, i, ok, live)
      [] i.kind = "enable" -> AfterEnable(a, i, ok)
      [] OTHER -> a

\* refreshReplaySnapshots: every screen follows the model again.
Repainted(br, n) == [br EXCEPT !.seen = [v \in Views |-> n]]

FrameSettles ==   \* a frame that went out leaves the chain, delivered or refused
    LET i == Head(au.chain)
        live == browsers.attached
        refused == au.lost \intersect live # {}
        unheard == Receivers(au, i, live) = {}
                   /\ ~(i.kind \in OutputKinds /\ au.mode \in {"legacy", "server"})
        ok == ~refused /\ ~unheard
        b == [au EXCEPT !.chain = Tail(@), !.sending = FALSE, !.lost = {}]
        told == IF refused THEN Schedule(b) ELSE b
        current == FrameIsCurrent(told, i)
    IN  /\ au.sending
        /\ i.kind = "enable" => \A r \in au.receipts : r.view \notin live   \* one lane
        /\ au' = AfterFrame(IF ~ok /\ current THEN RequestRecovery(told) ELSE told,
                            i, current /\ ok, live)
        /\ browsers' = IF i.kind = "enable" /\ ok THEN Repainted(browsers, au.applied)
                       ELSE browsers

DropFrame ==   \* a frame that is no longer current does not go out
    LET i == Head(au.chain)
    IN  /\ au.chain # <<>> /\ ~au.sending /\ ~FrameIsCurrent(au, i)
        /\ au' = AfterFrame([au EXCEPT !.chain = Tail(@)], i, FALSE, browsers.attached)
        /\ UNCHANGED browsers

-----------------------------------------------------------------------------
(* Rollback: what the views answer, and how it is resumed.                     *)

SayDrained(v) ==   \* a view has applied its compatibility checkpoint: it says so once
    /\ v \in browsers.attached /\ browsers.handoff[v] # 0
    /\ browsers' = [browsers EXCEPT
          !.handoff[v] = 0,
          !.drained[v] = [epoch |-> browsers.handoff[v], n |-> browsers.seen[v]]]
    /\ UNCHANGED au

RefuseScreen(v) ==   \* terminal-checkpoint:failure-ack: it could not
    /\ v \in browsers.attached /\ browsers.handoff[v] # 0 /\ MayFail
    /\ browsers' = [browsers EXCEPT !.handoff[v] = 0]
    /\ LET a == Troubled(au)
           rolling == a.mode = "rolling-back"
           again == IF rolling THEN Invalidate(a, FALSE) ELSE a
       IN  au' = IF browsers.handoff[v] # a.epoch \/ (rolling /\ a.rollback.epoch = 0) THEN a
                 ELSE RollbackSession(again, FALSE, browsers.attached).au

\* The first so many of the queries held during a rollback go to the PTY for the chosen
\* view; the next one fails, if there is one.
Handed(queries, told) ==
    [k \in DOMAIN queries |-> [queries[k] EXCEPT !.told = @ \/ k <= told]]

Transferred(a, told) ==
    [a EXCEPT !.rollback.queries = Handed(@, told),
              !.answers = [n \in DOMAIN @ |-> @[n] + Cardinality({k \in 1 .. told :
                                a.rollback.queries[k] = [n |-> n, told |-> FALSE]})]]

DrainFits(v, d) ==
    LET r == au.rollback
    IN  /\ au.mode = "rolling-back" /\ r.epoch = d.epoch /\ au.epoch = d.epoch
        /\ v \in r.affected
        /\ IF r.locked THEN d.n >= r.drained ELSE d.n = r.drained

HearDrain(v, told) ==   \* acknowledgeCompatibilityDrain
    LET d == browsers.drained[v]
        r == au.rollback
        b == [au EXCEPT !.rollback.locked = TRUE, !.rollback.drains = @ \union {v}]
        last == DrainFits(v, d) /\ b.rollback.drains = r.affected
        rebound == ~au.admitted /\ ~au.leases   \* else rollback-admission-not-closed
        all == IF last /\ rebound THEN Len(r.queries) ELSE 0
        c == Transferred(b, told)
        enable == [kind |-> "enable", n |-> r.drained, epoch |-> d.epoch, by |-> {v},
                   to |-> r.selected]
    IN  /\ v \in browsers.attached /\ d # NoRollback /\ browsers.disabled[v] = 0
        /\ browsers' = [browsers EXCEPT !.drained[v] = NoRollback]
        /\ told \in 0 .. all /\ (told < all => MayFail)
        /\ au' = CASE ~DrainFits(v, d) -> au
                   [] DrainFits(v, d) /\ ~last -> b
                   [] last /\ ~rebound ->
                         Invalidate([b EXCEPT !.rollback.drains = @ \ {v}], FALSE)
                   [] last /\ rebound /\ told < all ->
                         Invalidate([Troubled(c) EXCEPT !.rollback.drains = @ \ {v}], FALSE)
                   [] last /\ rebound /\ told = all ->
                         [c EXCEPT !.ccommit = d.epoch, !.admitted = TRUE,
                                   !.chain = Append(@, enable)]

RunRecovery ==   \* runScheduledRecovery
    /\ au.retry.at = "due"
    /\ LET started == [au EXCEPT !.retry.at = "running", !.retry.again = FALSE]
           r == RollbackSession(started, FALSE, browsers.attached)
       IN  au' = IF r.outcome = "begun" THEN [r.au EXCEPT !.retry.of = r.au.epoch]
                 ELSE RetryEnds(r.au, r.outcome = "done")
    /\ UNCHANGED browsers

RollBack ==   \* an operator's
    /\ au.mode = "server" /\ MayFail
    /\ au' = RollbackSession(Troubled(au), FALSE, browsers.attached).au
    /\ UNCHANGED browsers

\* onTopologyChanged, by the mode.
AbortNoticed(a, live) ==   \* notifyResponderTopologyChanged; alone, a mutant of Aborted
    [a EXCEPT !.begin = 0, !.deadline = FALSE, !.views = live, !.targets = live,
              !.acks = {}, !.recovering = TRUE, !.mode = "rolling-back"]

Aborted(a, live) ==   \* and resumeAbortedPromotionRecovery
    LET b == Schedule(AbortNoticed(a, live))
    IN  IF live = {} THEN b ELSE RollbackSession(b, TRUE, live).au

Wake(a, live) ==   \* wakeCompatibilityTopologyRecovery
    CASE a.targets = live /\ a.moved -> a
      [] a.targets = live /\ ~a.moved /\ a.rollback.epoch # 0 -> a
      [] OTHER -> [(IF a.rollback.epoch # 0 THEN Invalidate(a, TRUE) ELSE a)
                      EXCEPT !.moved = FALSE, !.targets = live, !.timer = TRUE]

ViewLeaves(v) ==
    LET live == browsers.attached \ {v}
        a == Troubled(au)
    IN  /\ v \in browsers.attached /\ MayFail
        /\ browsers' = [browsers EXCEPT
              !.attached = live, !.answering = @ \ {v},
              !.disabled[v] = 0, !.handoff[v] = 0, !.drained[v] = NoRollback]
        /\ au' = CASE a.mode = "legacy" -> a
                   [] a.mode = "promoting" -> Aborted(a, live)
                   [] a.mode = "rolling-back" -> Wake(a, live)
                   [] a.mode = "server" ->
                         [a EXCEPT !.targets = live, !.views = IF live = {} THEN @ ELSE live]

TopologyTimer ==   \* scheduleCompatibilityTopologyRecovery
    /\ au.timer
    /\ LET live == browsers.attached
           a == [au EXCEPT !.timer = FALSE]
           b == [(IF a.rollback.epoch # 0 THEN Invalidate(a, TRUE) ELSE a)
                    EXCEPT !.views = live, !.targets = live, !.acks = {}]
       IN  au' = CASE a.mode # "rolling-back" -> a
                   [] a.mode = "rolling-back" /\ live = {} -> b
                   [] OTHER -> RollbackSession([b EXCEPT !.moved = TRUE], TRUE, live).au
    /\ UNCHANGED browsers

-----------------------------------------------------------------------------
\* Frames go out and promises go on before the next timer, message or callback.
Underway == (au.chain # <<>> /\ ~au.sending) \/ BoundaryDue

ServerGoesOn ==   \* timers and callbacks of the server
    /\ ~Underway
    /\ \/ ApplyOutput \/ FrameSettles \/ RunRecovery \/ TopologyTimer
       \/ \E r \in au.receipts : Receipt(r, TRUE)

ViewAnswers(v) ==
    /\ ~Underway
    /\ \/ HearDisable(v) \/ SayDrained(v)
       \/ \E told \in 0 .. MaxHeldChunks : HearDrain(v, told)

Trouble ==   \* what nobody promises
    /\ ~Underway
    /\ \/ EnqueueOutput \/ StartPromotion \/ Deadline \/ RollBack
       \/ \E v \in Views : RefuseScreen(v) \/ ViewLeaves(v)
       \/ \E r \in au.receipts : Receipt(r, FALSE)

AuthorityNext ==
    \/ EnterPromotion \/ DropFrame
    \/ \E missed \in {{}} \union {{v} : v \in Views} : SendFrame(missed)
    \/ ServerGoesOn
    \/ \E v \in Views : ViewAnswers(v)
    \/ Trouble

\* Promises are settled, timers fire, and views answer the frames they were sent.
AuthorityFairness ==
    /\ WF_authorityVars(EnterPromotion \/ DropFrame \/ SendFrame({}))
    /\ WF_authorityVars(ServerGoesOn)
    /\ WF_authorityVars(\E v \in Views : ViewAnswers(v))

AuthoritySpec == AuthorityInit /\ [][AuthorityNext]_authorityVars /\ AuthorityFairness

-----------------------------------------------------------------------------
\* The state has its type, and what is held back stays within maxHeldOutputChunks.
AuthorityTypeOK ==
    /\ au.mode \in {"legacy", "promoting", "server", "rolling-back"}
    /\ au.views \union au.targets \union au.acks \union au.lost \subseteq Views
    /\ Chunks(au) <= MaxHeldChunks /\ Len(au.restarted) <= MaxHeldChunks
    /\ au.rollback.epoch # 0 => Len(au.rollback.queries) <= MaxHeldChunks

\* MIG-BGSTAB-002 AC-2, AC-3: the server has its leases only while no attached view's parser
\* answers queries, whoever acknowledged, left or failed meanwhile, and has them exactly
\* while it is the authority.
OneAuthority ==
    /\ AuthorityTypeOK
    /\ au.leases => ~au.admitted /\ browsers.answering \intersect browsers.attached = {}
    /\ au.mode = "server" => au.leases
    /\ au.mode = "legacy" => ~au.leases

\* While the server is the authority, each attached view lacks exactly the outputs that are
\* still on their way to it: those held during the promotion and applied since are neither
\* left out nor written twice.
NothingSkipped ==
    au.mode = "server" =>
        \A v \in browsers.attached \ au.lost :
            au.applied - browsers.seen[v] =
                Cardinality({k \in DOMAIN au.chain :
                    au.chain[k].kind \in OutputKinds /\ ~(k = 1 /\ au.sending)})

\* MIG-BGSTAB-002 AC-3: the server writes at most one reply to a query, and while it is the
\* authority the queries of all the outputs that arrived since it took over have theirs.
AnsweredOnce ==
    \A n \in DOMAIN au.owners :
        /\ au.answers[n] <= 1
        /\ au.mode = "server" /\ au.since < n /\ n <= au.applied => au.answers[n] = 1

Returning == au.mode = "rolling-back" /\ browsers.attached # {}

\* The rollback of this epoch has sent every view its checkpoint.
ScreensRestored == au.rollback.epoch = au.epoch /\ au.rollback.settled

\* MIG-BGSTAB-002 AC-6: a promotion ends, and a session on its way back gives its views their
\* screens, unless nobody is left or the adapter has spent its retry and says so
\* ("authority-send-recovery-awaiting-topology").
AuthorityReturns ==
    /\ (au.mode = "promoting") ~> (au.mode # "promoting")
    /\ Returning ~> (~Returning \/ ScreensRestored \/ au.retry.at = "spent")
=============================================================================
