# BuilderGate in TLA+

BuilderGate is a server (Node, `server/src`) that keeps terminals (PTYs), their
workspaces and files, and shows them in a browser (`frontend/src`) over one
WebSocket per tab of the browser. It can link itself to other BuilderGate servers so
that agents on them send each other messages. A set of daemon tools (`tools/daemon`)
starts and stops it.

These modules model the parts of it where what goes wrong depends on the order of
events: what happens to a keystroke between the keyboard and the PTY, to output on its
way to a screen, to a message between two servers, to a file while several jobs move it,
to tabs and stores when writes fail and the server dies, to Git commands and loops that
wait for each other. TLC checks them on small instances, and TLAPS proves the most
important properties for every instance.

All paths below are relative to `src/`; `W` stands for `server/src/ws/WsRouter.ts`.
`PROJECT.json` holds the line numbers of every definition.

- [1 The system](#1-the-system)
- [2 Modules](#2-modules)
- [3 The path of an input](#3-the-path-of-an-input)
- [4 Links between servers](#4-links-between-servers)
- [5 File jobs](#5-file-jobs)
- [6 Output and screens](#6-output-and-screens)
- [7 Tabs and stores](#7-tabs-and-stores)
- [8 Git and loops](#8-git-and-loops)
- [9 Runs](#9-runs)
- [10 Proofs](#10-proofs)
- [11 Disagreements found](#11-disagreements-found)
- [12 What is not modelled](#12-what-is-not-modelled)
- [13 Plan](#13-plan)

## 1 The system

| component | state it keeps | operations | what makes it correct |
|---|---|---|---|
| input sequencer, `frontend/.../terminalInputSequencer.ts` | a batch, the next number, an epoch | batch, flush, number | numbers follow the order of typing |
| browser transport outbox, `TerminalContainer.tsx` | inputs that could not be sent yet | deliver, flush, expire, reject | no input is lost in silence, none overtakes another |
| router, `W` | per connection: subscriptions, replay fences with queues, repairs, timers | messages of the browser, connects and disconnects, output and end of sessions | input is written once, in order, on the screen the user sees |
| input ledger, `terminalInputLedger.ts` | per logical client and session: live records, tombstones, watermarks | admit, release | an operation is admitted once, in bounded memory |
| input gateway, `SessionInputGateway.ts` | leases | submit | only the holder of the lease writes |
| session manager, `SessionManager.ts` | PTYs, headless terminals, snapshots | create, resize, output, delete, exit | output reaches a screen once and in order; a session ends once |
| terminal authority, `TerminalAuthorityController.ts`, `TerminalAuthorityProductionAdapter.ts` | per session: a mode, an epoch, the transaction under way, a chain of frames, leases, retries | promote, acknowledge, roll back, drain, recover | one side answers the queries of the shell, each once; a session comes back |
| peer links, `services/peer` | peers, connections, queues, boxes of results | hello, messages, calls, settings | messages run in order, once, and their status is true |
| file jobs, `services/fileJobs` | jobs, questions, remembered answers | start, decide, cancel, dispose; scan, copy, move, delete | no file is lost; every job ends |
| workspaces and stores, `WorkspaceService.ts`, `atomicStoreWrite.ts`, `SessionSnapshotService.ts`, `RuntimeConfigStore.ts`, `ConfigFileRepository.ts` | the state in memory, a timer, a chain of writes, a backup | change, flush, publish, recover | what was acknowledged is read again after a crash |
| authentication, `AuthService.ts`, `authAttemptThrottle.ts`, the token stores | revoked tokens and deadlines, attempts, tokens | issue, refresh, revoke, clean up | a refreshed token ends at its deadline; a download token is used once |
| loops, `LoopService.ts` | loops, the running set, runs | schedule, run, cancel | a loop runs once at a time; a cancel ends it |
| MCP tools and message delivery, `Mcp*.ts`, `submitDelivery.ts` | sessions, audits | tools; text and Enter | a message is one command |
| editor waits, git, usage, webhooks, agents | caches, queues, polls | scans and calls | what is shown was true; limits are kept |
| start, shutdown and daemon tools, `gracefulShutdown.ts`, `tools/daemon` | state file, heartbeat, process ids | start, watch, stop | the process that is stopped is ours; stores are flushed |

The parts interact by calls inside one Node process, so a handler runs without
interruption until it awaits; by messages over WebSockets, which arrive in order or
not at all; by timers; and through the file system, which outlives the process. The
browser talks to the router; the router asks the ledger, the gateway and the session
manager; the session manager calls the router back with output and events. The
manager of peer links runs the MCP tools for another server. Jobs, loops and stores
share nothing but the file system and the sessions.

What is hard is therefore: messages under way when a connection is replaced; timers
that race with the answers they wait for; state read before an await and used after
it; bounded memories that forget; and jobs that look at a file and act on it later.
`PROJECT.json` lists these hazards one by one, at the line where each bites, with the
properties that would catch it.

Hazards the list leaves out, because their parts are still to be modelled: concurrent
saves of a snapshot (`SessionSnapshotService.ts` 725); work that outlives the time-out of
the shutdown (`gracefulShutdown.ts` 276); deadlines of refreshed tokens that only memory
holds (`AuthService.ts` 30) and delays read before failures are counted
(`authAttemptThrottle.ts` 97); reused process ids (`process-info.js` 328) and half-dead
daemons (`launcher.js` 498); a session that is created under the id of one that runs
(`SessionManager.ts` 1499).

## 2 Modules

| module | models | checked in |
|---|---|---|
| `InputLedgerEntry` | one entry of the ledger: records, tombstones, watermarks, as operators | with the next two |
| `TerminalInputLedger` | the ledger with its clock | `ledger_and_authority` |
| `InputAdmission` | what the ledger promises: a ledger that never forgets | `ledger_and_authority` (refinement) |
| `TerminalAuthority` | who answers for a terminal, its browsers or the server, and the way from one to the other | `ledger_and_authority` |
| `TerminalInput` | the way from a browser's socket to the PTY: connections, router, fences, ledger, gateway | `input_*`, `settles` |
| `BrowserInput` | the way from the keyboard to the socket: view, sequencer, outbox | `services`, `settles` |
| `ScreenReplay` | the way of output from a shell to the screens that show it | `services`, `screen_degrades` |
| `PeerLinkState` | peers, connections and queues of the manager, as operators | with the next |
| `PeerLink` | two servers, their connections, messages and calls | `peer_*` |
| `FileJobLifecycle` | the table of states of a job | `files` (refinement) |
| `FileJobRun` | one job: its runner and its questions, as operators | with the next |
| `FileJobs` | several jobs, the manager and the file system | `files`, `files_met` |
| `WorkspaceTabs` | workspaces, tabs, their sessions, and the saving of all that | `services` |
| `StorePublish` | the files of one store, written by several processes | `services` |
| `GitRunner` | the queue of Git commands with its two limits | `settles` |
| `GitSummary` | the summary of a repository kept while its watch is quiet | `services` |
| `LoopRuns` | runs of scheduled loops, the tabs they open and keep | `services`, `settles` |
| `*Proofs` | theorems about the modules they extend, and the lemmas they rest on; `ServiceProofs` about `GitRunner`, `GitSummary` and `LoopRuns`, `StoreProofs` about `WorkspaceTabs` and `StorePublish`, `BrowserProofs` about `ScreenReplay` and `BrowserInput` | |
| `MC*` | small instances | |

`TerminalInput` does not instantiate the module of the ledger: it composes with it by using
the same operators of `InputLedgerEntry` on the entries it keeps, with the clock standing
still. In the same way the operators of `PeerLinkState` and `FileJobRun` are the code that
several actions share. `MCServices`, `MCSettles` and `MCLedgerAuthority` put parts that share
no state into one run: a behavior chooses one of them at its start and the others stay in
their initial states, so the states of the run are the sum of the states of its parts, and
not their product. Each part's invariants hold trivially while another is chosen.

## 3 The path of an input

**Browser.** `BrowserInput` is one terminal of the browser: the gate and the queue of
`TerminalView` (`pendingInputQueue`), the characters the sequencer gathers until a
boundary such as Enter, a full span or its timer, and the outbox of `TerminalContainer`.
JavaScript runs an event to its end, so an event fills `turn` with the calls it makes and
the steps carry them out in order (`SyncTransport`, `Capture`, `flushTransportPipeline`,
`Deliver`, ...); no other event comes between. The events are keys, timers, the socket's
closing and React's renders of its states with the effects that follow them, sessions
that become ready or fail, recoveries of the output, hiding and showing. A send may be
refused by an open socket (back-pressure, a failing call) or find it stale. Sizes count
inputs; a time limit is a flag that the oldest entries take, in order. A recovery and the
convergence after it are one flag, the mode that only observes is left out, and a session
that is exchanged remounts the container, so `Detach` ends it. Left out are the checkpoint
routes of `submitCapturedInput` (`TerminalView.tsx` 1147-1190), a fourth place where input may
wait: while the view loads a checkpoint, an input goes to the queue of the view, is refused, or
is held by the runtime of the checkpoint until that is ready. The properties say nothing of what
is typed then.

**Ledger.** An entry (`LedgerEntry`) is a record of sets and functions: the live
`operations`, the tombstones `expiredOperations`, the `order` in which they were
admitted, digests, and the watermark of each epoch below which operations were
forgotten. `Admit` is the whole of `admit`: sweep by age, the outcome, remembering,
eviction to tombstones, forgetting tombstones into the watermark. `Release` and
`ReleaseLogicalClient` delete entries. Sequence numbers are a constant function of the
operation, because the browser numbers an operation once and keeps its number when it
sends it again.

**Router.** Each client has at most one connection at a time, with the messages under
way in both directions and the server's `meta`: subscribed or not, the pending replay
(token, queue and whether it is an authority fence), and a running screen repair. An
action takes the next message and does what its handler does: `HandleInput`
(`W` 3548-3747) queues behind a fence, or asks the ledger and then the gateway;
`HandleSnapshotReady` flushes; `HandleSubscribe`, `HandleUnsubscribe`,
`HandleRepairReplay`, `HandleScreenRepair` change the fence; `ReplayAckTimeout`,
`AuthorityRetry`, `RefreshReplaySnapshot` and `ScreenRepairEnds` are the timers and
callbacks; `EndSession`, `BeginClose` and `HandleDisconnect` the ends. What the queue
holds when its fence is replaced follows `takeRestoreAuthorityPendingSeed` and
`markReplayPending`: handed on, or rejected.

**Abstractions.** A payload is one value; keystrokes are operations 1, 2, 3. The size
limit of the queue (64 KiB) is a number of inputs, the age limit (3 s) lets any oldest
inputs have waited too long, and the acknowledgement timer (5 s) may fire whenever it
is armed. The lease, the check of the session's identity and the PTY are one
nondeterministic answer of the gateway, except that it writes only when no repair runs
and the session lives. A successful send is not repeated by the browser on the same
connection; after a reconnect it may send any suffix of its inputs again.

**Properties.** In the browser: what is held back stays in its place and each input is in
exactly one place (`HeldInPlace`), none is sent into a later generation of its session
(`SentInItsGeneration`), and what passed the view is sent or given up at last
(`PassedSettles`). The ledger: at most one write of an ordered operation (`AtMostOnce`),
a new operation is never refused (`FreshIsAdmitted`), bounded memory (`MemoryFits`), the
window within which even an unordered operation is not repeated
(`WindowBeforeRepeat`), and answers that tell the truth (`AnswersAreTrue`, the
refinement of `InputAdmission`). The router: typing order (`TypedOrder`), inputs act only
on the screen their user sees (`ActsOnSeenScreen`), inputs add up (`InputsAddUp`: each that
arrived was answered or waits, the path that asks the ledger writes an input once, and
what the ledger refuses as a repeat was a repeat), and, under fairness, held inputs settle
(`QueueSettles`).

## 4 Links between servers

A link is configured on one server, which dials the other. `PeerLink` has the
manager's objects as they are: `Peer` objects (by number, because an old one lives on
in callbacks after it was replaced), the `peers` map of each server, connections with
two ends and the frames under way, the outbox of each peer, the boxes of results a
receiver keeps per sender and epoch, the runs of tools with the chain they belong to,
and calls. Every handler of `peerLinkManager.ts` is an action: hello, the check of its
key (an await, so the state may have changed when it ends), welcome, bye, messages and
results, calls and results, expiry, retries, changed settings, renamed servers,
rotated keys, stop and restart.

Heartbeats and waiting times are left out: a connection may break at any moment, a
retry comes at some time. Further left out are the limit of the queue in bytes (its
refusal is that of the count), the history of 500 settled messages, the 3 s a caller
waits for a quick result, scopes, and frames no BuilderGate sends. When an end closes,
any part of what is under way may be lost, more than TCP would lose.

Properties: no connection leaks, what refers to it is consistent, the list tells the truth
and calls fail with their link (`PeersFitTogether`), no message leaves the queue without a
final status and the status is true of what ran as far as the receiver remembers it
(`FatesAreTrue`), messages run in order and once while the links stay what they were set
to be (`RunsInOrder`, of which `OneAtATime` and `RunOnce` are the halves, under
`LinksStay`: nobody is renamed, and no link is removed and set again), and under fairness
a link recovers and its queue drains (`LinkRecovers`, `QueueDrains`).

The receiver remembers `InboxResults` results of each sender and epoch. The code has 64 of
them for a queue of 256 messages, so a resend may come when its result is gone. The runs have
one result for up to three messages, so that this happens. `FatesAreTrue` says what is true
then: an expired message never ran, one whose result the receiver still had is reported as it
ended (`ReportedRan`), and one that is reported as delivered without that had been taken in, and
its result was overtaken (`Overtaken`). That a message which is reported as delivered has run and
succeeded (`DeliveredRan`) is false: `peer_forgotten_result`, section 11.

## 5 File jobs

`FileJobs` has the manager (start, decide, cancel, the closing of a session, the
waiting timer, retention, dispose) and for each job its runner, as a program counter
between two calls of the file system. The effect of a call and the code up to the next
one are one action, so other jobs run between any two calls. The file system is a
function from paths to contents, and a content is named by the path it had first; in
each state it is what a crash would leave. A copy writes a temporary file and puts it
in place with a hard link, or after a second look where there are none; a move renames,
or copies and removes the source between devices; every failed call asks to retry or
to skip, every taken name asks to skip, overwrite or rename, and answers may be
remembered for their class (`QuestionClass`). An answer may come late, from an old
dialog.

Entries are files and links. Directories and their merging, extraction, the throttled
progress, the details of the path checks and the list of jobs are left out. No link
stands where a file goes in the checked worlds. A stream may still end after the
cancel, which in the code is possible only in the instant before the signal is seen. A
cancelled job may still complete when it was past its last check, as in the code.

Properties: no file is lost but by consent (`FilesKept`), a completed job did what
was asked (`CompletedAsAsked`), nothing is left half-written (`NoTempLeft`), waiting
stays in its budget (`AwaitBudget`), a cancel is obeyed (`CancelStops`), states follow
the table (`FollowsLifecycle`, a refinement of `FileJobLifecycle`), and every job ends
even if nobody answers (`JobsEnd`).

## 6 Output and screens

The server writes the output of a shell to a terminal of its own, the headless one, and
routes it to the browsers when that write is done, with the sequence number the write
got (`SessionManager.ts`). `ScreenReplay` has the chunks that wait for the headless
terminal, and for each viewer what the router keeps (`W`): a fence with the output it
holds, a repair, and the token of the snapshot under way. A chunk is held behind a fence
(`Hold`), held for a repair, or sent (`Routed`). Joining, asking again, a resize and a
failure of the headless terminal each send a snapshot; `Refreshed` is
`refreshReplaySnapshots`, which replaces the snapshot behind a fence, drops the fence, or
leaves it. Every queue is bounded, and a viewer whose queue overflows is told to
reconnect (`TellToReconnect`).

A chunk is a number, and a screen is the chunks it was made of since the last one that
left it blank. A token is only ever compared with that of the current fence, so an
acknowledgement is of the current snapshot or stale. Left out are sizes in bytes,
snapshots too big to send, the delivery a terminal authority takes over, and the inputs a
fence holds, which `TerminalInput` has.

Properties: a screen shows, or is about to show, each chunk that was routed exactly once
and in order (`NothingLostOrTwice`), and no output is sent to a viewer while it puts a
snapshot on its screen (`QuietWhileApplying`). The first fails when the headless terminal
fails while a patch is under way (section 11); `FailsInRepair = FALSE` keeps that case out
of `services`, and `screen_degrades` shows it.

**Authority.** A program in a terminal asks questions of it (where is the cursor?), and
either the browsers' parsers answer them (mode `legacy`) or the server's own model of the
screen (mode `server`). `TerminalAuthority` is the controller that moves a session from one
to the other and back, with the adapter that calls it. Its record `au` has the controller's
and the adapter's fields under their own or similar names; `browsers` has what each view
shows, whether its parser answers, and what it sends back. Everything the controller sends
goes through one chain of frames per session (`QueueFrame`, `SendFrame`, `FrameSettles`,
`DropFrame`), and a transaction is a train of frames, each of which lets it go on when it
is out: a promotion fences the session (`StartPromotion`), waits until the outputs of the
browsers' time are applied (`EnterPromotion`), tells the views to stop answering and counts
their acknowledgements (`HearDisable`), and when the receipt of the last is out
(`Receipt`) installs the leases, sends what was held and lets the server answer
(`ReleaseNext`). A rollback takes the leases away (`BeginRollback`), sends start,
checkpoint and the outputs since, waits for every view to say that it is drained
(`HearDrain`), hands the held queries over and lets one view answer again (`AfterEnable`).
Between any two of these steps outputs are applied, deadlines pass, frames fail and views
leave (`ViewLeaves`); a failure asks for a recovery (`RequestRecovery`), which the adapter
schedules, runs and tries again once (`Schedule`, `RunRecovery`, `RetryEnds`). What a view
does with a frame (`Received`, `SayDrained`, `RefuseScreen`) is modelled from the handlers of
the frontend as far as the server can tell. Left out are the handshake of the
view's attributes, recoveries of a single view, the rotation of epochs, views that join
during a transaction, claims of the driver's lease, and the loading of a recovered screen. The
chunks of a checkpoint are one frame (`AfterCheckpoint`), and the outputs a promotion held stay
held when it is rolled back before they were sent, in the code as in the model.

Properties: the server has its leases only while no attached view answers (`OneAuthority`);
while it is the authority no output is skipped or repeated for a view (`NothingSkipped`), and
each query has one answer (`AnsweredOnce`); a promotion ends, and a session on its way back gives its views
their screens unless the adapter has spent its retry and says so (`AuthorityReturns`).

## 7 Tabs and stores

**Tabs.** `WorkspaceTabs` is `WorkspaceService` with the sessions of its tabs. An
operation changes the state, waits for a write of the store, and goes on when it is done
or takes its change back when it failed (`TakeBack`); a deletion marks its tabs before it
ends their shells and removes them afterwards with a second write. Writes run one at a
time (`flushChain`), each of the state at its start; moving a tab is saved when a timer
fires or with the next write. A session that cannot be ended stops its operation halfway
(`EndingFails`). Shells exit by themselves, the server dies at any moment
with its write done or not, and starts again from the store, with a new shell for each
tab that is not marked unless making it fails (`Boot`). Left out are names, colours and the
layout; the workspace that is made when the store has none (`WorkspaceService.ts` 203), which
would have to be a new one, while the model never removes the last; and what still ends in the
background of a `terminateMultipleSessions` after one of its sessions failed.

Property: what was answered stands, whatever follows (`AnswersStand`: a tab added stays,
`AddedStays`; what was deleted does not come back, `DeletedGone`; a marked tab gets no
shell after a crash, `MarkedStaysDead`; what memory holds is in the store or a save is
due, `SavedOrScheduled`).

**Stores.** `StorePublish` is `publishStoreAtomically` by several processes on the same
files: the payload goes to a temporary file, the store is copied to its backup, each with a
rename, some calls are refused while somebody has the file open, some fail for good, the
temporary file then cannot always be removed (`LeavesTemp`), and a process may be killed between
any two. A process that starts reads the store, or its
backup, or takes the defaults, and publishes what it recovered. `PreserveBackup` is the
option of the same name: it is TRUE, as in `RecoveryOptionService`.

Properties: a publish that reports success has placed its own document, and neither store
nor backup ever turns into something that does not parse (`PublishesWhole`); there is
always a document to start from, and who is done leaves no temporary file unless it was killed or
could not remove it (`FolderIsFit`).

## 8 Git and loops

**Git.** `GitRunner` is the queue of `gitRunner.ts`: `maxGlobal` commands at a time,
`maxPerRepo` in one repository, identical requests sharing one command. `pump` is a loop
over the queue, here a position that advances, so that an error in how it passes blocked
commands shows. Properties: the limits hold and no slot stays unused while somebody may
use it (`SlotsWellUsed`), the commands of a repository start in order (`GitInOrder`), each
request is answered (`GitAnswered`).

`GitSummary` is `computeSummary` of `GitService.ts`: a summary is kept until the watch
of the repository reports a change, and one that was computed while a change was taken is
answered and not kept. Property: what is kept is right while the watch is quiet
(`KeptIsRight`), for sessions in folders of their own; section 11 has the other case.

**Loops.** `LoopRuns` is `LoopService.ts`: the tick (the next may come while the save of the one
before it is awaited), runs that begin, wait for their turn to
open a tab, send their steps, save their end and keep or close their tabs, while users
turn loops off and on, delete them and close tabs and workspaces, and calls fail. The lists
of tabs a loop keeps, and of those `keepTab` has still to look at, are sets of numbers of
runs, since a run opens one tab and tabs are closed from the oldest on.
Properties: tabs stay below the cap, workspaces have numbers of their own, a loop keeps at
most the tabs it may, and its history is true (`TabsAndHistory`); a cancelled run starts no
further step (`CancelledSendsNoMore`); every run ends (`RunsEnd`).

## 9 Runs

| run | question | bounds | states |
|---|---|---|---|
| `ledger_and_authority` | does the ledger forget without lying? Does a terminal always have one authority, and come back? | ledger: room for 1 record and 1 tombstone, 5 operations (3 of one epoch, one of another, one unordered), 2 payloads, time-to-live 2 of 3 ticks, 4 admissions; authority: 2 views, 1 output, 1 chunk held, 1 trouble, promotions up to epoch 2 | 160,000 |
| `input_order` | order, screens, repeats, and that inputs add up | 3 inputs on 1 connection, 2 tokens, 2 under way; or 2 inputs over a reconnect, 1 under way; queue of 2 | 1,029,000 |
| `input_written_once` | is a retry written once by *every* path? No | 2 inputs, 2 connections | |
| `peer_messages` | connections, list, calls, order, repeats and fates of messages under every disturbance | 2 servers, 3 connections, 1 result kept; 2 disturbances with no message, with one, or of connections with two messages; 1 of any kind with two messages or a call each way, 1 of a connection with three messages | 341,000 |
| `peer_recovers` | liveness | 1 message, 2 broken or refused connections | 5,000 |
| `peer_accepted_order` | order towards the accepting side? No | 3 messages, 3 connections, 2 disturbances of them | |
| `peer_forgotten_result` | does what is reported as delivered have run? No | 2 messages, 3 connections, 2 disturbances of them, 1 result kept | |
| `files` | all properties of file jobs | 2 jobs in 3 worlds, 1 failing call, 2 answers per job, budget 1, names numbered up to 3 | 398,000 |
| `files_met` | may two moves meet at one target? No | 2 moves | |
| `settles` | does what waits come to an end? | see below | 141,000 |
| `services` | the safety of six parts | see below | 1,309,000 |
| `screen_degrades` | is output ever missing on a screen? Yes | 1 viewer, 4 chunks, 1 repair, 1 failure | |

`settles` has four parts: 2 inputs of a client without a logical id behind the fence; 6 Git
commands of 3 repositories, two of them alike, with 2 slots and 1 per repository; 2 loops
with 2 runs and 1 upset; 1 input in a browser whose socket refuses twice and is disturbed
once. `services` has six:

| part | bounds | states |
|---|---|---|
| `workspaces` | 2 workspaces, 2 tabs, 3 operations, and 1 move, failing write or crash | 392,000 |
| `store` | 2 processes, 2 documents each, 2 refused renames, 1 retry, 1 fault (which may leave a temporary file), 1 kill (unless a file was left) | 269,000 |
| `screen` | 1 viewer, 4 chunks, queues of 2, 3 of resizes, repairs, replays, departures and failures | 116,000 |
| `summary` | 2 sessions in folders of their own, 3 changes, 2 watches | 16,000 |
| `loops` | 2 loops, 3 runs (2 with an upset), room for 2 tabs, 1 per workspace | 332,000 |
| `browser` | 3 inputs (2 with a disturbance), 1 refusal, spans and queues of 2 | 184,000 |

*Why the bounds are enough.* Room for one record and one tombstone makes each further
admission evict, forget and raise the watermark, so four admissions pass through every place
an operation can be in, and back; ages cross the time-to-live with two ticks of three. A
fence can be replaced once (two tokens) with a full queue behind it, which is what makes late
acknowledgements, handing on and refresh happen. Three connections are one that is used, one
that replaces it and one that replaces that while the first still reports its close; two
disturbances are the least that make a retry meet a change. Two jobs suffice for each
interference, since an interference is of a look and an act; the three worlds put every kind
of act next to another on the same path. Three operations on tabs are one that fails, one
queued behind its write and one that begins meanwhile. Two writers of a store meet in every
order of their renames, with a death or a failure of either. In the authority, promotions up
to epoch 2 let a session go over, come back and begin again, and one trouble (a failed frame,
a view that leaves, a deadline, a rollback) meets every step of that; two views are the least
of which one may leave. The safety properties were also checked, outside the runs, with 2
outputs or 2 troubles or both (0.5 to 1 million states), and the liveness property with 2
troubles. Four chunks fill the queue of the headless terminal and that of a fence at the same
time. Three runs of two loops are one that runs, one skipped beside it and one that waits for
its turn. Three inputs in a browser let one wait in each of its queues.

*Deadlock* is not checked where the modelled use is finite: browsers type a bounded
number of inputs, servers send a bounded number of messages, jobs end, and the clock and
the admissions of the ledger are bounded.

*Fairness* is on single steps that the code or its platform always takes:

- inputs behind the fence: an acknowledgement timer that is armed and not cleared fires
  (`setTimeout` in the router). Nothing is assumed of the browser, not even that it
  acknowledges.
- authority: promises are settled (`EnterPromotion`, `DropFrame`, `SendFrame` without a
  failure), timers and callbacks of the server run, and views answer the frames they were
  sent. Frames go out before the next timer or message, as promises do. Troubles are never
  forced. `LateReceipts = FALSE`: a receipt that is still on its way when the session is back
  in legacy mode is out before the next promotion begins (section 11 has the other case).
- Git: a command ends, since it has a time limit, and `pump` runs to its end.
- loops: the calls a run waits for return, with success or failure.
- browser: what an event has begun is carried out, and timers that are due fire. That is
  strong fairness, because between two events of other kinds a timer is never enabled for
  long while `turn` is carried out; a user who types without end cannot hold a timer back.
  Sockets need not open.
- `peer_recovers`: the manager is started, sockets open or fail, report their close and
  carry their frames; a key is checked; a retry timer fires; a tool ends. Nothing makes
  users send, messages expire or disturbances happen. The checks of a key and the
  closing of a socket that are assumed are the ones without a disturbance, so that
  fairness never forces one.
- `files`: calls of the file system end, the clock goes on and timers fire when they
  are due. Nobody has to answer a question, and nobody has to cancel.

Every property is paired with a mutant, a plausible mistake in one mapped definition
(a watermark not raised, a queue not handed on, a retry not scheduled, a temporary file
shared), under which TLC finds the property violated with the same configuration.

## 10 Proofs

TLAPS proves the following for all sets of clients, sessions, operations, payloads, jobs,
files, requests, repositories, processes, folders, loops, tabs, viewers, views and chunks of
output, and all bounds, from the assumptions the modules state about their constants
(`EntryAssumption`, `LedgerAssumption`, `InputAssumption`, `FileJobAssumption`,
`GitRunnerAssumption`, `StoreAssumption`, `LoopRunsAssumption`, `WorkspaceAssumption`,
`ScreenReplayAssumption`, `BrowserAssumption`, `AuthorityAssumption`: bounds are naturals, an ordering is an epoch
with a start, the inputs of a terminal are numbered from 1, the ways to start jobs are specs
with at least one source, identical requests are of one repository, the loops and the views
of a terminal are finitely many, the tabs there are at first are tabs); those about Git
commands also assume that the requests are finitely many. TLC evaluates the assumptions in
the runs.

**Inputs** (`TerminalInputProofs`): `InvHolds`, `TypedOrderHolds`, `InputsAddUpHold`,
`ActsOnSeenScreenHolds`. The order of writing says nothing of what is still on its way, so
the invariant `IInv` follows an input from the browser to its fate. It is stated for each
client (`Fits`), and its parts need each other:

- `InLine`: what waits behind the fence is in the order of typing, what is under way too,
  and the first comes before the second. `NoneLost`: while the connection is open, what it
  has sent met its fate, waits or is under way. Together they give `WrittenInOrder`, because
  whatever is before the input a handler takes has met its fate.
- `Adds`: each arrival was answered or waits; this is the conservation of inputs through
  the hand-over of a queue from one fence to the next. `NoGap`: among the inputs the client
  may still send again, those that arrived come first. It is why an input at most at a
  watermark is a repeat: one at least as new has arrived, hence it has.
- `FenceFits`: the fence is that of the newest snapshot, an acknowledgement under way is of
  one that was not acknowledged yet, a closed connection has left nothing. Only the
  acknowledgement of the newest snapshot therefore releases what waits
  (`ActsOnSeenScreen`).
- `LedgerFits`: some account of what was written makes the entry of the ledger true
  (`EntryInv`, below), and what the account counts has arrived. `EntryInv` and its lemmas
  about the operators of the ledger are shared with the next proofs
  (`InputLedgerEntryProofs`). When the session has ended the account is not needed.

TLC checked `IInv` on the instance of `input_order` before it was proved. The lemmas say what
each operator of the router does to a client whose parts fit (queueing, flushing,
handing on, rejecting); the steps compose them, and all other clients are left alone.

**Ledger** (`TerminalInputLedgerProofs`): `TypeCorrect`,
`WrittenAtMostOnce`, `NewIsAdmitted`, `MemoryIsBounded`, `MemoryStaysFit`, `Implements`,
`RepeatsOnlyOutOfWindow`.
`AtMostOnce` is not inductive: nothing in it says how the ledger knows that an operation
was written. The inductive invariant `IInv` adds `EntryInv`: an ordered operation that was
written is a live record, or a tombstone, or lies at most at the watermark of its epoch;
whatever the entry knows was written; and a watermark was reached by an operation that was
written. The second half is what makes refusals true and lets new operations through.
Each operator (`Forget`, `Sweep`, `Remember`, `DropTombstone`, `Evict`) has a lemma
that it keeps `EntryInv`, and the actions compose them. `Implements` then reads the
truth of each answer from `EntryInv`. `MemoryIsBounded` adds that the sizes were within
their bounds before, so that one eviction is enough (`BoundedInv`).
`RepeatsOnlyOutOfWindow` is about operations without an ordering, which nothing but the
memory protects: what was let through is let through again only when the time to live has
passed or twice `MaxOperations` others arrived since. `WindowInv` says that an entry forgets
in the order of arrival: the ordinals of what it knows are distinct, and those of the
tombstones lie below those of the live records (`InOrder`). A tombstone is dropped when there
are as many others, all newer, and the live records, newer still, are full; counting their
ordinals gives the window (`Remembered`).

**File jobs** (`FileJobsProofs`): `WaitsWithinBudget`, `NothingHalfWritten`,
`CancelIsObeyed`, `LifecycleFollowed`, `CompletedIsDone`. The first four properties need one
inductive invariant: each job is `Sound`, which relates its program counter, state, question,
waiting time and temporary file (a job that asks has a question, and what it has left plus
what it has waited is the budget; only a job that writes has a temporary file; a job that was
cancelled is in no question), and no user was ever shown the absence of a question. The
lemmas say of each operator of `FileJobRun` to which jobs it leads from a sound one (`Goes`);
the steps follow from these, and the two action properties from the same lemmas, since `Goes`
also says which states and entries may follow. `CompletedAsAsked` needs a second invariant
beside it (`EntriesSettled`): each job keeps its books (`Keeps`), that is, every entry before
the one it is at was placed, removed or skipped by an answer of the user, in whichever phase
it is. The books must be stated for each place in the runner, because an entry is settled a
few calls before the runner goes on to the next, and a question in between can bring it back
to the call that failed.

**Git commands** (`ServiceProofs`): `LimitsHold`, `NoneIdle`, `SlotsAreUsed`,
`StartsInOrder`. `LimitsInv` adds to the limits that the queue holds exactly the requests
that wait, each once (`QueueInv`), so that starting one frees no other. For the unused slots
and the order, `OrderInv` adds what `pump` knows half-way: whatever it has passed is
blocked (`PassedBlocked`), and starting another only blocks it more. With it, a command
that starts is the first of its repository, because an older one was passed and is blocked
by the limit of that repository or by that of all, which would block this one too.

**Screens** (`BrowserProofs`): `ScreenFits`, `NothingIsLost`, `QuietUntilApplied`,
assuming `Clears = {}` and, for the second, a terminal that does not fail under the patch of a
repair; without these the code does lose output (`screen_degrades` and the blank refresh of
section 11), so they are what the code needs and not what the prover needs. What a viewer will
show is nowhere stored: it follows from its screen, the snapshot on its way and what its fence
or its repair holds. `ScreenInv` relates these to the headless terminal, for each viewer:

- `Shown`: a fence holds the chunks after its snapshot up to the terminal, in order and each
  once; a repair those after its patch; a viewer with neither shows what the terminal shows;
- `Sound`: what is held is no newer than the terminal and, if anything was held, the terminal
  is not blank. So a new snapshot may drop what it covers, and the fence that
  `refreshReplaySnapshots` finds survives it;
- `Tokens`: an acknowledgement of the current snapshot is on its way only after that snapshot
  was put on the screen, and a fence without a snapshot has none. So nothing that was held is
  sent over a snapshot that is still being put there (`QuietWhileApplying`);
- `UpTo`: no image on its way shows more than the terminal.

TLC checked `ScreenInv` on larger instances than that of `services` before it was proved. The
proofs read the order of a queue through two positions of it: `Newer` is therefore stated by
the elements it keeps and not by `SelectSeq`, which is recursive and whose value the prover
cannot know; TLC found both equal on all short queues.

**Browser input** (`BrowserProofs`): `KeysAlwaysFit`, `SentInItsGenerationHolds`,
`HeldAlwaysFits`, `HeldInPlaceHolds`. The session
generation is compared when an entry leaves the queue of the view or the outbox, but
`deliverSequencedInput` compares nothing: it sends what the sequencer gathered in whatever
generation it finds. That this is the one the characters were typed in depends on the order
of the calls in a turn, which the inductive invariant `KeysFit` states:

- `GatheredFit`: gathered characters are of the generation at hand; or the transport is closed
  and the link is down, or the transport is closed for another reason and the turn under way
  still has to flush the sequencer, which then gives the characters up (`CallFits`);
- `Shape`: a turn that closes the transport tells the view next and flushes the sequencer
  later (`Closes`), and inputs that are on their way are carried out before any other call, so
  that no call changes the generation between them;
- `Told`: the view knows the generation or hears of it before it handles anything;
- what waits in the view and in the outbox carries the generation it was typed in, and what
  the socket took does too (`ViewEntry`, `OutEntry`, `WireEntry`).

One case rests on time. While the link is down any render may close the transport
(`syncInputTransportState`) in a turn that does not flush the sequencer; what is gathered then
is given up only because its timer, of a few milliseconds, fires before the link is up again.
`RenderStatus` assumes that to connect takes longer, and the theorem assumes it with the model. As in the other models the filters are stated by the positions
they keep (`Pick`) and the bytes that make room by a cardinality (`Dropped`), because the
prover cannot know what a recursive operator computes; TLC finds the same number of states
as with `SelectSeq` and a fold. TLC checked `KeysFit` on two instances before it was proved.

`HeldInPlace`, that between turns what waits is in typing order and each input in one place,
is not inductive, because inside a turn inputs are in no queue: they are what its calls carry.
`HeldFit` therefore counts the calls as places:

- `Placed`: the entries that are being flushed, the outbox, what is to be delivered, the
  gathered characters, what is to be submitted and the queue of the view rise in this order,
  and the typed inputs are these, those that were sent and those that were given up, no two of
  which meet. So each step only moves a part to its neighbour, or to an end, and has one
  lemma that says which (`GateMoves`, `GatherMoves`, `RestoreMoves` and so on);
- `InOrder`: each of the places is in order in itself; inputs that are delivered come first in
  their turn (`TurnInOrder`), and entries are flushed before any other call, so that an entry
  which is refused goes back before all that waits;
- `SentOnce`, and that the view holds nothing unless its gate is shut.

What was sent is only before what the view still holds: it need not be in order (see the
comment of `OutboxInOrder`). TLC checked `HeldFit` with three inputs before it was proved. The
properties are stated by positions in the queues (`EntriesInOrder`, `Places`) and not by
flattening them, for the reason given above.

**Authority** (`TerminalAuthorityProofs`): `AlwaysFit`, `OneAnswersHolds`,
`OneAuthorityHolds`. That nobody else answers while the server has its leases (`OneAnswers`) is
proved whether receipts are late or not; that it has them whenever it is the authority is
proved with `LateReceipts = FALSE`, because with late receipts it is false (section 11). What
decides is on its way somewhere: a frame that turns a parser off or on, the answer of a view, a
receipt. `Fit`, the inductive invariant, follows them:

- `Promoting`: each frame that turns a parser on again has the boundary of the promotion under
  way behind it, in the same chain, so that the parser is off again before the promotion can
  end. Until that boundary is out nobody has acknowledged the promotion and its commit has not
  begun; views that have acknowledged it do not answer; once its commit has begun no attached
  view does;
- `Alone`: while the server has its leases no view is admitted or answers, and no frame turns
  one on;
- `Past`: answers, receipts, commits and frames that are under way are of an epoch that was
  begun, and of one before a promotion that is being opened. So that promotion takes none of
  them for its own;
- `Exact`, without late receipts: at most one receipt is on its way, of the promotion under
  way; it installs the leases, and what was held is released only after that. So nothing
  is left that could drop the leases of a server that answers;
- `Sound`: types, and the bounds on what is held: outputs in the chain and behind a
  rollback together, queries for the next rollback.

Most of the controller's operations only take something away: they add frames that say nothing
of a promotion, take back acknowledgements, commits and leases, or return to a rollback.
`Yields` says this of two records, `StepFrom` composes it, and `YieldsFit` shows once that it
keeps `Fit`; failures, recoveries, retries, departures and outputs are proved so. The others,
which begin a promotion, acknowledge it, install leases, release what was held and turn a
parser on, have a lemma each.

That a query has one answer (`AnswersAccounted`, `AnsweredOnceHolds`) needs an account of all
queries, `Accounted`. The query of an output that was applied may be answered, staged until
the server has the authority (`effects`), or in a line: the one of the rollback under way, or
the one that waits for the next. It is in no two of these (`InLine`), so a flush, or a line
handed to a browser, writes a reply that was not written before. The lines are in the order of
the outputs, with those already told in front: so the controller may count the told ones and
drop as many from the front, as `Invalidate` does, without dropping another. And outputs that
come after the server took over are its own, each answered when it is applied. `Good` joins
this with the types; one lemma for each operator says that it keeps `Good`, with one output
between its delivery and its effect where `ApplyOutput` is half done. The account needs
nothing of `Exact`, so it holds with late receipts too.

The model counts frames and takes prefixes of queues where the
code filters, so that the prover can reason about them; TLC finds the same states for both.

**Stores** (`StoreProofs`): `NeverTorn`, `AlwaysReadable`, `PlacesItsOwn`,
`HarmsNobody`, `FolderStaysFit`, assuming `PreserveBackup`. The invariant says that a
temporary file belongs to the process it is named for and holds that process's document,
whole once it was written (`OwnTemps`), and that the store is whole whenever a process that
does not recover is at work, as is the copy it is about to make its backup (`SeenWhole`). A
process keeps what is said of the others (`Frame`) only because no two have a temporary
path in common.

**Git summaries** (`ServiceProofs`): `SummaryIsRight`, assuming `OwnFolders`. Then a
`git status` runs for the one session that waits for it, and began after that session had
asked the watch (`Alone`, `Before`); so a summary that may be kept while all is quiet is of
the repository as it is now (`Fresh`).

**Loops** (`ServiceProofs`): `LoopInvHolds`, `TabsAndHistoryHold`, `CancelledSend`. The cap on
tabs is tested before an await and used after it, so it holds only because one run at a time
has its turn (`OneByOne`) and what it counted leaves room for its tab (`RoomLeft`). In the
same way the number of a new workspace is apart from all others only while the run that
counted makes it (`SpacesNamed`, `NumbersApart`). The tabs a loop has left open are those it
keeps, or else a run is at work on them (`KeepsLeft`); the history needs that a loop that is
gone shows nothing (`HistoryTold`).

**Tabs** (`StoreProofs`): `TabsInvHolds`, `AnswersHold`. An operation of
`WorkspaceService` changes memory, waits for its write and goes on or takes its change back,
while others do the same; so `AnswersStand` speaks of the store and says nothing of what will
be there after the writes that are under way. The invariant `TabsInv` says of three
documents what they show:

- memory shows the change of every operation that is not taken back (`InMemory`): an
  addition leaves the tab listed whatever another takes back, because it takes back its own
  tab only;
- the document of the write that runs shows the change of the operation that waits for it
  (`HeadShown`): it was taken of memory when that write began, and the operation had made
  its change before it asked for the write. So when the write ends the store shows it;
- the store, and the document that may become the store by a crash, show the change of every
  operation that was answered (`InStore`). No later write takes it away, since its document
  is taken of memory when it begins.

With them go that each write is of one operation that waits for it (`WritesFit`), that a
tab is added once (`AddedOnce`), that a tab nobody restarted has no session but its own, the
one its deletion ends (`SessionsFit`: why a marked tab stays dead), and that a change which is
not in the last document has a save due (`Saved`). What a document
must show only weakens as deletions, restarts and failures are added (`DoneLess`), so most
steps are proved for any document and not for each of the three. TLC
checked `TabsInv` on two operations with a failure and two crashes before it was proved.

**Checked by TLC only.** The properties of `PeerLink`, whose operators fold over sets and
sequences, so that what they compute is an induction over data, which the prover cannot do;
`NothingSkipped` of `TerminalAuthority`, which needs an account of every output that is held,
in the chain or on a screen. `FilesKept` is false in general: two moves that meet
at one target lose a file (`files_met`), and the worlds of `files` keep that case out.
Liveness (`QueueSettles`, `PassedSettles`, `GitAnswered`, `RunsEnd`, `LinkRecovers`,
`QueueDrains`, `JobsEnd`, `AuthorityReturns`) is beyond the prover.

## 11 Disagreements found

Five runs show that the code does not do what a document or a comment says:

1. `input_written_once`: REL-BGSTAB-028 asks that an input sent again is written once.
   Input that arrives behind a replay fence is queued before the ledger is asked
   (`W` 3593) and flushed straight to the gateway; after a reconnect, whose
   subscription has a fence, a repeated input is written a second time.
2. `peer_accepted_order`: FR-MCP-018 AC-3 asks that messages run one at a time. The
   chain that does so belongs to the `Peer`, which an accepting server forgets with the
   connection (`forgetIfIdle`), so after a reconnect the next message runs beside the
   one before it.
3. `peer_forgotten_result`: FR-MCP-018 AC-7 says that a message is delivered when the result of
   the receiver is ok. The receiver keeps 64 results of a sender that may queue 256 messages
   (`peerLinkManager.ts` 653), those of runs that have not ended included. A resend whose result
   was evicted is answered `ok`, `duplicate` (641-645), and the sender reports `delivered` (624)
   for a message that still waits for its turn, or that failed.
4. `files_met`: the comment of `placeNew` says a file that appears after the check must
   not be replaced. `placeMove` looks and renames (`fileJobRunner.ts` 803, 837), and
   replaces it.
5. `screen_degrades`: REL-BGSTAB-004 asks that falling back drops no queued output in
   silence. When the headless terminal fails while the patch of a repair is under way,
   the output that waited for it is in the fallback snapshot only, and
   `refreshReplaySnapshots` skips the viewer in repair (`W` 6229).

Seen while modelling, and checked by no run:

- a refused write is remembered by the ledger before the gateway refuses it, so that the
  same input is answered `duplicate-operation` though it was never written (`W` 3682);
- the ledger sweeps an entry only when it is asked again, and `deleteSession` releases none
  (`SessionManager.ts` 3687, `W` 6546): what stays is memory;
- in the browser, an input that the socket refused waits in the outbox while
  `deliverSequencedInput` sends the next one at once (`TerminalContainer.tsx` 1150-1172),
  so what is sent need not keep the order of typing; `handleSessionReady` opens the view's
  queue before it flushes the outbox; and when a convergence ends or a hidden terminal is
  shown, nothing flushes the outbox, whose entries then wait for their time limit;
- a refresh whose snapshot is blank drops a fence that covers older output together with
  what it held, and tells only a browser that is in a recovery to reconnect (`W` 6262-6281),
  although the comment at 4506-4510 says that what is covered ends in a fresh snapshot or a
  reconnect (`Clears = {}` keeps blank screens out of the runs);
- two servers that link to each other refuse each other for ever (`peerLinkManager.ts` 461);
- the 65th epoch evicts the box inserted first, even one in use (663); a
  renamed sender (636) or a queue inherited by a new peer (236) is not recognised by
  the box either, so a resend runs again. `RunsInOrder` is checked while the links stay and
  there are fewer epochs than boxes;
- a tool that never returns stops the chain of its peer (651); fairness assumes it ends;
- without hard links a file that appears between the second look and the rename of a copy
  is replaced (`fileJobRunner.ts` 719), which its comment accepts; a source rewritten
  between its copy and its removal is lost (788). The worlds of `files` have neither;
- `deleteWorkspace` ends the sessions it listed before its write (`WorkspaceService.ts` 498):
  a tab added or restarted meanwhile keeps a shell that no tab shows;
- the recovery of `WorkspaceService` writes without preserving the backup (174), so what
  could not be read replaces the backup it was recovered from, which the option documented at
  `atomicStoreWrite.ts` 159-160 is there to prevent;
- the commit of a promotion that was overtaken installs, and then discards, the leases of the
  promotion that overtook it before it asks whether it is still the current one
  (`releasePromotedAuthority`, `TerminalAuthorityController.ts` 785-805): the later one, whose
  ids those are, is left in mode `server` with no leases, against "within one epoch barrier"
  of MIG-BGSTAB-002 AC-2 (`docs/spec/30.buildergate-stability.srs.md` 3770). TLC finds
  `OneAuthority` violated with `LateReceipts = TRUE`, no output, 2 troubles and epochs up to 2;
- `beginPromotion` does not test its mode again after it waited for the outputs before its
  boundary (1118-1142): a recovery that began meanwhile is overtaken by the promotion;
- a query whose effect is staged after the commit of a rollback is answered at the next
  promotion, if ever, which may be after the browser answered it (`SessionManager.ts`
  8812-8817, 8853-8863); one applied between the hand-over of the held queries and the return
  to legacy, or one of the server's time applied during the next promotion, is never answered;
- a rollback may stay unfinished: a view says once that it is drained, the server refuses that
  when a later output was applied (1710-1712), and nobody asks again; and nothing in the
  browser handles `promotion-aborted` and `view-stale`. The recovery's one retry counts
  attempts that a newer one superseded as failures;
- a second session in the folder of the first may join a `git status` that began before a
  change, and the summary is kept as if it were newer (`GitService.ts` 325);
- the loops that are due are taken before the save of their times (`LoopService.ts` 211): a
  loop turned off or deleted during the save runs all the same, and a save that fails loses
  the runs that were due; when the end of a run cannot be saved its tab is never counted
  among those that are kept; a loop deleted during its run may get its list of kept tabs back;
- a snapshot of a session that is saved after the session was deleted creates its file again,
  and its temporary name differs between processes but not between two saves of one
  (`SessionSnapshotService.ts` 437).

## 12 What is not modelled

- Data rather than control: terminal emulation, binary frames, search, themes,
  translations, Markdown, views of files. Their tests are the better tool.
- Requests that are answered in one step from one store (routes, presets, shortcuts).
- Calls of external programs and services: usage limits, archives, webhooks.
- Of the browser: its output (order of writes, the grace buffer, yielding), checkpoints and the
  input that waits for them (section 3), the mode of the outbox that only observes, and the
  schedule of reconnects.
- Of the authority: what section 6 lists.
- Of the router: the lease, checkpoints and channels of the binary transport, and admission
  under back-pressure.
- The parts in the plan below: they have control worth checking and are not done.

The notes of `components` in `PROJECT.json` give the reason for each part.

## 13 Plan

Done: the ledger, the path of an input from the keyboard to the PTY, output and screens,
the authority, peer links, file jobs, tabs and stores, the queue of Git and its summaries,
loops; proofs about the ledger, the path of an input from the browser on, screens, the
authority, file jobs, tabs, stores, Git and loops.

Next, in this order:

1. `SessionSnapshots`, the configuration and the order of the shutdown, over the operators
   of `StorePublish`.
2. `SubmitDelivery` and editor waits: text and Enter between other writers, a scan that ends
   after its editor was closed.
3. `TokenLife`: refreshing, revoking and cleaning up tokens; tokens used once.
4. The daemon tools: state file, lock, reused process ids.
5. Directories and merging in `FileJobs`; the mutation lease in `TerminalInput`.

Theorems to prove next: `NothingSkipped` of the authority. An abstract
specification of message delivery (queued, run at most once, final status) for `PeerLink` to
refine.
