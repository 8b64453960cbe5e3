# Helmryth: TLA+ models, checks and proofs

Helmryth is a local workbench for AI operators ("bots"): a Node server
(`server/`) runs provider CLIs as turns of operators, a React UI (`src/`) and an
Electron shell (`electron/`) show them, a companion (`companion/`) and Cloudflare
workers (`cloudflare/`) reach them from a phone. The server is where the hard
behaviour lives: one JS thread on which HTTP handlers, provider events, timers
and the continuations of awaits interleave, over state that must survive a crash.
This directory models that core, and the one place in the UI that is distributed: the
live stream and the optimistic edits. Paths below are relative to the repository.

## The system: parts, state, operations

| Part | State | Operations | What makes it correct |
|---|---|---|---|
| Steer queue, `server/steer-queue.ts` | `queues` (thread -> waiting sends), `drainingThreads`, `steer-queue.json` | queue, drain, cancel, discard, load | an accepted message lands once, in order, runs once, is never lost nor resurrected, and does not wait beside an idle operator |
| Send/cancel routes, `server/index.ts`, `server/send-idempotency.ts` | in-flight sends, receipts | send, steer, cancel, switch and delete run, delete operator | a retry gets the receipt of its first copy; what was read before `await steer()` is read again |
| Delegations, `server/delegations.ts` | `pendingDelegations`, `drainingThreads`, `queuedRedrains`, receipts (files) | queue, drain, acknowledge, discard, boot drain | a handoff runs after the turn that made it, once, or is reported; it is retried when its peer is free |
| Peer approvals, `server/peer-approval.ts` | `pendingComms`, the operator's activity | open, answer, time out, cancel | what an operator does after the last card is what it did before the first |
| Turn lifecycle, `server/index.ts`, `server/turn-watchdog.ts` | `busy`/`activity`, watchdog map, release timers | start, set up, dispatch, settle, stall, interrupt | one process per operator, none of them unwatched, none busy for ever |
| Provider fleet, `server/harness/{bus,registry}.ts` | instances, subscriptions | attach, publish, reload | a reload stops the turns of the old fleet |
| Checkpoints, `server/checkpoints.ts` | folder leases | claim, release, restore | Git rewrites a folder only while nobody works in it |
| Rooms, `server/index.ts`, `server/room-turn-timeout.ts` | `groupQueues`, `busyBotId`, `groupSpeakers`, the deadline, stall handlers | message, connector resume, member turn, mention, card, stall, deadline, Stop, delete | one member speaks at a time and does nothing else; a card holds the deadline; a member is given a message once; the room comes to rest |
| Cadences, `server/routines.ts`, `server/routine-requests.ts` | routines, runs, receipts (`routines.json`), cards (transcript) | tick, pass, start, settle, cancel, run now, edit, pause, delete, propose, confirm | an occurrence is run once or reported missed; an answered card tells the truth |
| Webhooks, `server/webhooks.ts` | triggers and delivery receipts (`webhooks.json`) | deliver, enable, disable, remove | a delivery with a receipt has its run, a duplicate makes no second |
| Crew imports, `server/crew-import-transactions.ts`, `server/import-undo-lease.ts` | journal, undo leases | prepare, create, archive, commit, roll back, undo, recover | all or nothing, in any crash; nothing is attached to an operator an undo deletes |
| Local VM, `server/local-vm-lease.ts`, `server/local-vm-idle.ts`, `server/index.ts` | lease records, threads with the desktop, lifecycle locks, idle timers | claim, touch, release, lifecycle requests, idle stop | one driver at a time; nobody takes a desktop away under its driver; an idle desktop is stopped |
| Erasure, `server/thread-erasure.ts`, `server/bot-workspace-erasure.ts`, `server/store.ts` | two journals of pending erasures, `bots.json` | prepare, commit, purge, erase, retry at boot | a crash leaves the owner or the plan; nothing that survives is erased; what was deleted is erased at last |
| The window, `src/lib/live-events.ts`, `src/state/bot-patch-queue.ts`, `src/state/store.tsx` | cursor, snapshot state, shown operators, patch lanes | connect, resume, replay, hydrate, edit, send, re-read | a window that has caught up shows what the server has; an edit that was not refused lands |
| Control hand-over, stores, adapters, Electron, companion, workers, iOS | | | not modelled, see `PROJECT.json` |

How they interact: a provider process emits runtime events; the bus delivers each
synchronously to its subscribers in registration order: watchdog (`index.ts:1142`),
the main fold (1572), the repeat detector, the delegation drain (2095), the steer
drain (2124). The fold sets an operator idle, so the drains that follow in the same
segment find it free; the delegation drain may take it before the steer drain looks.
Failed dispatches, stalls, reloads and peer cards settle an operator *without* that
event, and each must do by hand what the subscribers would have done. Most of
what these models found is in that difference. Delegations, card continuations,
cadences and rooms start turns through the same `startTurn` as the user, or, for rooms, a
copy of it. Deleting an operator or a run goes through the store, which journals the
erasure before it writes its own file. Every change of the store is broadcast as a numbered
frame that the windows fold.

Hard behaviours: interleavings at each `await` (steer, run, approval, setup, reload, undo),
order of subscribers, crashes between durable writes of several files, failing writes, retries of
requests and of handoffs, timers that race what they time, leases that outlive or
end before their user. `PROJECT.json` lists each hazard at its line.

## Modules

An action is one synchronous segment of the JS thread, unless a crash may separate its
durable writes: then it is one action per write, and nothing else runs between them; or, where only a crash could come between,
the crash that cuts it is an action of its own, which leaves what was written by then (`CutBefore`, `CutShort`, `CutReload` of `Delegations`).

- `SteerQueue` - the steer queue with the routes and turn lifecycle around it.
  A drain pass is split at every durable write (`DrainTake`, one `DrainAppend`
  per line, `DrainRun`, `DrainResume`), and at the await of `run()`, where turns may
  settle but no HTTP handler runs: `startTurn` resolves without I/O, so only
  microtasks pass. `queue` and `order` are the Map and its insertion order, `disk` the
  file, `held` the passes awaiting `run()`. A client's send is a constant; a retry
  is the same send again until its receipt arrived. `turn[b]` abstracts `busy`,
  naming what keeps the operator busy: a thread, or a card (`Gate`).
- `SteerQueueProofs` - the proofs about `SteerQueue`, with what Append, RemoveAt and prefixes do to a sequence's elements.
- `Delegations` - queue, drains, cards, receipts, watches. A drain waits for real
  only on a card; its other awaits are microtasks in which other drains may step and
  nothing else does (`Quiet`). The first item of a drain is processed in the call that
  started it (`start`). A failed turn's queue is dropped in one step while the process lives; `CutShort` is the crash after the emptied queue was saved
  and some of its receipts were written, and `lost` (history) has the handoffs whose receipts were not. `Reborn` is what every crash shares.
- `HandoffLifecycle` - the abstract specification: what `check_delegation` may
  report of a handoff over its life: new, queued, running, an outcome, where "dropped" may
  still be replaced if a card was open. `Delegations` is shown to implement it while the
  process lives, with `Status` as the refinement mapping.
- `Turns` - a 1:1 turn from `startTurn` to its end, the watchdog and its release
  timer, interrupts, the provider reload, and the project-folder lease against
  restores. Time is abstract: `Stall` is a silence and the sweep that finds it,
  `StopsFast` the comment's "settles within five seconds" (the timer takes six).
- `TurnsProofs`, `DelegationsProofs` - the proofs about `Turns` and `LocalVm`, and about `Delegations`, the refinement of `HandoffLifecycle` included.
  Each proof module states the facts on sequences that it needs.
- `LocalVm` - extends `Turns`: one desktop, its lease, the maps `localVmThreadTargets` and
  `localVmActiveThreads`, the lifecycle routes, the idle timer and a restart. Each action of
  `Turns` is conjoined with what its code does to the desktop: `Claim` and `Inspect` split the
  setup at its await, `Ends` releases the thread as the fold does, `Others` are the steps that
  leave the desktop alone, the watchdog's release among them. The clock is two bits: `record.old` says the lease's
  30 minutes passed without a touch (`count.long` counts when that is because a card is open for so long), `Silence`
  that the idle timer's did.
- `Rooms` - one room: its chain of operations (`op`, `queue`), the member turn under way (`inv`, at
  "next", "apps" or "await"), the claims of members by turns of the room and by turns of their own
  (`holder`, `owner`, `speaker`), watchdog, release timers and the absolute deadline with its cards.
  A turn remembers the operation it is of. Where the code lets something happen that its comments do not foresee, the step records it in
  `amiss` and the model ends there; the four cases are described below.
- `RoomsProofs` - the proofs about `Rooms`.
- `Routines` - one cadence, its confirmation cards, and one webhook of an operator, over three files.
  `mem` and `disk` are the routine manager and `routines.json`, `hook` and `hookdisk` the
  webhook manager and its file, `card` the transcript. `call` is the synchronous handler between two
  writes. A run is named by what asked for it (an occurrence, a person, a delivery). `turn` tells the turn that makes the operator busy (`of`) from the turns
  at work (`at`), for they come apart: `Release`, the timer of a stalled turn, and `ReloadProviders` make the operator idle under a turn that goes on, and what ends
  that turn (`TurnEnds`, `SetupFails`) makes the operator idle whoever's it is by then. `orphans` (history) has the runs that nothing is left to end.
- `RoutinesProofs` - the proofs about `Routines`.
- `CrewImport` - the journal of imports, the mutation artifact by artifact, its compensation, undo with
  guards and leases, and recovery before the server takes requests. `op` is the operation under way in the
  serialized transactions; other handlers run only at its real awaits, and attach cadences and
  crews (`deps`) to imported operators.
- `AtomicImport` - what the endpoints promise of an idempotency key: one crew at most, then retired.
  `CrewImport` implements it for every key across crashes.
- `CrewImportProofs` - the proofs about `CrewImport`, the refinement of `AtomicImport` included.
- `Erasure` - one operator and its runs (`mem` in the store, `file` in `bots.json`), the two journals
  in memory and on disk (`plan`, `desk`), the private data left (`left`, `folder`), the deletion under way
  (`at`, `batch`) and the erasure of each thread (`job`: the steps it has yet to try). A deletion
  runs to the first await of its erasures, which is in the decisions step, without anything between.
- `ErasureProofs` - the proofs about `Erasure`.
- `ClientView` - one window and one operator: the server's log of frames with its replay limit, the stream,
  the supervisor's cursor, the snapshot behind a refused resume and the frame held meanwhile, the lane of
  optimistic edits with its lost answers and re-reads, and the other re-read, `reconcileBot` after a branch switch that failed (`peek`), which asks neither the lane nor the store.
- `ClientViewProofs` - the proofs about `ClientView`.
- `MC*` - the instances TLC checks, with the `.cfg` files named after the runs.

An external program is modelled only by what the code relies on: a turn that was sent
ends in `turn.completed`, fails at dispatch, or falls silent; a container command works or fails; an
atomic write is whole, or fails.

Deviations to know of.
*SteerQueue*: an operator is idle, working or waiting; "dead" is
not distinguished from idle. `Settle` stands for every settling that drains,
`SettleUnheard` for the end of a turn whose run was deleted.
*Delegations*: bots are
not deleted; the last increment of `attempts`, which nothing reads, is left out; receipts
are not pruned (100 of them, 48 h in the code); a second card of an operator that waits
on the user is taken to come from a turn, as the code takes it.
*Turns*: operators that
share the model's folder are all of them; parallel cards of one turn are merged into
`parked`; a room's turn is not a turn of this module.
*LocalVm*: reloads and restores are off, operators are not deleted and the mode does not change; the per-operator
mode is the instance with one operator. On a reload `reloadProviders` releases only the first of a busy operator's
threads (`index.ts:4027-4030`), which is not modelled.
*Rooms*: one room; a member's work elsewhere is `SoloStart`; which members a text names is any choice.
*Routines*: one operator, one cadence that repeats, one webhook; "waiting" is merged into "running", "completed"
and "failed" into "ended"; a tick is synchronous (its awaits are microtasks); a tick whose save fails is an
unhandled rejection, so a failure followed by a crash. A reload is one step, and the user's own 1:1 turns are not in the module
(a busy operator is one of a cadence). Cards that create or edit a
cadence, archived operators, trimming of old runs (`MaxRuns` is below the limit), rate limits, filters, verification
and the rollback of a failed `commitMutation` (it changes nothing) are left out. "Run now" in the calendar
and on a card share a cause.
*CrewImport*: old operators are not edited meanwhile; a busy operator is a free choice of the guard; a queued run of an imported
cadence counts as a dependency; a corrupt journal, fingerprint conflicts and the mode that restores a snapshot are left out;
a first write that fails changes nothing and is left out; the chief-of-staff flag is folded into `hidden`.
*Erasure*: a crew is deleted by the same calls without a workspace; which attachments survivors share, the route's second try at the workspace
and unreadable journals are left out; a step of an erasure and the write after it do not fail both.
*ClientView*: the window's other collections, screen frames, heartbeats, backoff delays, local deletions, operators made or imported in this window (`botAdded`, `store.tsx:1887`, 1913) and disposing of a lane are
left out; the leaf of a branch that `reconcileBot` puts back is not a field of the model, and one such re-read is under way at a time.

## Runs

All runs pass. A property is checked in one run; each has a mutated form of a definition (beside it in its module) that
violates it.

| Run | Instance | Shows |
|---|---|---|
| `crash` | 1 operator, 2 runs, 3 sends, 1 crash, failing disk, 1 retake, cards | all safety properties of the queue |
| `two` | 2 operators, 1 run each, 3 sends, 1 crash, working disk, no cards, fair | an idle operator has nothing waiting; a queued message lands |
| `all` | 2 operators, 2 handoffs of one run, 3 attempts, cards, rooms, silent ends, reload, 1 crash, inside a discard, too | no loss but by that crash, at most one run per crash, implements `HandoffLifecycle` |
| `live` | same with cards, turns end with `turn.completed`, fair | retries happen, only what ran fails, every handoff ends |
| `calm` | 2 operators in one folder, 3 runs, 3 turns, stops and restores | one process per operator, which is busy; a restore is alone in the folder |
| `wedge` | 1 operator, 2 runs, 3 turns, silence, stops, 1 reload, fair | no operator is busy for ever, no folder claimed for ever |
| `import` | 2 keys, 1 old operator, plan bot, bot, group, routine, 2 imports, 2 crashes, 1 failing write, fair | all or nothing, no orphans, the server comes up, implements `AtomicImport` |
| `cadences` | 1 occurrence, 1 card (run now), 1 delivery, 2 runs, 1 crash, reload or stall, 1 failing write, fair | nothing runs twice, answers hold, cards are honest, running runs have their turns at work or are known orphans, receipts are final |
| `rooms` | 2 members, 1 message, 1 connector resume, 3 turns, 2 cards, fair | one speaker, a member speaks once to a message, cards hold the clock, the room rests |
| `client` | replay buffer of 1, 2 edits, 1 change, 1 lost stream or restart, 1 failing request, failed branch switches with their re-read | a window that caught up is current, edits land, a deleted operator stays gone but for that re-read |
| `desktop` | 2 operators, 3 threads, 2 turns, 2 requests, 1 failing command, 1 failing inspection, 1 lease that lapses under an open card, 1 restart, stops, fair | one driver, the desktop stays under it, a refusal names a turn, an idle desktop is stopped |
| `erasure` | 1 operator, 2 runs, 2 failures after the journals' first write, any number of crashes, fair | the owner or the plan, survivors keep their data, what was deleted is erased |

### Where the code and its comments disagree

Each of these was found by a run and is reproduced by a small change of a configuration, or by
checking the named property, which its module states, in it. They are not among the passing runs.

- *A run is deleted under its turn.* `RunningIsKept` in `SteerQueue_crash.cfg`: the route asks only for the active run and for cadences
  (`index.ts:6993`), so the run of a card continuation is deleted while it works
  (`docs/qa/02-workstreams-crews-runs-gates.md:198`: "direct API returns 409 “Stop it first”; no deletion").
- *An idle operator keeps its queue.* `PeerGates = TRUE` in `SteerQueue_two.cfg`: `IdleIsDrained` fails. The answer to a
  card (`peer-approval.ts:97`) frees an operator that only the card kept busy, and nobody drains.
- *A handoff runs before its delegator finished.* `FreshWaitsForSource` in `Delegations_live.cfg`: a drain takes what another turn
  queued (`delegations.ts:302` against 151-152).
- *A dropped handoff runs.* `DroppedNeverRuns` in `Delegations_live.cfg`: the answer to its card does not look
  (`delegations.ts:475` against `index.ts:2097-2099`).
- *A handoff is lost.* `NeverForgotten` without `\/ h \in lost` in `Delegations_all.cfg`: a turn fails, `discardDelegations` saves the emptied queue (`delegations.ts:364-365`)
  and the process dies before the receipts (366-375): the handoff waits nowhere, never ran, and `check_delegation` knows nothing of it, although the comment says
  "telling the user they were dropped" (359-360). A crash before that save (`CutBefore`) does the opposite: the failed turn's handoffs run at the next start, against
  `index.ts:2097-2099`.
- *A handoff is not retried.* `Rooms = TRUE` in `Delegations_live.cfg`: `RequeuedIsRetried` fails. A room turn settles on
  a thread `botByThread` does not know (`index.ts:2105`), although `delegations.ts:40-42` says "any of the target's turns". With cards and a chain of delegations
  (`PeersDoNotAsk` of `DelegationsProofs` is false: a target delegates, too) it fails as well: the answer to the target's own card idles it, and drains nothing of those who wait for it.
- *A stale release timer hands out a working operator.* `OneProcess` in `Turns_wedge.cfg`: the timer of
  a stalled turn (`index.ts:1043`) fires in another turn of the operator (comment 1040-1042). A reload that follows kills that turn, takes its
  operator for idle and leaves its claim on the folder: `WedgedIsFreed` without `\/ current > 0`.
- *A turn is sent to a disposed fleet.* `OldFleetIsStopped` in `Turns_wedge.cfg`: the instance is read before the awaits of
  the setup (`index.ts:2680`) and used after a reload "kills any in-flight turns" (4015). And with `MaxReloads = 1` in `Turns_calm.cfg`,
  `LiveIsBusy` fails: a turn dispatched on the new fleet while the reload is under way is settled with the killed ones (4026).
- *A cadence's run outlives its turn.* `RunsEnd` in `Routines_cadences.cfg`: a reload settles the operator and not the run
  (`index.ts:4026`, comment 4023-4025 "stranding the bot busy"), and so does the release timer of a stalled turn (1043-1063, comment 1056-1058 "Release every kind of work"):
  when the stopped process goes without `turn.completed`, nothing calls the run over. It stays running until the next start; the next Stop of its operator cancels that run, or answers
  409, instead of stopping the turn at work (6897-6905), and it counts against a webhook's `MAX_PENDING_RUNS`. When the process does complete after all, the fold idles the operator
  under the turn it has by then (1927). `RunningHasTurn` without `turn.orphans` fails on either, with no write failed.
- *An accepted delivery is forgotten.* `AcceptedIsKept` without `limits.fail = 0`: a write that failed is swallowed and the receipt committed
  (`index.ts:3091-3093`).
- *An operator is deaf.* A failed save of the run in `turn.completed` throws in the fold and the bus drops it: the operator stays busy (`TurnEnds`, with `EndUnsaved`).
- *A desktop runs for ever.* `Reclaimed` without `\/ count.blind > 0` in `LocalVm_desktop.cfg`: an inspection that fails is taken for a missing container
  (`container-computer.ts:605`), so the suspend returns normally and the timer stays off (`local-vm-idle.ts:40-41`: "A transient runtime failure must not
  disable the cost/resource backstop forever"). And with `VmFairSpec`, `Wedges = TRUE`, `StopsFast = FALSE`: the watchdog frees the operator
  and the folder of a turn that never completes, but not its desktop (`index.ts:1044-1067`, though 1056-1058 say "Release every kind of work that may have
  queued behind this bot" and `local-vm-lease.ts:8-9` "a dead provider cannot pin the VM forever"). The lease it leaves also refuses the operator's
  other run for up to 30 minutes (`LeaseHasUser`).
- *Two drivers on one desktop.* `OneDriver` without `count.long = 0`: the lease lapses under a card that is open for 30 minutes, which the watchdog does not
  count as a stall (`turn-watchdog.ts:68`); another operator claims the desktop and after the answer both drive it (`local-vm-lease.ts:52-53` "a strict singleton"). And with `Wedges = TRUE` and three turns, under no card: a stale release timer idles the operator of a
  working turn, whose lease is then no longer current, and the next turn claims the desktop beside it.
- *A room's resume overtakes.* `amiss` "overtaken": a connector's resume (`index.ts:3683-3700`) does not ask for `busyBotId`, against comment 3404-3406.
  "late": the deadline fires while the snapshot or `sendTurn` is pending; the setup is dispatched anyway, and a rejection that comes
  later finds nobody waiting, so member and room stay busy. "grace": a release timer frees a member that has begun something else. "stale": a late
  answer to an earlier turn's card resumes the clock under an open one. Also, Stop is looked for once more after a room turn's apps were awaited (`index.ts:3258`) and not after its checkpoint: a Stop, or the room's deletion,
  in that await is ignored and the process is started (`Dispatch` does not ask), as is a Stop during the setup of a 1:1 turn, of cadences too.
- *A start that never comes up.* `BootEnds` without its exception: an undo that a crash interrupted, and whose operators came into use, fails at each start
  (`crew-import-transactions.ts:408-415`). Cards and DM channels bypass the leases (`routine-requests.ts:862`, `comms-visibility.ts:31`).
- *A deleted operator returns.* With `MaxFails = 2` in `CrewImport_import.cfg`: `AllOrNothing` fails. A write of an import fails, and so does, in its
  clean-up, the write after an operator was removed: `deleteBot` has taken it out of memory before it writes (`store.ts:1362-1380`, as `deleteGroup` has at
  1044-1052), the next try to clean up finds nothing to remove (`index.ts:1330-1350`), the journal says "rolled_back", and a restart reads the
  operator from `bots.json` (comments at `index.ts:5442` and 5571; `docs/qa/07-backend-http-sse-webhook-api.md:47`: "rolls back created groups, routines, and bots on failure").
  `AllOrNothingUnlessLost` says that it takes exactly this. With two keys, a restart's recovery of one import gives back operators that
  a later import hid, which is why `RosterIsBack` states an inclusion; and an undo restores a chief of staff beside another one (`store.ts:738-760`, 1407).
- *An obligation is lost.* `MayFail = {"journal"}` in `Erasure_erasure.cfg`: `OwnerOrPlan` fails. `prepareMany` enters the threads in memory before the write that
  fails; the retried deletion finds them, writes nothing and commits, and a crash then leaves transcripts without owner or plan (`thread-erasure.ts:116-117` "once it
  returns, a crash cannot lose the obligation"). With "desks" the same befalls the workspace, by design (`bot-workspace-erasure.ts:199-202`).
- *A deleted run writes on.* `LateTurns = TRUE`: `DeletedIsErased` fails. Deleting an operator interrupts one thread and waits for no process
  (`index.ts:6376`, "a running turn dies with its bot"), and a later event makes a new log (`bus.ts:54`), a failing setup a new transcript, which nothing removes.
- *An old answer is shown.* In `ClientView`, the answer to an edit or a re-read that is older than a folded frame is taken as authoritative until the next
  frame (`ghost.behind`). A deletion learnt only from a snapshot does not cancel the lane: a late answer adds the
  operator again for good (`store.tsx:783-797`, 958-968; `bot-patch-queue.ts:112-131`), so `DeletedStaysGone` asks for a deletion that was folded.
- *A deleted operator is shown again.* `DeletedStaysGone` without `\/ ghost.revived` in `ClientView_client.cfg`: `reconcileBot` (`store.tsx:1633-1637`, called at 1780) reads the
  operator, the frame of its deletion is folded, and the answer is folded by `botPatched`, which adds an operator it does not know (958-968). The lane's own re-read looks first, for
  folding it "would resurrect the deleted bot" (`bot-patch-queue.ts:129`).

Seen in the code and not stated by a property: the comment at `steer-queue.ts:152` says
that entries leave the map before they run, and they leave it after; a settling source turn
spends busy retries of handoffs that wait (`index.ts:2101`), which `delegations.ts:337` counts
per settled target; two cards of one operator on two threads may resume "working" without a
turn (`peer-approval.ts:160`); the queue of cadence runs is visited newest first. `RestoreAlone` excepts turns the user stopped: Stop releases
the folder before the process is gone (`index.ts:6923`), and also that of a turn still being set
up, which Stop does not end.

### Bounds

*SteerQueue.* `MaxCrashes` = 1: recovery has no state that a second crash could see and a first
could not make; a crash may hit any step, those of the recovering drain included with
the other bounds. `MaxRetakes` = 1: one event in which an earlier subscriber takes
the freed operator; a second adds only another settle. Two runs of an operator are needed for a
queue to wait on a run that is not the active one, two queued sends for order and for
partly drained entries. *Delegations.* `MaxQueued` is 2 (4 in the code) and `MaxBusy` 3 as in the
code (2 in `live`). *Turns.* Three turns are what a stale release timer needs: the stalled one, the one it
interrupts, the one that starts beside it. *LocalVm.* Two turns, one per side of every race; two requests, so that one may
undo what the other did while a turn looks; with three turns the properties hold as well, unless processes wedge (above); the proofs have no bound.
*Rooms.* Three turns: a speaker, the teammate it summons, and one more message's or resume's; two cards,
for parallel ones; two messages and a resume pass too. *Routines.* One of each: an
occurrence, a card and a delivery already meet in one operator, one queue and two files, and each may be repeated; two runs so that one waits for
the other; `MaxFaults` counts crashes, reloads and stalls together; one change of the cadence beside its occurrence (`MaxRevs`; TLC checked two as well); on the card "run now" only (pausing, resuming and deleting come through the calendar, with the same `Applied`; with a card that pauses the properties hold as well). The proofs have no bound. *CrewImport.* Two crashes, since recovery itself may die; two keys, since a
second import may hide what the first made; one failing write. *Erasure.* Two runs, since one erasure runs while another waits,
and two failures, since one may hit the retry of the other; crashes are not bounded. *ClientView.* A replay buffer of one frame, so that a resume is
granted, refused and partly covered; two edits, so that one is coalesced and one in flight; two lost streams pass too, and two failing requests.

`CHECK_DEADLOCK FALSE` is given where requests, turns, edits and imports are finite sets and the system may simply have nothing left
to do: all but `crash`, `two` and `erasure`.

### Fairness

`SteerQueue`: the drain's own steps are weakly fair (microtasks run);
settling and answering a card are strongly fair, because every turn ends, by its provider or by
the watchdog, every card by a human or its 15-minute timer, and the event loop serves
them in order, though other segments keep disabling them for a moment. The user is never
assumed to do anything. `Delegations`: the same. `Turns`: setups end, sweeps and timers
run, a reload ends; a provider is *not* assumed to complete a turn, that is what the watchdog is for.
`LocalVm`: the same, container commands end, and, for `Reclaimed`, every process ends its turn sooner or later (`VmEndingSpec`), since nothing
else gives a desktop back. `Rooms`: promises continue, setups end, a stopped process ends, timers and sweeps run, people answer cards; a
provider need not complete. `Routines`: handlers run to their end, a stopped server is started; ticks, setups, release timers and turn ends are
strongly fair. That every turn comes to an end, heard or not, is assumed there: nothing in the code makes a stopped process complete. `CrewImport`: the system's own steps, its restart included. `Erasure`: the server is stopped now and then and started again
(a deletion whose erasure failed is retried by nothing else), and some of its lives are long enough for a step of an erasure and for the start to end.

## What is proved

The theorems are about the specifications TLC checks, for every value of the constants, with the named assumptions of the
modules and no others, unless a theorem says so.

`SteerQueueProofs`, for every set of operators, runs and sends, any number of crashes,
failed writes and retaken settles: `TypeCorrect` (`Spec => []TypeOK`), `Inductive` (`Spec => []IInv`), and from it `NeverLost` (`NothingLost`),
`LandsOnce` (`OnceInTranscript`), `FiresOnce` (`FiredOnce`), `StaysCancelled` (`CancelledStaysGone`), `LandInOrder` (`LandsInOrder`); and `IdleDrained`
(`IdleIsDrained`), which assumes that no card keeps an operator busy and that no write fails: each refutes it, the first above, the second because a drain whose
write fails ends there and nothing asks again.
Assumed is `SteerAssumption` only: every run has an owner, every send a run, every operator a
run, and `None` and `Gate` are no runs.

The argument. None of the four is inductive. That a message is not doubled by a
drain needs that the pass skips what has landed and that an entry has no send twice
(`MemoryOnDisk`). That nothing is lost when the entry is removed after `run()` needs that the
entry is still the one that was taken and has landed whole (`HeldLanded`), and that in turn that
the pass ran past landed lines only (`ScanLanded`) and that no handler touches the entry
while `run()` is awaited, which is what `HttpMayRun` says and what the mutant of
`NothingLost` takes away. A message fires once because one that ran has landed and waits only while its
pass holds the thread (`RanLanded`). A late steer answer cannot double a message because a send in
`steer()` has neither line, place nor receipt (`SteeringFresh`). A crash is safe because memory never
holds what the disk does not (`MemoryOnDisk`): a failed write leaves the disk ahead, and the
transcript catches what is drained again. Every step preserves each part (one lemma per part,
one step per action); the theorems end in temporal steps over those lemmas. Order: an entry in memory is the file's, or was dropped in a write that failed (`Mirrored`); what has landed of the
file's entry landed in its order (`FileLands`); and what only the file has, has landed or lost its run (`Accounted`), so a crash brings back nothing that would overtake. An
idle operator has nothing waiting (`NoneWaits`): where every write succeeds the file is what memory is (`Filed`) and the Map has each thread that waits once (`Listed`), so each entry of an
idle operator is being run, or a pass that is on, or will go on, has not passed it (`Attended`). That a pass skips nothing it has yet to come to is shown at the
least position that is left, which needs a recursive function (`Among`) where a fold would do for TLC.

`RoutinesProofs`, for any cards, deliveries and bounds: `BooksAgree` (`Spec => []IInv`), `TypeCorrect`, and from them `OnlyOnce` (`RunsOnce`),
`CardsTellTheTruth` (`CardsAreHonest`), `AnswersAreKept` (`AnswersHold`), `RunsHaveTurns` (`RunningHasTurn`) and the action property `SettledStays` (`ReceiptsAreFinal`).
The argument: memory runs ahead of the file and never contradicts what the file has settled (`FilesAgree`), so a crash loses only what was not
given to the operator. A run that was begun is taken in the file too (`BegunIsTaken`), and one that is about to start is fresh
(`StartIsFresh`): hence once. An occurrence that has a run is passed in memory, or the file has neither (`Occurrences`), so a restart that
comes to it again does not double it. A receipt in the file stands exactly as long as a card needs it (`CardsAgree`), so a second click finds the
first. A delivery with a committed receipt has its run unless a write failed (`ReceiptsHold`). That a running run has its turn, whoever the operator is busy with, is an invariant of its own
(`TurnsAgree`: it is being started by the handler that has written "running", or its turn is being set up or at work, or it is an orphan). A turn leaves the stages
of work in three ways only: its end is written, and the run no longer counts as running; the end could not be written, and it does not in memory; or nobody hears it, and it is named an orphan. Which
turn keeps the operator busy plays no part (`HasTurn`), so neither the release timer nor a reload can break it. Lemmas about books of runs (what a pass,
a settling, a removal do to them) carry the steps; there is one lemma per action.

`ErasureProofs`, for any runs, any failures and any number of crashes: `TypeCorrect`, `OwnersKeep` (`OwnersKeepTheirs`), and `DeletedIsPlanned`
(`OwnerOrPlan`), which assumes that entries can be written to the journal (`"journal" \notin MayFail`; without it the property is refuted, above). The argument: memory
never names a run the file does not, what a deletion in progress is about to erase is unnamed in the file from its commit on, and an
erasure under way is of an unnamed run (`Owned`); what memory no longer names, or is about to drop, has an entry in the journal's file, which has the entries
memory has (`Planned`).

`TurnsProofs`, for any operators, threads and turns: `TypeCorrect`, and, where no provider falls silent and none is reloaded (`~Wedges`, `MaxReloads = 0`),
`OneProcessEach` (`OneProcess`), `HeardIsBusy` (`LiveIsBusy`) and `GitWorksAlone` (`RestoreAlone`); users stop turns and restore checkpoints at any time,
setups fail, and `StopsFast` is not needed. Without the two assumptions the properties are refuted, above. The argument (`Together`): a turn that has
begun and is not over keeps its operator busy, also while it is only being set up or already told to stop, so the guard of `startTurn` keeps a second one away
(`WorkIsBusy`, `OneAtWork`); its claim stands until it is over or the user stops it (`WorkIsClaimed`), so a restore that finds the folder unclaimed
meets only turns the user has stopped (`Alone`); the watchdog watches live processes only (`WatchIsLive`), so without silence it stops nothing and no release
timer is armed that could free an operator under its next turn (`Calm`).

The same module proves the desktop of `LocalVm`, whose steps are steps of `Turns` but for the restart (`StepsOfTurns`): `VmTypeCorrect` (`VmSpec => []VmTypeOK`), and with the same two
assumptions `OneDriverEach` (`OneDriver`), `DesktopStaysUp` (`DesktopStays`) and `LeaseIsUsed` (`LeaseHasUser`), for any number of turns, requests, failures, lapses and restarts. The
argument (`Desk`): the lease in memory is that of a turn at work, whose thread the map has (`RecordIsUsed`), whose operator is therefore busy, so that the lease is current and
refuses any other claim; as long as none has lapsed under a card, who has claimed the desktop holds the lease and is the active thread, and no request or idle stop holds the desktop
(`Driven`): a claim waits for those, a request asks the lease and the idle stop the active thread, each before it takes the flag. A lease of a live turn lapses under a card
only, for the watchdog has every live turn (`LiveIsWatched`).

`DelegationsProofs`, for any operators, threads and handoffs, any limits and number of crashes, with and without cards and rooms:
`QueuesAgree` (`Spec => []IInv`) and from it `TypeCorrect`, `NoneIsForgotten` (`NeverForgotten`), `OncePerLife` (`RunsOnce`); `FailedHasRun`
(`OnlyRunsFail`), which assumes that no turn ends in silence (`~SilentEnds`: a `startTurn` that rejects for another reason than a busy peer also calls a
handoff failed); `BusyIsRetried` (`RequeuedIsRetried`), which assumes `~Rooms`, `~SilentEnds` and `PeersDoNotAsk` (there are no cards, or the targets of handoffs delegate nothing
themselves): without any one of the three the property is refuted; and `FollowsLifecycle` (`ImplementsLifecycle`), which assumes that every operator has one run (`OneRunEach`). The argument: a queue and what its
drain has yet to do hold handoffs of their own thread, each once (`Queues`), so taking the head by its id takes nothing else; a handoff that
waits, or is in a drain's snapshot, and is not being acknowledged, has not run in this life (`Counts`), so the crash that brings it back to a drain is the only way to a second
run; and what is being acknowledged ran or has its receipt (`Settles`), so nothing leaves the file unaccounted but what a crash cuts out of a discard: of every crash is known that it empties at most that one queue, whose
handoffs then have receipts or are in `lost` (`CrashFacts`, `Told`). A handoff that was requeued waits while its
target is busy, or a drain of its source has yet to come to it or was asked again (`Retried`, `Remembered`); who is busy works on a thread, whose end is heard (`Heard`). For the lifecycle: a
watched peer's turn is on its home thread, and a card's answer idles no operator whose turn still runs (`Hosts`) - that is where one run for each operator is needed,
for two open cards of one operator may each remember what to resume (`peer-approval.ts:160`); what a drain has yet to run is unwatched, and has no receipt unless a
failed turn dropped it under its card (`Place`); every step then moves each handoff along one edge of `HandoffLifecycle` or leaves it (`Edge`).

`CrewImportProofs`, for any plan, keys, old operators, limits and number of crashes: `ShapeInvariant` (`Spec => []Shape`), `TypeCorrect`, `ImportRefinement`
(`ImplementsAtomicImport`) and `NoOrphansTheorem` (`NoOrphans`), all three with any number of failing writes; `AllOrNothingTheorem` (`AllOrNothing`), which assumes that
at most one write fails (`MaxFails <= 1`; with two it is refuted, above); and `AllOrNothingUnlessLost`, which has any number of failures and assumes instead that the one
step of that refutation is not taken: `Lost`, a removal that memory keeps and the file does not while a failed import unwinds. The argument: the phase of the operation under
way fixes what its journal record says (`Shape`), so each step of the journal is an atomic import, a retirement or a stutter. No orphans (`Doors`): what a compensation may
remove is leased from the guards on, or from the failure on (`LeasedFirst`, `DoomedIsLeased`), and only what it may remove is in memory without being in the files
(`AheadIsDoomed`), so what a route names is in the files, too, where a crash does not take it. The crew is whole (`Whole`): what is in a workspace was recorded by an import
that stands or may still be taken back (`Traced`), a committed one has all of it (`Complete`), one that is being made has what it says it made, in memory and in the files (`Made`), and what a compensation does
not see in memory is not in the files (`Ahead`), which is what `Lost` breaks. The roster is back (`Roster`): who is hidden was replaced by an import that stands or goes
away itself (`Reasons`), and what a compensation gave back stays hidden only for another import (`GivenBack`). With one failure, the failure that begins an unwinding is
the one that could have lost a removal (`FailedFirst`).

`RoomsProofs`, for any members, messages, resumes, turns and cards: `TypeCorrect`, `OneSpeakerTheorem` (`OneSpeaker`), `CardsTheorem` (`CardsHoldTheClock`) and
`SpeaksOnceTheorem` (`SpeaksOnce`). `OneSpeaker` and `CardsHoldTheClock`, as the properties say, hold until one of the four cases of `amiss` happens. The argument
(`Inv`): an invocation that is awaited names a dispatched turn of its member, and there is one only while the chain has an operation (`Chained`, `Invoked`); watchdog and release timers know
turns that were dispatched (`Timed`); a turn in its setup, at work or told to stop has its member, the room's name for it and the speaker's place at once
(`Held`), so there is one; and the deadline counts as many cards as are open, for a turn that has a process (`Carded`). Only where nothing is amiss are the last two inductive.
That a member speaks once to a message holds throughout (`Heard`): turns are of the operation at the head of the chain or of one that is over for good, messages are not sent twice and a resume that is put back had no turn
(`Lined`), a turn's member is in its operation's `spoken` (`Remembered`), and who is being set up has no turn in it yet (`Unheard`).

`ClientViewProofs`, for any length of the replay and any number of edits, changes, lost streams, restarts and failed requests: `Inductive` (`Spec => []IInv`), `TypeCorrect`,
`CaughtUpCurrent` (`CaughtUpIsCurrent`), `EditsLand` (`EditLands`) and `DeletedStays` (`DeletedStaysGone`). The argument: a version has one content, so whatever the window holds (its view, the lane's fallback,
an answer, a snapshot, a held frame) is older than the server's operator or is that operator (`Versioned`), and the log of this life of the server ends with what the server has (`Numbered`). Where the
stream is the cursor is, or it will be when the snapshot has landed (`Tracked`); while a snapshot is loaded no cursor can be resumed, and a snapshot read after the last frame is what the server has (`Loading`): so a
cursor at the log's end means that the window folded all there is, and its view is the server's operator unless an older answer was folded after it (`Current`). That a snapshot or a replay cannot
skip a frame rests on both, and neither is inductive alone. An edit lands because the lane sends one request at a time, always for its newest edit, and the newest is pending, on its way,
applied or lost (`LaneOK`, `EditsInOrder`). A deletion that was folded, or is held until the snapshot has landed, stays: after the frames the stream delivered and after a cursor that can be resumed there are only
deletions, the lane is cancelled, and no snapshot that shows the operator is under way (`Gone`); the re-read after a failed branch switch is outside that, and named by `ghost.revived`. `Bounded`, that no version exceeds the changes made and the edits the server can have applied, serves the types.

The assumptions those modules name are about constants only: the ids an import mints differ from those of old operators (`ImportAssumption`), `None` is neither a member
nor a number (`RoomsAssumption`) nor a cause (`RoutinesAssumption`), nor a lease or a request (`LocalVmAssumption`), nor an operator as the window
has it or a cursor (`ClientAssumption`).

So every invariant and every action property a run checks is stated by a theorem, and both refinements are proved. Only model-checked: liveness (`QueuedLands`, `HandoffEnds`,
`WedgedIsFreed`, `BootEnds`, `RoomRests`, `Reclaimed`, `DeletedIsErased`), which is out of the proof system's reach.

## Not modelled, and the plan

In order:

1. Deletion of operators and runs, failing files and receipts' bounds in `Delegations`; reloads, deletion and the change of mode in `LocalVm`.
2. `Sends`: `SendSequencer` with room and 1:1 sends, composed with `SteerQueue`.
3. `ComputerControl`: help requests whose id two proxies may share (`computer-control.ts:168-169`).
4. The updater coordinator and companion guardian of the shell, the reach lease of the control plane.

Left out for good: adapters' protocols, Git, Docker, SQLite and file systems (used by what they
promise), prompts, formatting, HTTP parsing, the UI's rendering, iOS, scripts, assets.
`PROJECT.json` names every component with its status and reason.
