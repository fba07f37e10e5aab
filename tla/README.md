# A verification of codex-cli-delegate

TLA+ models of the program, TLC runs that check them on small instances, and
TLAPS proofs for every value of the constants. Everything is translated from
the source (`src/skill/scripts`, below only by file name); the documents are
used for the questions, never for the definitions.

## 1. The system

A Codex task (the *owner*) hands work to another coding agent (the *provider*:
Claude, Codex, Kimi, OpenCode or Pi) and reviews what comes back.

| Component | Code | State | Operations | Module |
| --- | --- | --- | --- | --- |
| Job lifecycle | `claude_task.py`, `delegate_completion.py`, `delegate_recovery.py` | `job.json` of each job: phase, rounds, recorded process identities, `stop_requested` | start, revise, status/wait/list, stop, accept, revalidate; one detached worker per round | `JobRecord`, `DelegateJob` |
| Processes | `delegate_process.py` | pids and tokens recorded in a round | capture, liveness, wait with timeout, verified termination | in `DelegateJob` |
| Reservation | `delegate_ownership.py` | none of its own: `phase in RESERVING_PHASES` and `reservation_key` | `find_conflict` | `CheckoutReservation`, `DelegateJob` |
| Request replay | `delegate_ownership.py`, `delegate_service.py` | `requests/<key>.json`, the `request` of a round | `dispatch_request` around start and revise | `RequestReplay` |
| Notifications | `delegate_notify.py` | `notification.json` of a round | arm, disable, the watcher's ticks, desktop and queue deliveries | `NotifyWatcher` |
| Remote runner | `remote_codex_runner.cjs` | job directories, receipts, directory locks on Windows | dispatch, heartbeat, finish, receipt, reclaim | `RemoteRunner` |
| Remote task | `remote_codex_task.py`, `remote_kimi.py` | `state.json` of a remote job, `worker.lock` | dispatch, carrier worker, receipt, reclaim, accept, revise | `RemoteTask` |
| SDK session | `claude_sdk_backend.py`, the SDK branches of `claude_task.py` and `delegate_recovery.py` | `sdk_worker`, `sdk_claude`, `sdk_closing` of a job; a worker that keeps one CLI over many rounds | claim, launch, register, finalize, idle output, close; start, revise with reuse or refresh, accept, stop | `SdkSession` |
| Events, verdict | `claude_events.py`, `parse_stream`, `verify_transcript`, `verify_round` | `stdout.ndjson`, `hooks.ndjson`, `monitor.json` of a round | record_hook, drain, tick, verify | `RoundEvidence` |
| Quota cache | `claude_quota.py`, `quota_gate` | one cache file per state root | store, import from old streams, hold | `QuotaCache` |
| Other providers' rounds | `codex_backend.py`, `kimi_backend.py`, `opencode_backend.py`, `pi_backend.py` | none: launch lines and verdicts | launch, verify | not modelled |
| Evidence manifests | `review_evidence.py` | none | export, verify | not modelled |
| Job store | `delegate_job_store.py` | schema version of `job.json` | migrate, validate, atomic save | not modelled |
| Remote observer | `remote_codex.py`, `remote_codex_agent.cjs` | an offset into another program's log | observe | not modelled |
| Front ends, adapters | `delegate.py`, `delegate_mcp.py`, `delegate_service.py`, `delegate_transport.py`, `tool_catalog.py` | none | argument checks, command lines | not modelled |

**How they interact.** Every local section that reads and writes `job.json`
runs under one `flock` (`StateLock`), so it is one action of a model, and a
process that dies inside it is an outcome of that action. Between sections
anything may happen: commands, workers, watchers, signals, exits, pid reuse.
A front end calls `dispatch_request`, which calls start or revise, which spawns
a worker, which spawns the provider; watchers only read the job. An SDK worker
outlives its round and takes the next one from the same record. While a round
runs, its hooks and its monitor write beside the provider, and at its end the
verdict reads what they all left; every round feeds the quota cache, and every
start and revise asks it. The remote
task is a separate capability with its own state: `remote_codex_task.py` on the
Mac and `remote_codex_runner.cjs` on Windows exchange a packet and frames over
SSH, and the order in which the receipt may change (`RemoteReceipt`) is what
the two models agree on. Its sections are not all under a lock: only the worker
and accept hold `worker.lock`, and the other commands save what they read
before a round trip to Windows.

**What is hard.** Crashes between a spawn and the save that records it; pids
that change hands; a stop that signals outside the lock; workers of superseded
rounds that report late; private worker commands run twice; lost replies and
retries; messages that must not be sent twice although their sender may die
half way; an SSH carrier whose loss kills the remote runner between any two of
its writes; a session that is reused by one command while another closes it;
stream files that are read while they are written; observations that are dated
before they are stored. `PROJECT.json` lists each hazard at its line.

**What makes each part correct.** Lifecycle: one provider per checkout, one
launch per round, no release under a live provider, no acceptance of unsettled
evidence, accepted is durable, a busy job settles. Request replay: one run per
id and an answer about that run. Notifications: at most one delivery per event
of a round, none about rounds that should be quiet, receipts that tell the
truth, the end of a round announced. Remote runner: one agent per directory and
per request id, outcomes that are true, receipts that move in order. Remote
task: the local status never says more than the receipt, a loss is called only
when nobody supervises the task, what the owner sees stops being busy. SDK
session: one worker past its claim, at work on the current undecided round, a
close fence that ends it, an acceptance that covers all that was done. Events
and verdict: every row monitored once, an event for every incident and only of
this round, a round that passes exactly when all signals agree. Quota: a known
high usage pauses until its reset, and nothing else does.

## 2. Modules

### JobPhases, JobRecord, DelegateJob: the job lifecycle

`JobPhases` is the sets of phases, shared with `SdkSession`. `JobRecord` is `job.json` as values and the pure functions that rewrite it
(`complete_round`, `stop_transition`, `reconcile`, ...). `DelegateJob` is the
processes around it:

- `job[j]` is the record; `worker[j][i][s]` and `provider[j][i][s]` are the
  processes of round `i`. Slot `"launched"` is the worker that start or revise
  spawned, `"replayed"` a second run of its private command, which carries the
  same round, run token and launch claim; `stopping[c]` is a process between
  the two lock holds of `cmd_stop`.
- `launch_transaction` and `SpawnProvider` have one outcome per place where the
  code may fail or die: before the Popen, at it, after it, with the identity
  verified or not.
- an identity is the slot of the process it names and `identity_verified`.
  `identity_state` is in `STATE_GONE` exactly when nothing was recorded or the
  pid is free, so a pid held by another process (`"reused"`) is never gone.
- a job has a timeout or none (`Timeout`; the code's default is none): only the
  worker of a job with a timeout may cut its provider (`TimeOut`).
- verification is an input (`Verdict`): `ok`, `soft`, `placeholder` (the only
  failure `revalidate` may repair), `failed`, `timeout`.

Left out: the owner check (every caller is the owner), argument checks, the
quota and input gates (their refusal is the outcome `refused`), the SDK branches.

### CheckoutReservation: what the lifecycle promises

A job acquires a key that conflicts with no held one, writes with one process
at a time, and releases when none runs. `DelegateJob!ReservationRefined` maps
`held` to the reservation key in the reserving phases and `writing` to the live
providers.

### RequestReplay

One action per section of `dispatch_request`: the request lock, the receipt
check, the scan of all rounds, the receipt write, the callback, the reply. A
caller may be lost at any of them. The lifecycle below the callback is the set
of runs that were started.

### NotifyWatcher

`receipt[r]` is the notification.json of round `r`, `watcher[g]` the watcher
launched with generation `g`. Sections under the lock are actions; between a
claim (`Tick`, `ClaimWake`) and its acknowledgement the message goes out with
no lock. The job is seen as a watcher sees it: busy, settled or decided. Left out:
the desktop hint that follows a wake whose queueing failed or is uncertain; it is
about no event, nothing records it, and whoever sends it holds the claim.

### RemoteRunner

The Windows side of a remote task, write by write: job directory, receipt, lock
directory, `owner.json`, spawn, starting, heartbeats, outcome, release. A
carrier loss kills the runner between any two. Receipt and reclaim are
processes that read, probe, and then write; any number of them may overlap.
`silent` says that the keepalive window has passed; a live runner beats far
inside it, so the window passes only after the runner is gone.

Two things the directory lock does not protect are states of the model, and the
two lock properties except exactly them (`Working`). An agent that
`processIdentity` cannot describe is killed by a `taskkill` whose result is not
looked at, and the lock is released whatever came of it: an agent that survives is
`astray`. And a reclaim unlinks an `owner.json` that it validated before a slow
probe: when it is another request's by then, the directory is added to the
history variable `snatched`, and from there on nothing is promised of it.

Locks that nothing but a human can free are reachable and intended
(`remote-codex.md` says so): a runner killed before `starting` or after its
outcome but before `releaseLock` leaves a lock that reclaim refuses.

### RemoteReceipt, RemoteTask

`RemoteReceipt` is the order in which the status in `receipt.json` may change.
`RemoteRunner` and the Windows side of `RemoteTask` both implement it, which is
what lets the Mac be checked against seven actions instead of the whole runner.

`RemoteTask` is one task on the Mac: `state` is `state.json`, `worker` the
carrier worker with the status it has in memory, `command[c]` a command of the
owner with the status it will save, `wire` the frames on the carrier as the
statuses they lead to. A command is an action per place where something else
may come between: the round trip to Windows, the probe of `worker.lock`
(`carrier_active` takes the lock for a moment), the second save of accept. The
verdict of `verify_completion` is an input.

Left out: the child task of a revise (a task of its own), the revise of an
accepted parent (it writes nothing to the parent), a second run of the private
`_worker` command, the fields of `state.json` beside the status.

### SdkSession

One job whose workers use the SDK transport, with a timeout or without one.
`worker[w]` is the worker launched for round `w` (before its claim, at a step of a round, idle, closing), `handled`
the round it claimed last, `cli[w]` the CLI of its client, `command[c]` a
command between two of its lock holds: a refresh or an accept that raises the
fence (`Fence`), waits for the worker to go or kills it, looks for leftovers
(`Confirm`) and then takes its own lock (`Accept`, `ReviseClosed`), or a stop
that signals process after process. `Relaunch` is `launch_transaction` of a
revise with `reuse_worker` inside: it saves the new round first, so a session
that turns out to be closing or half dead leaves an open round without a
worker. SIGTERM interrupts a worker where it awaits (`AfterCancel`); inside the
connect it has the outcome of a CLI that could not be spawned: the launch is
withdrawn (`SpawnCli`).
`unowned` is a history variable: the rounds after whose seal the session spoke.

Left out: reused pids and run tokens (they are in `DelegateJob`), revalidate,
an accept without `--expected-round`.

### RoundEvidence

One round, the second of its job, with a hook process of the earlier round
still on its way and a later round that may supersede it. Rows reach
`stdout.ndjson` in two steps, so what stands behind the last newline is a state
(`tail`): nothing, a piece of a row, or a row that lacks only its newline. The
Monitor leaves any tail for a later tick (`drained`), the verdict reads to the end
of the file (`Lines`): it takes a piece for a parse error and a whole row for a row.
So a round may pass on a last row that no Monitor handled, and
`EveryRowIsHandledOnce` says that there is nothing else it may pass on unseen. A tick reads
`hooks.ndjson` (`DrainHook`) and then `stdout.ndjson` (`DrainRow`) line by line,
while both still grow, and ends (`EndTick`) with the checkpoints that are due and
`monitor.json`. `incidents` is what the Monitor makes of the lines, `saved` what
readers with a cursor see of it.
The transcript is an input of the verdict, by the kinds of its new entries:
the CLI flushes it when it likes. A provider that outlives its timeout writes
on while the verdict is drawn.

Left out: token counts and the comparison of two checkpoints, the quota events
of the same stream, rows that are JSON to the verdict and not to the Monitor (it
replaces bytes that are not UTF-8, the Monitor drops the line), the `await-event` command (a reader of `monitor.json`).

### QuotaCache

The account is part of the model, because it is what the events are about: its
usage grows within a window and starts again at the reset. `Observe` stamps an
event and `StoreLive` stores it later; `ListCandidates`, `ReadStream`,
`CheckStored` and `StoreImport` are `refresh_from_jobs`, each where the code
lets others in between. The candidates and the events read are sets: what is
taken next comes from the sort key, and `place` is where an event stood in its
stream. `known` and `vague` are history variables: the
last high usage that was stored, and whether an event that names no usage or no
reset was stored since. One refresh runs at a time and it reads all streams; the
code lets several commands refresh at once, each the newest twelve. Neither
changes what is checked: a store compares under the lock, whoever imports, and a
stream that is skipped imports nothing.


## 3. Runs

| Run | Bounds | What it shows |
| --- | --- | --- |
| `job_faults` | 1 job, 2 rounds, 1 stopper, reused pids | what is reviewed is settled; accepted is durable; a new round starts alone; superseded rounds frozen; the reservation is refined; a polled job settles, but for the three ways it need not |
| `job_replay` | 1 job, 2 rounds, replayed workers, tokens that never show | one launch per round, one provider per job, dead phases are quiet, the checkout stays held |
| `job_pair` | 2 jobs, 2 overlapping keys, 2 rounds | reservations and writers stay apart through accept and revise |
| `notify` | 2 rounds, 2 watchers, a warning, reused pids | no duplicate, honest receipts, quiet rounds, the end announced |
| `request_replay` | 3 callers, 2 ids, 2 inputs | one run per id, answers about it |
| `remote_runner` | 2 requests of 1 directory, 2 dispatches each, 2 commands | one agent per directory and id but for astray agents and snatched locks, outcomes true, receipts in the promised order |
| `remote_task` | 2 commands, 1 frame on the wire before the last | the local status never exceeds the receipt; losses are unsupervised; acceptance outlives the worker; the order of the receipt; the view settles |
| `sdk_session` | 2 rounds, 2 commands | one session at a time on the current round, verified rounds name it, a fenced session ends, an acceptance covers all output, a polled job settles unless an untimed CLI runs on or a stop was lost |
| `round_evidence` | 2 terminated rows and a tail, 1 hook, 1 checkpoint, a late hook of the earlier round | terminated rows handled once, events are incidents and a cursor into them stays good, the verdict is the conjunction of the signals |
| `quota` | 2 jobs, 1 window that resets once, 2 events | a known high usage pauses until its reset; no fresh window is paused |
| `doc_reclaim`, `doc_sdk` | as small as shows it | the two findings |

**Why the bounds are enough.** Two rounds give every pair of an old and a
current round; a third adds no new relation, because only the current round and
"some earlier one" are told apart by the code. Two jobs give every conflict.
One stopper suffices where its interleavings with workers matter; two stoppers
only repeat `stop_transition`, which is idempotent. Two slots are all that
replay can do differently from more, since the claim is taken once. Two
watchers give every pair of an old and a new generation. Two commands give
every race of a stale save with another, every pair of a close and a stop or
another close, and one frame on the wire a worker that is behind the receipt.
Two rows give every order of an assistant row and a result, a failure and its
recovery, and a duplicate; the tail makes a third. Two events of two
jobs give an observation that overtakes another, live or imported, before and
after the reset. The bounds `MaxFrames` (a guard on heartbeats),
`MaxRevisions`, `MaxRound`, `MaxGeneration`, `MaxRows`, `MaxHooks`,
`MaxCheckpoints`, `MaxTime`, `MaxEvents` are guards on what they count. For the
safety properties the theorems of section 5 remove all of them; they matter for
liveness and the findings only.

`job_faults`, the run with the liveness property, has no replays: with them, a
second private worker may claim a round that was finalized without a claim (a
spawn failure), and the job is then `running` with a finalized round, which
reconcile leaves alone.

**Deadlock.** `remote_runner` and `doc_reclaim` turn the check off, their requests
end. Everywhere else some command or import is always possible.

**Fairness.** `DelegateJob!FairSpec`: the operating system runs a live worker,
`wait_with_timeout` returns once the provider is gone or its deadline has passed,
and somebody polls status after the launch grace has passed (`wait` does so in a
loop). A round has a deadline only if the job was given a timeout, which is not
the default: the worker of an untimed job waits as long as its provider lives.
`BusyRoundSettles` names that wait (`RunsOn`) among its exceptions. Nothing is
assumed of providers, operators, crashes or pids.
`SdkSession!FairSpec` is the same of an SDK worker: its calls into the SDK return,
but a round ends only if its CLI is gone or the job has a timeout
(`asyncio.timeout(None)` never fires), and `BusySessionSettles` excepts the
session that `RunsOn`. Its commands need not go on.
`NotifyWatcher!FairSpec`: the steps of a live watcher, whose loop sleeps and
ticks for ever; nothing of callers, jobs or crashes. `RemoteTask!FairSpec`: the
dispatcher and a live worker go on (their SSH calls have timeouts), five
seconds pass, a probe's lock is closed with its file, and the runner ends by
its own timeout or is killed when its carrier is lost; nothing is assumed of
the commands otherwise, of the frames or of crashes. `RoundEvidence` and
`QuotaCache` have safety properties only.

## 4. Findings

Two runs show the code doing what a line of the repository rules out.

1. `doc_reclaim`: two overlapping reclaims of one lost task; the slower removes
   the lock another request has taken since. The properties of `remote_runner`
   hold up to there, and the lock stands for nobody from there on (`snatched`).
2. `doc_sdk`: the worker of a reviewed SDK round dies and its CLI lives on.
   `live_blockers` lets the session's CLI pass as idle and `reuse_worker` looks
   at the worker first, so a revise starts a second session beside the CLI;
   `delegate_recovery.py:23` and `claude_task.py:1234` say it never does.

More disagreements met while modelling, reachable in the models, without a run
of their own:

- A stop whose process dies between its two lock holds leaves a job `running`
  with a finalized round and no worker; `docs/CONTRACTS.md:39` says a worker owns
  the round of a running job. Another `stop` repairs it. `BusyRoundSettles` and
  `BusySessionSettles` name it among their exceptions.
- While a dead worker's pid belongs to another process, reconcile keeps the job
  busy (`delegate_recovery.py:80`); `docs/CONTRACTS.md:56` says an occupied but
  unverifiable process becomes `needs_attention`.
- A new remote agent that cannot be identified is reported as `failed` and its lock
  released, whether `taskkill` ended it or not (`remote_codex_runner.cjs:794`): an
  agent may work on beside the next request of its directory.
- A round passes on a result row that lacks its newline, which `parse_stream` reads
  (`claude_task.py:529`) and the Monitor never handles (`claude_events.py:231`).
- A wake armed while the watcher is finishing is answered with `watching` and
  never queued (`delegate_notify.py:193`, against `notifications.md:5`).
- A live rejection without a usage, stored over a known high one, lets an import
  of an older and lower event of the same window clear the hold
  (`claude_quota.py:71`), which `quota-and-inputs.md:23` rules out.
  `HoldOutlivesImports` has this as its proviso (`vague`).

What the models show and no line forbids. Remote task: a receipt query puts an
accepted or superseded task back to `awaiting_review`, since it applies the old
completion again; accept and supersede can overtake each other; a worker that
boots while somebody probes gives up, and the task stays `preparing` in
`state.json` and lost in what `public` shows; a deployment of more than five
seconds is shown as lost; an accepted parent can be revised more than once.
Remote runner: a runner killed before `starting`, or after its outcome and
before `releaseLock`, leaves a lock that only a human can free. SDK session:
`sdk_unavailable` is raised after the new round was saved, and a failed
`register_cli` leaves `claude_launch_pending` set, so both need a recovery;
output between the save of a new round and its claim flags nothing; an accept
that fails after its fence leaves `sdk_closing` set, and the session cannot be
reused. Events: a distinct failure inside a burst is never announced later, and
a transcript entry of the earlier round that is flushed after the baseline counts
as this round's evidence. Quota: an event that is stamped but not stored yet can
be imported with a newer mtime, and a delayed live observation can lower the
usage of its window.

## 5. Proofs

Every safety invariant, action property and refinement that a passing run checks
is also a theorem, for every value of the constants: any sets of jobs, keys,
controllers, commands, callers, requests, directories and warnings, any numbers
of revisions, rounds, generations, rows, hooks, frames, events and ticks, any
switch of the environment. The constants are assumed to be what they are called
(the named `ASSUME`s): a `Conflict` that is reflexive and symmetric, which
`keys_conflict` is, values that are not jobs or requests, bounds that are
naturals, 0 < `LIMIT` <= `Full`.

| Theorem | States | Module |
| --- | --- | --- |
| `TypeCorrect`, `Inductive` | `[]TypeOK`, `[]IInv` | every proof module (`RequestReplay`: `Inductive` only, types are part of it) |
| `ReservationsExclusive`, `LiveProvidersHoldCheckouts`, `ProvidersAreSingle`, `RoundsLaunchOnce`, `ReviewsAreSettled`, `DeadJobsAreQuiet` | the invariants of the lifecycle | `DelegateJob_proofs` |
| `AcceptanceIsDurable`, `SupersededRoundsStayFrozen`, `NewRoundsStartAlone` | its action properties | `DelegateJob_proofs` |
| `LifecycleImplementsReservation`, `ReservationSafe`, `WritersStayApart` | the refinement, the safety of the abstract reservation, and what the lifecycle inherits | `DelegateJob_proofs` |
| `RequestsRunOnce`, `AnswersAreAboutTheirRun` | one run per id, answers about it | `RequestReplay_proofs` |
| `NoticesAreSentOnce`, `ReceiptsTellTheTruth`, `WakesAreOfSettledRounds`, `QuietIsKept` | what notifications promise | `NotifyWatcher_proofs` |
| `RequestsLaunchOnce`, `OutcomesAreOver`, `LiveAgentsKeepTheirLock`, `DirectoriesAreExclusive`, `LoneReclaimsSnatchNothing` | agents, outcomes and locks on Windows | `RemoteRunner_proofs` |
| `ReceiptsImplementTheOrder` | the refinement of `RemoteReceipt` | `RemoteRunner_proofs` |
| `OutcomesComeFromWindows`, `AcceptancesOutliveWorkers`, `LossesAreUnsupervised` | what the Mac says of Windows | `RemoteTask_proofs` |
| `TaskKeepsTheOrder` | the refinement of `RemoteReceipt` | `RemoteTask_proofs` |
| `SessionsAreAlone`, `WorkIsCurrent`, `VerifiedRoundsNameTheirSession`, `AcceptedRoundsAreSealed` | the SDK session | `SdkSession_proofs` |
| `RowsAreHandledOnce`, `EventsAreAboutTheRound`, `VerdictsAreTheEvidence` | the monitor and the verdict | `RoundEvidence_proofs` |
| `HoldsOutliveImports`, `PausesAreReal` | the quota hold | `QuotaCache_proofs` |

TLC checked every inductive invariant on the bounds of section 3 before it was
proved. None of the properties below is inductive by itself; what follows says
what is missing and why it is true.

**The lifecycle.** `IInv` adds, job by job: rounds that are not open yet are
empty; an active worker, or one whose provider was ever spawned, is the one that
took the claim of its round (`ClaimNamesTheWorker`, which is why replays launch
nothing, and is `LaunchedOnce` at once); a live provider belongs to the current
round and is visible to `live_blockers`, through its recorded identity or a
pending launch (`LiveProviderIsVisible`, which is why a revise that sees no
blocker starts alone); active workers belong to the current round of a job that
is not dead; a round that passed has nothing left running (`VerdictsComeLast`).
The proof goes action by action over effect lemmas that say what each function of
`JobRecord` leaves alone, and most actions change one job and one process. The
action properties rest on one more fact about steps, `NextWrites`: whoever
writes `job.json`, it writes to one round, the current one, or opens the next
one, and what may happen to the phase depends on which of the two it is.
`WritersStayApart` is not proved of the lifecycle itself: `ReservationSafe` is
proved of the abstract reservation through its instance, and the refinement
carries it over.

**Request replay.** Whoever is between the receipt check and its reply holds the
lock of its request (`RequestLocked`), what it has seen under that lock is still
true while it holds it (`SeenIsStable`), and a run has a receipt that agrees with
it (`RunsHaveReceipts`).

**Notifications.** Messages go out with no lock, so what counts is the claim. A
watcher between the locks of a notice has claimed it in the receipt, knows
whether the desktop was asked (`NoticesAreClaimed`) and is the only one
(`NoticesHaveOneSender`): a claim is taken only of an event that is `none` in
the receipt, and nobody takes it back before its result is in, not even a new
generation. The same for the wake (`WakesAreClaimed`, `WakesHaveOneSender`).

**The remote runner.** `ReceiptInv` is about receipts and agents: the attempt that made
the job directory is the only one that starts anything (`OneAttemptStarts`); the
receipt says what its runner is doing (`ReceiptFollowsRunner`), and an astray agent
belongs to a request that failed (`AstrayMeansFailed`), so no command ever takes it
for dead; and what a command found out stays true until it writes, however late,
since a window passes only after the runner is gone and nothing starts again
(`SilentRunnersAreGone`, `CommandsStayRight`). `LockInv` says whom a lock stands
for as long as it was not snatched: from its mkdir to its rmdir it belongs to one
runner (`HolderIsOwner`), and a reclaim that has unlinked `owner.json` has the lock
for itself (`ReclaimOwnsTheLock`). Reclaims may overlap, so a reclaim that has only
validated has nothing for itself; it validated its own request's lock
(`ReclaimsValidateTheirOwn`), and when the owner is another's by the time it
unlinks, the directory is snatched. `LoneReclaimsSnatchNothing` is the other half:
with one command at a time that never happens, so what finding 1 shows takes an
overlap, and then both lock theorems have the astray agent as their only exception.

**The remote task.** `OutcomeIsFromWindows` speaks of `state.json` only, and a
command saves what it read long ago, so `IInv` says the same (`Holds`) of every
status that is saved, in the worker's memory, carried by a command or on the
wire. `HoldsLasts` is the heart: every status that holds of a receipt holds of
all receipts the promised order leads to, so a stale status never becomes false.
A loss is different, it depends on the worker: a command that carries it has seen
`worker.lock` free after a receipt existed, and then the worker is gone for
good, since it dials (and there is a receipt) only after it booted.

**The SDK session.** That two workers are never both past their claim is not
inductive: a second one may be booting, and nothing about the first says that its
claim will fail. `IInv` says who the record names: a worker past its claim is
`sdk_worker` (`SessionIsRecorded`), so there is one, and a claim is only given to
`sdk_worker`. The names change when a revise launches a worker, which it does only
when `live_blockers` found the old one gone or the session idle and dead
(`ReviseFindsNobody`); a worker at work sits on a claimed, unfinalized current
round that names it (`WorkIsClaimed`), which makes it a blocker of every revise
and every finished stop. A round that was finalized before its claim will not be
claimed any more (`UnclaimedIsOver`): a decision, a missing worker or a dead one
stands in the way. Two shapes of step cover most actions: the record's rounds
stay and a worker only moves towards its end (`RetreatStep`), or the worker saves
its own round (`SavedStep`). What an acceptance seals needs `SealInv` on top: a
worker past its claim is the one recorded in the round it claimed last, so that
`Confirm` sees it (`ClaimsAreRecorded`); a round under review was claimed
(`ReviewedIsClaimed`), one with output after its seal is not under review and
will not be again (`UnownedIsOver`), and what a command found behind its fence
stays true of a claimed round until it takes its lock (`ClosedForGood`).

**Events and verdict.** What is seen is what lies before the offset
(`SeenIsRead`), and a clean exit is concluded only after the provider is gone, so
the last tick of such a round reads all that is terminated, and a piece of a row
behind it does not pass (`PassingIsWhole`, `LastTickIsWhole`). The events
need their causes: `hooks.ndjson` holds hooks this round fired
(`HooksAreOurs`), and `CausesAreSeen` balances the count of `error` events
against the successes that were read: a burst that goes on has used up the event
the next success allows again. It holds row by row, because `drain` handles one
row at a time. The verdict is proved signal by signal: what `parse_stream` counts
is what the lines say, the tail among them (`LinesAreRows`, `SummaryOfRows`), a transcript raises no reason exactly when
its entries are marked, at max and usable (`TranscriptAgrees`).

**Quota.** Whatever an event says of a window, be it written, stamped, found in
a stream or stored, its reset has passed, or it is the reset of the window that
runs, and then a usage at the limit is still there, since usage only grows within
a window (`EventsAreDated`). So no late store or import pauses a fresh one. A known high usage is the one the cache holds
(`KnownIsHeld`), because an import is compared with what is stored under the
lock.

**Only model-checked.** Liveness: `BusyRoundSettles`, `SettlementIsAnnounced`,
`BusyViewSettles`, `FencedSessionEnds`, `BusySessionSettles`. It rests on
fairness, that is on ENABLED, which the prover does not reason about. And that
the two violated lines of section 4 are violated.

## 6. Not modelled

- The rounds of the other providers: four more pairs of a launch line and a
  parser of a native transcript. The lifecycle takes their verdict as an input,
  and what a parser computes is data, not control.
- Transport adapters, front ends and the tool catalogue: argument schemas,
  configuration and command lines, no state.
- Evidence manifests and the job store: hashes, copies and a migration of fields
  the models do not tell apart. The atomicity of a save is used everywhere.
- The remote observer: it reads a log of another program and keeps an offset;
  nothing else depends on it.
- The path algebra of `keys_conflict` is the constant `Conflict`; the owner
  check, argument validation and file fingerprints are left out of the commands.
- Reused pids under the SDK transport, and the private worker command run twice
  there: modelled for the CLI transport only.

## 7. Next

- That a remote acceptance is not taken back: false today (section 4), and an
  action property to state and prove of a `receipt` command that looks first.
- The parsers of the other providers, as decisions over kinds of rows like
  `verify_round`, and a refinement of all of them to one abstract verdict.
- Reclaim under a lock of its own and a `taskkill` whose result is looked at, to
  state `DirectoriesAreExclusive` without `Working`'s exceptions, should the code
  get them.
