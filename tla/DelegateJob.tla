----------------------------- MODULE DelegateJob -----------------------------
(***************************************************************************)
(* The local job lifecycle over the CLI transport: the public commands     *)
(* start, revise, status/wait/list, stop, accept and revalidate, the       *)
(* detached worker of each round, the provider process it supervises, and  *)
(* the operating system under them.                                        *)
(*                                                                         *)
(* Every command and worker section that runs under StateLock is one       *)
(* action: the flock excludes every other section, and the kernel drops it *)
(* when its holder dies.  A holder that dies half way is an outcome of the *)
(* action, with exactly what had been saved and spawned by then.  cmd_stop *)
(* is three kinds of step, because it signals between two lock holds.      *)
(*                                                                         *)
(* The owner checks of load_owned are left out: every caller here is the   *)
(* job's owner, the only one whose commands change the job.                *)
(***************************************************************************)
EXTENDS JobRecord, FiniteSets

CONSTANTS
  Job,         \* job ids (fresh uuids)
  NoJobId,     \* what an idle controller is stopping
  Controller,  \* processes running cmd_stop
  Conflict,    \* the pairs of keys for which keys_conflict is true
  Replays,     \* whether the private _worker command may be run again
  PidReuse,    \* whether the kernel may hand a dead process's pid to another
  LateTokens   \* whether a run token may fail to show before the settle time

ASSUME ConflictAssumption ==
  /\ Conflict \subseteq Key \X Key
  /\ \A k \in Key : <<k, k>> \in Conflict
  /\ \A k, l \in Key : <<k, l>> \in Conflict => <<l, k>> \in Conflict
ASSUME NoKeyAssumption == NoKey \notin Key
ASSUME NoJobIdAssumption == NoJobId \notin Job
ASSUME EnvironmentAssumption ==
  Replays \in BOOLEAN /\ PidReuse \in BOOLEAN /\ LateTokens \in BOOLEAN

VARIABLES
  job,       \* job[j]: the job.json of job j
  worker,    \* worker[j][i][s]: the worker process of slot s of round i
  provider,  \* provider[j][i][s]: the provider process that worker spawned
  stopping   \* stopping[c]: the job a controller is stopping, and whom to signal

vars == <<job, worker, provider, stopping>>

\* Where a worker is in worker_run.  "reused": it is gone and its pid has been
\* given to an unrelated process.
WorkerLive == {"boot", "claimed", "supervising", "reporting", "timed_out", "failing"}
WorkerState == WorkerLive \cup {"none", "gone", "reused"}
ProviderState == {"none", "live", "gone", "reused"}

Target == [round : Round, process : {"worker", "claude"}, identity : Identity]
IdleController == [job |-> NoJobId, targets |-> {}]

Init ==
  /\ job = [j \in Job |-> NoJob]
  /\ worker = [j \in Job |-> [i \in Round |-> [s \in Slot |-> "none"]]]
  /\ provider = [j \in Job |-> [i \in Round |-> [s \in Slot |-> "none"]]]
  /\ stopping = [c \in Controller |-> IdleController]

-----------------------------------------------------------------------------
(* Process identities.                                                     *)

\* capture_identity: whether the token showed in time.
Captured == IF LateTokens THEN BOOLEAN ELSE {TRUE}

\* identity_state(record) is in STATE_GONE: nothing was recorded, or ESRCH
\* proves that the pid is free.  An occupied pid is never gone, whether the
\* process is ours ("alive"), another one ("mismatch") or cannot be described
\* ("unverifiable").
\* Mutant of WorkerGone: a worker that was never recorded is waited for.
RecordedWorkerGone(j, i) ==
  LET id == job[j].rounds[i].worker
  IN  id.slot # "none" /\ worker[j][i][id.slot] = "gone"

WorkerGone(j, i) ==
  LET id == job[j].rounds[i].worker
  IN  id.slot = "none" \/ worker[j][i][id.slot] = "gone"

\* Mutant of ClaudeGone: only a verified process counts as running.
VerifiedClaudeGone(j, i) ==
  LET id == job[j].rounds[i].claude
  IN  ~id.identity_verified \/ provider[j][i][id.slot] = "gone"

ClaudeGone(j, i) ==
  LET id == job[j].rounds[i].claude
  IN  id.slot = "none" \/ provider[j][i][id.slot] = "gone"

\* Mutants of live_blockers: providers are not looked at; a launch whose
\* provider was never registered is not.
blockers_without_providers(j) ==
  \/ \E i \in Round : ~WorkerGone(j, i)
  \/ ~Current(job[j]).finalized /\ ~job[j].stop_requested
       /\ Current(job[j]).worker = NoIdentity

blockers_without_pending(j) ==
  \/ \E i \in Round : ~WorkerGone(j, i) \/ ~ClaudeGone(j, i)
  \/ ~Current(job[j]).finalized /\ ~job[j].stop_requested
       /\ Current(job[j]).worker = NoIdentity

\* live_blockers(job) is not empty.
live_blockers(j) ==
  LET record == Current(job[j])
  IN  \/ \E i \in Round : ~WorkerGone(j, i) \/ ~ClaudeGone(j, i)
      \/ record.claude = NoIdentity /\ record.claude_launch_pending
      \/ ~record.finalized /\ ~job[j].stop_requested /\ record.worker = NoIdentity

\* Mutant of NoConflict: only a busy job holds its checkout.
NoBusyConflict(j, key) ==
  \A other \in Job \ {j} :
    job[other].phase \in BUSY_PHASES => <<key, job[other].reservation_key>> \notin Conflict

\* find_conflict(ctx, key, ignore_job_id=j) finds nothing.
NoConflict(j, key) ==
  \A other \in Job \ {j} :
    job[other].phase \in RESERVING_PHASES => <<key, job[other].reservation_key>> \notin Conflict

-----------------------------------------------------------------------------
(* Commands.                                                               *)

Exists(j) == job[j].phase # ABSENT

LaunchOutcome ==
  {"died_before_spawn", "spawn_failed", "died_after_spawn", "registered"}
    \cup IF LateTokens THEN {"unverified"} ELSE {}

\* launch_transaction, in the lock hold that committed the record "committed":
\* the controller may die before or after the Popen, the Popen may fail, and
\* the identity may or may not be verified in time.
launch_transaction(j, committed, outcome) ==
  /\ job' = [job EXCEPT ![j] =
       CASE outcome = "spawn_failed" -> SpawnFailed(committed)
         [] outcome \in {"registered", "unverified"} ->
              WorkerRegistered(committed, outcome = "registered")
         [] OTHER -> committed]
  /\ worker' = IF outcome \in {"died_before_spawn", "spawn_failed"} THEN worker
               ELSE [worker EXCEPT ![j][committed.current_round]["launched"] = "boot"]
  /\ UNCHANGED <<provider, stopping>>

cmd_start(j, key, timeout, outcome) ==
  /\ ~Exists(j)
  /\ NoConflict(j, key)
  /\ launch_transaction(j, StartedJob(key, timeout), outcome)

\* The job as reconcile leaves it, under the lock of the command that calls it.
Reconciled(j, graceOver) ==
  reconcile(job[j], graceOver,
            WorkerGone(j, job[j].current_round), ClaudeGone(j, job[j].current_round))

\* status, wait, await-event and list save what reconcile finds; so does a
\* revise or an accept that is refused after it.
cmd_status(j, graceOver) ==
  /\ Exists(j)
  /\ job' = [job EXCEPT ![j] = Reconciled(j, graceOver)]
  /\ UNCHANGED <<worker, provider, stopping>>

revise_transaction(j, graceOver, timeout, outcome) ==
  LET seen == Reconciled(j, graceOver)
  IN  /\ seen.phase \in RECOVER_PHASES \cup {"awaiting_review", "accepted"}
      /\ ~live_blockers(j)
      /\ seen.current_round < MaxRevisions
      /\ NoConflict(j, seen.reservation_key)
      /\ launch_transaction(j, RevisedJob(seen, timeout), outcome)

\* Revalidation needs proof that both processes of the round have exited.
RevalidationBlocked(j) ==
  LET record == Current(job[j])
  IN  \/ live_blockers(j)
      \/ record.worker = NoIdentity
      \/ record.claude = NoIdentity

cmd_revalidate(j, passes) ==
  LET record == Current(job[j])
  IN  /\ job[j].phase = "failed"
      /\ ~job[j].stop_requested
      /\ record.finalized
      /\ record.verification = "placeholder"
      /\ ~RevalidationBlocked(j)
      /\ NoConflict(j, job[j].reservation_key)
      /\ job' = [job EXCEPT ![j] = Revalidated(@, passes)]
      /\ UNCHANGED <<worker, provider, stopping>>

cmd_accept(j) ==
  LET record == Current(job[j])
  IN  /\ job[j].phase = "awaiting_review"
      /\ record.verification = "ok"
      /\ record.revalidated => ~RevalidationBlocked(j)
      /\ job' = [job EXCEPT ![j] = apply_acceptance(@)]
      /\ UNCHANGED <<worker, provider, stopping>>

\* cmd_stop, first lock: raise stop_requested and list every recorded process.
RequestStop(c, j) ==
  /\ stopping[c] = IdleController
  /\ Exists(j)
  /\ job' = [job EXCEPT ![j].stop_requested = TRUE]
  /\ stopping' = [stopping EXCEPT ![c] =
       [job |-> j,
        targets |-> {t \in Target :
          /\ t.identity # NoIdentity
          /\ t.identity = IF t.process = "worker" THEN job[j].rounds[t.round].worker
                                                  ELSE job[j].rounds[t.round].claude}]]
  /\ UNCHANGED <<worker, provider>>

\* Targets are signalled round by round, the provider before its worker.
Before(t, u) ==
  \/ t.round < u.round
  \/ t.round = u.round /\ t.process = "claude" /\ u.process = "worker"

\* cmd_stop, no lock: terminate_recorded on the next target.  Only a process
\* whose identity was verified, and still verifies, is signalled; ps may fail to
\* describe it and the process may outlive the two grace periods, so it may
\* also still be there afterwards.
SignalTarget(c) ==
  \E t \in stopping[c].targets :
    LET j == stopping[c].job
        s == t.identity.slot
    IN  /\ \A u \in stopping[c].targets \ {t} : Before(t, u)
        /\ stopping' = [stopping EXCEPT ![c].targets = @ \ {t}]
        /\ \/ UNCHANGED <<worker, provider>>
           \/ /\ t.process = "worker" /\ t.identity.identity_verified
              /\ worker[j][t.round][s] \in WorkerLive
              /\ worker' = [worker EXCEPT ![j][t.round][s] = "gone"]
              /\ UNCHANGED provider
           \/ /\ t.process = "claude" /\ t.identity.identity_verified
              /\ provider[j][t.round][s] = "live"
              /\ provider' = [provider EXCEPT ![j][t.round][s] = "gone"]
              /\ UNCHANGED worker
        /\ UNCHANGED job

\* cmd_stop, second lock: whatever the job has become since the first one.
FinishStop(c) ==
  /\ stopping[c] # IdleController
  /\ stopping[c].targets = {}
  /\ LET j == stopping[c].job
     IN  job' = [job EXCEPT ![j] = stop_transition(@, live_blockers(j))]
  /\ stopping' = [stopping EXCEPT ![c] = IdleController]
  /\ UNCHANGED <<worker, provider>>

\* The process running cmd_stop dies, or gives up, between its two lock holds.
StopAbandoned(c) ==
  /\ stopping[c] # IdleController
  /\ stopping' = [stopping EXCEPT ![c] = IdleController]
  /\ UNCHANGED <<job, worker, provider>>

-----------------------------------------------------------------------------
(* The worker of slot s of round i of job j.                               *)

WorkerBecomes(j, i, s, state) == worker' = [worker EXCEPT ![j][i][s] = state]

\* Mutant: a worker of any round may write.
unguarded_round(j, i) == TRUE

\* guarded_round: the round is still current.  Both slots of a round carry the
\* same run token and claim, so those tell only rounds apart.
guarded_round(j, i) == job[j].current_round = i

\* Somebody runs the private _worker command of an existing round again.
ReplayWorker(j, i) ==
  /\ Replays
  /\ Exists(j) /\ i <= job[j].current_round
  /\ worker[j][i]["replayed"] = "none"
  /\ WorkerBecomes(j, i, "replayed", "boot")
  /\ UNCHANGED <<job, provider, stopping>>

\* Mutant: the claim can be taken again.
MayClaimAgain(j, i) == guarded_round(j, i) /\ ~Decided(job[j])

MayClaim(j, i) ==
  /\ guarded_round(j, i)
  /\ ~job[j].rounds[i].claim_consumed
  /\ ~Decided(job[j])

\* worker_run, first lock.
ClaimRound(j, i, s) ==
  /\ worker[j][i][s] = "boot"
  /\ IF MayClaim(j, i)
     THEN /\ \E verified \in Captured :
               job' = [job EXCEPT ![j] = Claimed(@, i, s, verified)]
          /\ WorkerBecomes(j, i, s, "claimed")
     ELSE /\ WorkerBecomes(j, i, s, "gone")
          /\ UNCHANGED job
  /\ UNCHANGED <<provider, stopping>>

SpawnOutcome ==
  {"refused", "died_before_spawn", "spawn_failed",
   "died_after_spawn", "failed_after_spawn", "registered"}
    \cup IF LateTokens THEN {"unverified"} ELSE {}

\* worker_run, second lock, past its guards.  claude_launch_pending is saved
\* before the Popen and cleared by the save that records the identity, so a
\* worker lost between the two leaves it raised, with or without a provider.
SpawnProvider(j, i, s, outcome) ==
  /\ job' = [job EXCEPT ![j] =
       CASE outcome = "refused" -> LaunchRefused(@, i)
         [] outcome = "spawn_failed" -> PendingLaunch(@, i, FALSE)
         [] outcome \in {"registered", "unverified"} ->
              ClaudeRegistered(@, i, s, outcome = "registered")
         [] OTHER -> PendingLaunch(@, i, TRUE)]
  /\ provider' = IF outcome \in {"refused", "died_before_spawn", "spawn_failed"}
                 THEN provider
                 ELSE [provider EXCEPT ![j][i][s] = "live"]
  /\ WorkerBecomes(j, i, s,
       CASE outcome \in {"registered", "unverified"} -> "supervising"
         [] outcome \in {"spawn_failed", "failed_after_spawn"} -> "failing"
         [] OTHER -> "gone")

\* worker_run, second lock: launch the provider, unless the round was
\* superseded or a stop was requested meanwhile.
LaunchProvider(j, i, s) ==
  /\ worker[j][i][s] = "claimed"
  /\ \/ /\ guarded_round(j, i) /\ ~job[j].stop_requested
        /\ \E outcome \in SpawnOutcome : SpawnProvider(j, i, s, outcome)
     \/ /\ guarded_round(j, i) /\ job[j].stop_requested
        /\ job' = [job EXCEPT ![j] = PendingLaunch(@, i, FALSE)]
        /\ WorkerBecomes(j, i, s, "gone")
        /\ UNCHANGED provider
     \/ /\ ~guarded_round(j, i)
        /\ WorkerBecomes(j, i, s, "gone")
        /\ UNCHANGED <<job, provider>>
  /\ UNCHANGED stopping

\* wait_with_timeout: proc.wait returned.
ProviderReaped(j, i, s) ==
  /\ worker[j][i][s] = "supervising"
  /\ provider[j][i][s] # "live"
  /\ WorkerBecomes(j, i, s, "reporting")
  /\ UNCHANGED <<job, provider, stopping>>

\* wait_with_timeout: the deadline passed, if the job has one.  The provider is
\* terminated only if its identity was verified, and may survive.
TimeOut(j, i, s) ==
  /\ worker[j][i][s] = "supervising"
  /\ job[j].timeout = "finite"
  /\ WorkerBecomes(j, i, s, "timed_out")
  /\ \/ UNCHANGED provider
     \/ /\ job[j].rounds[i].claude.identity_verified
        /\ provider[j][i][s] = "live"
        /\ provider' = [provider EXCEPT ![j][i][s] = "gone"]
  /\ UNCHANGED <<job, stopping>>

\* worker_run, third lock.  A timed-out round never verifies.
CompleteRound(j, i, s, verdict) ==
  /\ \/ worker[j][i][s] = "reporting" /\ verdict # "timeout"
     \/ worker[j][i][s] = "timed_out" /\ verdict = "timeout"
  /\ job' = IF guarded_round(j, i)
            THEN [job EXCEPT ![j] = complete_round(@, i, verdict)]
            ELSE job
  /\ WorkerBecomes(j, i, s, "gone")
  /\ UNCHANGED <<provider, stopping>>

\* Any exception, a lock timeout included, sends the worker to
\* finalize_worker_failure.
WorkerRaises(j, i, s) ==
  /\ worker[j][i][s] \in WorkerLive \ {"failing"}
  /\ WorkerBecomes(j, i, s, "failing")
  /\ UNCHANGED <<job, provider, stopping>>

\* finalize_worker_failure swallows its own failures (recorded = FALSE).
RecordFailure(j, i, s, recorded) ==
  /\ worker[j][i][s] = "failing"
  /\ job' = IF recorded /\ guarded_round(j, i)
            THEN [job EXCEPT ![j] = finalize_worker_failure(@, i)]
            ELSE job
  /\ WorkerBecomes(j, i, s, "gone")
  /\ UNCHANGED <<provider, stopping>>

-----------------------------------------------------------------------------
(* The operating system.                                                   *)

WorkerDies(j, i, s) ==
  /\ worker[j][i][s] \in WorkerLive
  /\ WorkerBecomes(j, i, s, "gone")
  /\ UNCHANGED <<job, provider, stopping>>

ProviderExits(j, i, s) ==
  /\ provider[j][i][s] = "live"
  /\ provider' = [provider EXCEPT ![j][i][s] = "gone"]
  /\ UNCHANGED <<job, worker, stopping>>

\* An unrelated process gets the pid of a dead one, or gives it back.  Only
\* pids that a round records are ever looked at again.
PidChangesHands(j, i, s) ==
  /\ PidReuse
  /\ \E from, to \in {"gone", "reused"} :
       /\ from # to
       /\ \/ /\ job[j].rounds[i].worker.slot = s
             /\ worker[j][i][s] = from
             /\ WorkerBecomes(j, i, s, to)
             /\ UNCHANGED provider
          \/ /\ job[j].rounds[i].claude.slot = s
             /\ provider[j][i][s] = from
             /\ provider' = [provider EXCEPT ![j][i][s] = to]
             /\ UNCHANGED worker
  /\ UNCHANGED <<job, stopping>>

-----------------------------------------------------------------------------
Command ==
  \/ \E j \in Job, key \in Key, timeout \in Timeout, outcome \in LaunchOutcome :
       cmd_start(j, key, timeout, outcome)
  \/ \E j \in Job, graceOver \in BOOLEAN : cmd_status(j, graceOver)
  \/ \E j \in Job, graceOver \in BOOLEAN, timeout \in Timeout, outcome \in LaunchOutcome :
       revise_transaction(j, graceOver, timeout, outcome)
  \/ \E j \in Job, passes \in BOOLEAN : cmd_revalidate(j, passes)
  \/ \E j \in Job : cmd_accept(j)

Stop ==
  \/ \E c \in Controller, j \in Job : RequestStop(c, j)
  \/ \E c \in Controller : SignalTarget(c)
  \/ \E c \in Controller : FinishStop(c)
  \/ \E c \in Controller : StopAbandoned(c)

WorkerStep(j, i, s) ==
  \/ ClaimRound(j, i, s)
  \/ LaunchProvider(j, i, s)
  \/ ProviderReaped(j, i, s)
  \/ TimeOut(j, i, s)
  \/ \E verdict \in Verdict : CompleteRound(j, i, s, verdict)
  \/ \E recorded \in BOOLEAN : RecordFailure(j, i, s, recorded)

Environment(j, i, s) ==
  \/ WorkerRaises(j, i, s)
  \/ WorkerDies(j, i, s)
  \/ ProviderExits(j, i, s)
  \/ PidChangesHands(j, i, s)

Next ==
  \/ Command
  \/ Stop
  \/ \E j \in Job, i \in Round : ReplayWorker(j, i)
  \/ \E j \in Job, i \in Round, s \in Slot : WorkerStep(j, i, s) \/ Environment(j, i, s)

Spec == Init /\ [][Next]_vars

-----------------------------------------------------------------------------
(* Safety.                                                                 *)

\* Every variable has its type.
TypeOK ==
  /\ job \in [Job -> JobRecords]
  /\ worker \in [Job -> [Round -> [Slot -> WorkerState]]]
  /\ provider \in [Job -> [Round -> [Slot -> ProviderState]]]
  /\ stopping \in [Controller -> [job : Job \cup {NoJobId}, targets : SUBSET Target]]

Reserved(j) == job[j].phase \in RESERVING_PHASES

\* Two jobs never hold overlapping checkouts at once, whatever start, revise,
\* stop, accept and revalidate do in between (find_conflict and the phases).
ReservationExclusive ==
  \A j, k \in Job :
    j # k /\ Reserved(j) /\ Reserved(k) =>
      <<job[j].reservation_key, job[k].reservation_key>> \notin Conflict

Live(j, i, s) == provider[j][i][s] = "live"

\* A provider process can write to a checkout only while its job holds the
\* reservation: neither accept nor stop (nor a lost or unregistered launch)
\* ever releases a checkout under a provider that is still running.
LiveProviderHoldsCheckout ==
  \A j \in Job, i \in Round, s \in Slot : Live(j, i, s) => Reserved(j)

\* At most one provider process runs in a job, over all its rounds and however
\* often its private worker command is replayed.
OneProviderPerJob ==
  \A j \in Job : \A i, k \in Round : \A s, t \in Slot :
    Live(j, i, s) /\ Live(j, k, t) => i = k /\ s = t

\* The single-use launch_claim: the provider of a round is spawned once, ever.
LaunchedOnce ==
  \A j \in Job, i \in Round : \A s, t \in Slot :
    provider[j][i][s] # "none" /\ provider[j][i][t] # "none" => s = t

\* What a reviewer is shown, and what accept stands on, is a finalized round
\* that was claimed and verified, and no provider of the job is running.
ReviewedRoundIsSettled ==
  \A j \in Job :
    job[j].phase \in {"awaiting_review", "accepted"} =>
      /\ Current(job[j]).claim_consumed
      /\ Current(job[j]).finalized
      /\ Current(job[j]).verification = "ok"
      /\ \A i \in Round, s \in Slot : ~Live(j, i, s)

\* Between its claim and its report: such a worker can still spawn a provider
\* or decide the round.
Active(j, i, s) == worker[j][i][s] \in {"claimed", "supervising", "reporting", "timed_out"}

\* When stop reports a job stopped, or reconcile reports it interrupted, no
\* worker of any of its rounds is active and no provider runs: neither a
\* racing launch nor an unregistered worker slips past the fence.
DeadPhasesAreQuiet ==
  \A j \in Job : job[j].phase \in {"stopped", "interrupted"} =>
    \A i \in Round, s \in Slot : ~Active(j, i, s) /\ ~Live(j, i, s)

-----------------------------------------------------------------------------
(* What a step may never do.                                               *)

\* "accepted is irreversible: no worker, stop, or reconciliation path may
\* downgrade it"; only a revise that opens a new round leaves it.
AcceptedIsDurable ==
  [][\A j \in Job : job[j].phase = "accepted" =>
       \/ job'[j].phase = "accepted" /\ job'[j].current_round = job[j].current_round
       \/ job'[j].current_round > job[j].current_round]_vars

\* guarded_round: a worker of a superseded round, a late stop or a reconcile
\* never touches the record of a round that is no longer current.
SupersededRoundsFrozen ==
  [][\A j \in Job, i \in Round :
       i < job[j].current_round => job'[j].rounds[i] = job[j].rounds[i]]_vars

\* --recover "is never permission to start a second Claude beside one that may
\* still be live": a round is opened only when no provider of the job runs and
\* no worker of an earlier round is active.
NewRoundStartsAlone ==
  [][\A j \in Job : job'[j].current_round # job[j].current_round =>
       \A i \in Round, s \in Slot : ~Live(j, i, s) /\ ~Active(j, i, s)]_vars

-----------------------------------------------------------------------------
(* The abstract reservation: a job holds its key in the reserving phases,  *)
(* and writes through the live provider processes of its rounds.           *)

Held == [j \in Job |-> IF Reserved(j) THEN job[j].reservation_key ELSE NoKey]

Writing == {w \in Job \X (Round \X Slot) : Live(w[1], w[2][1], w[2][2])}

Checkout == INSTANCE CheckoutReservation
  WITH held <- Held, writing <- Writing, Process <- Round \X Slot

\* The lifecycle implements the reservation: in particular every release
\* happens with no provider running, and every spawn under a reservation.
ReservationRefined == Checkout!Spec

\* What the reservation is for: every running provider writes under a
\* reservation, and no two of them, of one job or of two, write to overlapping
\* checkouts.
WritersApart == Checkout!OneWriterPerCheckout

-----------------------------------------------------------------------------
(* Why the safety properties hold: the inductive invariant, job by job.    *)

Opened(j, i) == Exists(j) /\ i <= job[j].current_round

\* Nothing exists of a round before start or revise opens it.
UnopenedRoundsAreEmpty(j) ==
  \A i \in Round : ~Opened(j, i) =>
    /\ job[j].rounds[i] = NoRound
    /\ \A s \in Slot : worker[j][i][s] = "none" /\ provider[j][i][s] = "none"

\* The worker that took the claim is the one the round records, and the only
\* one that may spawn the provider, which it has not done yet while "claimed".
ClaimNamesTheWorker(j) ==
  \A i \in Round, s \in Slot :
    Active(j, i, s) \/ provider[j][i][s] # "none" =>
      /\ job[j].rounds[i].claim_consumed
      /\ job[j].rounds[i].worker.slot = s
      /\ provider[j][i][s] # "none" => worker[j][i][s] # "claimed"

\* A running provider belongs to the current round and is visible to
\* live_blockers: its identity is recorded or its launch is still pending.
LiveProviderIsVisible(j) ==
  \A i \in Round, s \in Slot : Live(j, i, s) =>
    /\ Reserved(j)
    /\ i = job[j].current_round
    /\ \/ job[j].rounds[i].claude.slot = s
       \/ job[j].rounds[i].claude = NoIdentity /\ job[j].rounds[i].claude_launch_pending

\* Active workers belong to the current round of a job that is neither
\* stopped nor interrupted.
ActiveWorkerIsCurrent(j) ==
  \A i \in Round, s \in Slot : Active(j, i, s) =>
    /\ i = job[j].current_round
    /\ job[j].phase \notin {"stopped", "interrupted"}

\* A worker reports only after its provider has been reaped, and a round that
\* passed (or may be revalidated) has nothing left running.
VerdictsComeLast(j) ==
  \A i \in Round, s \in Slot :
    /\ worker[j][i][s] = "reporting" => ~Live(j, i, s)
    /\ job[j].rounds[i].verification \in {"ok", "placeholder"} =>
         /\ job[j].rounds[i].claim_consumed
         /\ job[j].rounds[i].finalized
         /\ ~Active(j, i, s)
         /\ ~Live(j, i, s)

ReviewMeansVerified(j) ==
  job[j].phase \in {"awaiting_review", "accepted"} => Current(job[j]).verification = "ok"

InterruptedMeansDead(j) ==
  job[j].phase = "interrupted" => \A i \in Round, s \in Slot : ~Live(j, i, s)

\* A provider identity is only ever recorded for a spawned provider.
RecordedProviderWasSpawned(j) ==
  \A i \in Round :
    LET id == job[j].rounds[i].claude
    IN  id # NoIdentity => id.slot \in Slot /\ provider[j][i][id.slot] # "none"

StartedJobHasKey(j) ==
  IF Exists(j) THEN job[j].reservation_key \in Key ELSE job[j].current_round = 0

JobInv(j) ==
  /\ StartedJobHasKey(j)
  /\ UnopenedRoundsAreEmpty(j)
  /\ RecordedProviderWasSpawned(j)
  /\ ClaimNamesTheWorker(j)
  /\ LiveProviderIsVisible(j)
  /\ ActiveWorkerIsCurrent(j)
  /\ VerdictsComeLast(j)
  /\ ReviewMeansVerified(j)
  /\ InterruptedMeansDead(j)

\* A controller between its two lock holds is stopping a job that exists.
StopNamesAJob ==
  \A c \in Controller : stopping[c] # IdleController =>
    stopping[c].job \in Job /\ Exists(stopping[c].job)

IInv ==
  /\ TypeOK
  /\ StopNamesAJob
  /\ ReservationExclusive
  /\ \A j \in Job : JobInv(j)

-----------------------------------------------------------------------------
(* Liveness.  The operating system schedules a live worker, and somebody    *)
(* keeps polling status or wait.  A supervising worker goes on when its     *)
(* provider has ended or its deadline, if any, has passed.  Nothing is      *)
(* assumed of operators, providers, crashes or pids: without a timeout a    *)
(* provider may run for ever.                                               *)

WaitReturns(j, i, s) == ProviderReaped(j, i, s) \/ TimeOut(j, i, s)

Reports(j, i, s) == \E verdict \in Verdict : CompleteRound(j, i, s, verdict)

FairWorker(j, i, s) ==
  /\ WF_vars(ClaimRound(j, i, s))
  /\ WF_vars(LaunchProvider(j, i, s))
  /\ WF_vars(WaitReturns(j, i, s))
  /\ WF_vars(Reports(j, i, s))
  /\ WF_vars(\E recorded \in BOOLEAN : RecordFailure(j, i, s, recorded))

FairSpec ==
  /\ Spec
  /\ \A j \in Job, i \in Round, s \in Slot : FairWorker(j, i, s)
  /\ \A j \in Job : WF_vars(cmd_status(j, TRUE))

Busy(j) == job[j].phase \in BUSY_PHASES

\* reconcile sees the pid of the current worker occupied by another process.
WorkerPidReused(j) ==
  LET i == job[j].current_round
      id == job[j].rounds[i].worker
  IN  id.slot # "none" /\ worker[j][i][id.slot] = "reused"

\* A stop was requested, nobody finished it, and the round reported meanwhile.
StopLost(j) == job[j].stop_requested /\ Current(job[j]).finalized

\* A worker waits without a deadline for a provider that is still running.
RunsOn(j) ==
  /\ job[j].timeout = "unlimited"
  /\ \E s \in Slot : /\ worker[j][job[j].current_round][s] = "supervising"
                     /\ Live(j, job[j].current_round, s)

\* A job that waiters follow leaves the busy phases, whatever dies.  The only
\* ways to stay busy for ever are a provider that runs on without a timeout, a
\* reused worker pid and a lost stop.
BusyRoundSettles ==
  \A j \in Job : <>[]Busy(j) =>
    <>[]RunsOn(j) \/ []<>WorkerPidReused(j) \/ <>[]StopLost(j)
=============================================================================
