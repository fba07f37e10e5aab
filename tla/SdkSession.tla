------------------------------ MODULE SdkSession ------------------------------
(***************************************************************************)
(* A Claude job over the SDK transport: one detached worker that keeps one *)
(* CLI process connected over many rounds, and the commands that reuse it  *)
(* (revise), refresh it (revise with new options), close it (accept) or    *)
(* kill it (stop).  The job record is the one of the lifecycle; here it    *)
(* also names the session's worker and CLI, and the fence sdk_closing that *)
(* close_idle raises before it tears an idle session down.                 *)
(*                                                                         *)
(* A worker and its CLI are named by the round whose launch spawned them.  *)
(* Everything under one StateLock is one action.  Pid reuse and run tokens *)
(* that never show in a worker are in DelegateJob and not repeated here,   *)
(* so identity_state is "alive" or gone.                                   *)
(***************************************************************************)
EXTENDS Integers, JobPhases

CONSTANTS
  MaxRevisions,  \* the max_revisions limit of the job
  Command        \* processes that run revise, accept or stop

ASSUME MaxRevisionsAssumption == MaxRevisions \in Nat

Round == 0 .. MaxRevisions
NoProcess == -1
Process == Round \cup {NoProcess}
NoRound == -1

VARIABLES
  job,      \* job.json
  worker,   \* worker[w]: where the worker launched for round w is
  handled,  \* handled[w]: the last round that worker claimed (self.handled)
  cli,      \* cli[w]: the CLI process of that worker's client
  command,  \* command[c]: where a command is
  unowned   \* history: rounds after whose seal the session went on talking

vars == <<job, worker, handled, cli, command, unowned>>

\* "claimed": before the client connects; "launching": pending launch saved;
\* "spawned": CLI running, not recorded; "working": a round runs; "idle":
\* between rounds; "cancelled": SIGTERM interrupts a round, and the client's
\* context is left first; "aborting": the round is to be finalized as failed;
\* "closing": leaving the context, which disconnects the CLI.
Working == {"claimed", "launching", "spawned", "working", "cancelled", "aborting"}
Session == Working \cup {"idle", "closing"}
WorkerLive == Session \cup {"boot"}
WorkerState == WorkerLive \cup {"none", "gone"}

Verdict == {"none", "ok", "failed"}

RoundRecord ==
  [claim_consumed : BOOLEAN, finalized : BOOLEAN, worker : Process, claude : Process,
   claude_launch_pending : BOOLEAN, verification : Verdict]

NewRound ==
  [claim_consumed |-> FALSE, finalized |-> FALSE, worker |-> NoProcess,
   claude |-> NoProcess, claude_launch_pending |-> FALSE, verification |-> "none"]

\* The limit of a round: a number of seconds, or none, which is the default.
Timeout == {"finite", "unlimited"}

JobRecords ==
  [phase : Phase \cup {ABSENT}, current_round : Round, stop_requested : BOOLEAN,
   timeout : Timeout,
   sdk_worker : Process, sdk_claude : Process, sdk_closing : BOOLEAN,
   rounds : [Round -> RoundRecord]]

\* A command is idle, knows that the session must be refreshed ("refreshing"),
\* waits for the session to close ("waiting"), has seen it end or has killed it
\* ("confirming"), has confirmed it ("closed"), or is signalling the processes
\* of a stop ("stopping").
Target == [process : {"worker", "claude"}, id : Round]
CommandState ==
  [at : {"idle", "refreshing", "waiting", "confirming", "closed", "stopping"},
   does : {"accept", "revise", "stop"}, expected : Round \cup {NoRound},
   worker : Process, targets : SUBSET Target]
IdleCommand ==
  [at |-> "idle", does |-> "stop", expected |-> NoRound, worker |-> NoProcess, targets |-> {}]

Init ==
  /\ job = [phase |-> ABSENT, current_round |-> 0, stop_requested |-> FALSE,
            timeout |-> "unlimited",
            sdk_worker |-> NoProcess, sdk_claude |-> NoProcess, sdk_closing |-> FALSE,
            rounds |-> [i \in Round |-> NewRound]]
  /\ worker = [w \in Round |-> "none"]
  /\ handled = [w \in Round |-> NoRound]
  /\ cli = [w \in Round |-> "none"]
  /\ command = [c \in Command |-> IdleCommand]
  /\ unowned = {}

-----------------------------------------------------------------------------
(* What the commands read.                                                 *)

Current == job.rounds[job.current_round]
Exists == job.phase # ABSENT
Decided == job.stop_requested \/ job.phase \in TERMINAL_DECISION_PHASES

\* identity_state of a recorded worker or CLI: alive, or gone.
WorkerAlive(id) == id # NoProcess /\ worker[id] \in WorkerLive
CliAlive(id) == id # NoProcess /\ cli[id] = "live"

UnregisteredLaunch ==
  \/ Current.claude = NoProcess /\ Current.claude_launch_pending
  \/ ~Current.finalized /\ ~job.stop_requested /\ Current.worker = NoProcess

\* live_blockers, allow_idle_sdk: a reviewed session may stay connected,
\* unless it is being closed.
IdleSession ==
  job.phase = "awaiting_review" /\ Current.finalized /\ ~job.sdk_closing

\* live_blockers(job, allow_idle_sdk) is not empty.
live_blockers(allowIdle) ==
  \/ \E i \in Round :
       LET record == job.rounds[i]
       IN  \/ WorkerAlive(record.worker)
                /\ ~(allowIdle /\ IdleSession /\ record.worker = job.sdk_worker)
           \/ CliAlive(record.claude)
                /\ ~(allowIdle /\ IdleSession /\ record.claude = job.sdk_claude)
  \/ UnregisteredLaunch

\* Mutant: a round that nobody claimed is left alone, however old it is.
ReconciledClaimed(graceOver) ==
  IF \/ job.phase \notin BUSY_PHASES
     \/ Current.finalized
     \/ ~Current.claim_consumed
     \/ WorkerAlive(Current.worker)
  THEN job
  ELSE [job EXCEPT !.phase = "interrupted"]

\* reconcile, for the session's worker and CLI.
Reconciled(graceOver) ==
  IF \/ job.phase \notin BUSY_PHASES
     \/ Current.finalized
     \/ ~Current.claim_consumed /\ ~graceOver
     \/ WorkerAlive(Current.worker)
  THEN job
  ELSE [job EXCEPT !.phase =
          IF CliAlive(Current.claude) \/ Current.claude_launch_pending
               \/ Current.worker = NoProcess
          THEN "needs_attention" ELSE "interrupted"]

-----------------------------------------------------------------------------
(* start and revise.                                                       *)

LaunchOutcome == {"died_before_spawn", "spawn_failed", "died_after_spawn", "registered"}

\* launch_transaction spawns a worker for the round that "committed" opened.
LaunchWorker(committed, outcome) ==
  LET i == committed.current_round
  IN  /\ job' = IF outcome = "spawn_failed"
                  THEN [committed EXCEPT !.phase = "failed", !.rounds[i].finalized = TRUE]
                ELSE IF outcome = "registered"
                  THEN [committed EXCEPT !.rounds[i].worker = i, !.sdk_worker = i,
                                         !.sdk_closing = FALSE]
                ELSE committed
      /\ worker' = IF outcome \in {"died_before_spawn", "spawn_failed"} THEN worker
                   ELSE [worker EXCEPT ![i] = "boot"]

cmd_start(outcome) ==
  /\ ~Exists
  /\ \E timeout \in Timeout :
       LaunchWorker([job EXCEPT !.phase = "starting", !.timeout = timeout], outcome)
  /\ UNCHANGED <<handled, cli, command, unowned>>

\* status, wait and list save what reconcile finds.
cmd_status(graceOver) ==
  /\ Exists
  /\ job' = Reconciled(graceOver)
  /\ UNCHANGED <<worker, handled, cli, command, unowned>>

\* The job revise saves before launch_transaction runs.
Opened(seen, timeout) ==
  LET i == seen.current_round + 1
  IN  [seen EXCEPT !.phase = "starting", !.current_round = i, !.timeout = timeout,
                   !.stop_requested = FALSE, !.rounds[i] = NewRound]

\* reuse_worker: the session is alive and not being closed.
Reusable ==
  WorkerAlive(job.sdk_worker) /\ CliAlive(job.sdk_claude) /\ ~job.sdk_closing

\* Mutant: a session that cannot be reused is replaced.
RelaunchUnlessReusable(seen, timeout, outcome) ==
  LET opened == Opened(seen, timeout)
      i == opened.current_round
  IN  IF ~Reusable THEN LaunchWorker(opened, outcome)
      ELSE /\ job' = [opened EXCEPT !.rounds[i].worker = seen.sdk_worker,
                                    !.rounds[i].claude = seen.sdk_claude]
           /\ UNCHANGED worker

\* launch_transaction of a revise.  The round is already saved: when the
\* session cannot be reused, or the controller dies before the second save,
\* the round stays open without a worker.
Relaunch(seen, timeout, outcome) ==
  LET opened == Opened(seen, timeout)
      i == opened.current_round
  IN  IF ~WorkerAlive(seen.sdk_worker) THEN LaunchWorker(opened, outcome)
      ELSE /\ job' = IF Reusable /\ outcome = "registered"
                     THEN [opened EXCEPT !.rounds[i].worker = seen.sdk_worker,
                                         !.rounds[i].claude = seen.sdk_claude]
                     ELSE opened
           /\ UNCHANGED worker

MayRevise(seen, expected) ==
  /\ expected \in {NoRound, seen.current_round}
  /\ seen.phase \in RECOVER_PHASES \cup {"awaiting_review", "accepted"}
  /\ ~live_blockers(TRUE)
  /\ seen.current_round < MaxRevisions

\* revise_transaction with the options the session was opened with, or with
\* no session alive to refresh.
cmd_revise(graceOver, outcome) ==
  LET seen == Reconciled(graceOver)
  IN  /\ Exists
      /\ MayRevise(seen, NoRound)
      /\ \E timeout \in Timeout : Relaunch(seen, timeout, outcome)
      /\ UNCHANGED <<handled, cli, command, unowned>>

-----------------------------------------------------------------------------
(* close_idle, for an accept or for a revise that changes the options.     *)

Goes(c, at) == command' = [command EXCEPT ![c].at = at]

\* A revise that changes the options, while the session is alive: the first
\* revise_transaction raises sdk_scope_changed.
ScopeChanged(c) ==
  /\ command[c].at = "idle"
  /\ MayRevise(job, NoRound)
  /\ WorkerAlive(job.sdk_worker)
  /\ command' = [command EXCEPT ![c] =
       [IdleCommand EXCEPT !.at = "refreshing", !.does = "revise",
                           !.expected = job.current_round]]
  /\ UNCHANGED <<job, worker, handled, cli, unowned>>

\* First lock of close_idle: the round is the one the caller names, and is
\* reviewed.
Fence(c, does) ==
  /\ IF does = "accept"
     THEN command[c].at = "idle"
     ELSE command[c].at = "refreshing" /\ command[c].expected = job.current_round
  /\ job.phase = "awaiting_review"
  /\ job' = [job EXCEPT !.sdk_closing = TRUE]
  /\ command' = [command EXCEPT ![c] =
       [at |-> "waiting", does |-> does, expected |-> job.current_round,
        worker |-> job.sdk_worker, targets |-> {}]]
  /\ UNCHANGED <<worker, handled, cli, unowned>>

\* The worker has gone within eight seconds.
SeesItGone(c) ==
  /\ command[c].at = "waiting"
  /\ ~WorkerAlive(command[c].worker)
  /\ Goes(c, "confirming")
  /\ UNCHANGED <<job, worker, handled, cli, unowned>>

\* What SIGTERM does to a worker: the task is cancelled where it awaits.
AfterCancel(state) ==
  IF state = "boot" THEN "gone"
  ELSE IF state \in {"claimed", "launching", "spawned"} THEN "aborting"
  ELSE IF state = "working" THEN "cancelled"
  ELSE IF state = "idle" THEN "closing"
  ELSE state

\* terminate_recorded on a worker: it may also be killed, or outlive both.  One
\* that is cancelled inside the connect withdraws its launch, as SpawnCli does
\* when the CLI cannot be spawned.
TerminateWorker(w) ==
  \/ UNCHANGED worker
  \/ /\ worker[w] \in WorkerLive \ {"launching"}
     /\ worker' = [worker EXCEPT ![w] = AfterCancel(@)]
  \/ /\ worker[w] \in WorkerLive
     /\ worker' = [worker EXCEPT ![w] = "gone"]

\* Eight seconds have passed and the worker is still there.
GivesUpWaiting(c) ==
  /\ command[c].at = "waiting"
  /\ WorkerAlive(command[c].worker)
  /\ TerminateWorker(command[c].worker)
  /\ Goes(c, "confirming")
  /\ UNCHANGED <<job, handled, cli, unowned>>

\* Second lock: nothing of the job may be left.
Confirm(c) ==
  /\ command[c].at = "confirming"
  /\ IF live_blockers(FALSE) THEN command' = [command EXCEPT ![c] = IdleCommand]
                             ELSE Goes(c, "closed")
  /\ UNCHANGED <<job, worker, handled, cli, unowned>>

\* cmd_accept, its own lock: still the reviewed round.
MayAccept(expected) ==
  /\ expected = job.current_round
  /\ job.phase = "awaiting_review"
  /\ Current.verification = "ok"

Accept(c) ==
  /\ command[c].at = "closed" /\ command[c].does = "accept"
  /\ \E graceOver \in BOOLEAN :
       job' = IF MayAccept(command[c].expected) THEN [job EXCEPT !.phase = "accepted"]
              ELSE IF command[c].expected = job.current_round THEN Reconciled(graceOver)
              ELSE job
  /\ command' = [command EXCEPT ![c] = IdleCommand]
  /\ UNCHANGED <<worker, handled, cli, unowned>>

\* The second revise_transaction, bound to the round of the first.
ReviseClosed(c, outcome) ==
  /\ command[c].at = "closed" /\ command[c].does = "revise"
  /\ \E graceOver \in BOOLEAN, timeout \in Timeout :
       LET seen == Reconciled(graceOver)
       IN  IF MayRevise(seen, command[c].expected) THEN Relaunch(seen, timeout, outcome)
                                                  ELSE job' = seen /\ UNCHANGED worker
  /\ command' = [command EXCEPT ![c] = IdleCommand]
  /\ UNCHANGED <<handled, cli, unowned>>

-----------------------------------------------------------------------------
(* cmd_stop.                                                               *)

RequestStop(c) ==
  /\ command[c].at = "idle"
  /\ Exists
  /\ job' = [job EXCEPT !.stop_requested = TRUE]
  /\ command' = [command EXCEPT ![c] =
       [IdleCommand EXCEPT !.at = "stopping",
          !.targets = {t \in Target : \E i \in Round : t.id = job.rounds[i][t.process]}]]
  /\ UNCHANGED <<worker, handled, cli, unowned>>

\* Round by round, and the CLI of a round before its worker.
Before(t, u) == t.id < u.id \/ (t.id = u.id /\ t.process = "claude")

\* No lock: terminate_recorded on each listed process.
Signal(c) ==
  /\ command[c].at = "stopping"
  /\ \E t \in command[c].targets :
       /\ \A u \in command[c].targets \ {t} : Before(t, u)
       /\ command' = [command EXCEPT ![c].targets = @ \ {t}]
       /\ \/ /\ t.process = "worker" /\ TerminateWorker(t.id)
             /\ UNCHANGED cli
          \/ /\ t.process = "claude" /\ cli[t.id] = "live"
             /\ cli' = [cli EXCEPT ![t.id] = "gone"]
             /\ UNCHANGED worker
          \/ /\ t.process = "claude"
             /\ UNCHANGED <<worker, cli>>
  /\ UNCHANGED <<job, handled, unowned>>

\* Mutant: a stop releases the checkout whatever is left.
stop_ignores_remaining(remaining) ==
  [job EXCEPT !.phase = IF @ = "accepted" THEN @ ELSE "stopped",
              !.rounds[job.current_round].finalized = TRUE]

stop_transition(remaining) ==
  IF remaining
  THEN [job EXCEPT !.phase = IF @ \in TERMINAL_DECISION_PHASES THEN @ ELSE "needs_attention"]
  ELSE [job EXCEPT !.phase = IF @ = "accepted" THEN @ ELSE "stopped",
                   !.rounds[job.current_round].finalized = TRUE]

FinishStop(c) ==
  /\ command[c].at = "stopping" /\ command[c].targets = {}
  /\ job' = stop_transition(live_blockers(FALSE))
  /\ command' = [command EXCEPT ![c] = IdleCommand]
  /\ UNCHANGED <<worker, handled, cli, unowned>>

\* A command's process dies, or it is refused, between two of its steps.
CommandDies(c) ==
  /\ command[c].at # "idle"
  /\ command' = [command EXCEPT ![c] = IdleCommand]
  /\ UNCHANGED <<job, worker, handled, cli, unowned>>

-----------------------------------------------------------------------------
(* The worker launched for round w.                                        *)

Becomes(w, state) == worker' = [worker EXCEPT ![w] = state]

\* How a worker that must not go on leaves: before its client exists it just
\* returns, afterwards it leaves the client's context.
Leaves(w) == Becomes(w, IF worker[w] = "boot" THEN "gone" ELSE "closing")

\* Mutant: the worker does not look at the fence.
FenceIgnored == Decided

\* claim_round, its first test.
MustStop == Decided \/ job.sdk_closing

\* The round is this worker's to claim.
Claimable(w) ==
  /\ worker[w] = "boot" => job.current_round = w
  /\ job.sdk_worker = w
  /\ Current.worker = w
  /\ ~Current.claim_consumed

\* claim_round, once per launch and once per turn of the idle loop.
ClaimRound(w) ==
  /\ worker[w] \in {"boot", "idle"}
  /\ LET i == job.current_round
     IN  \/ /\ MustStop
            /\ Leaves(w)
            /\ UNCHANGED <<job, handled>>
         \/ /\ ~MustStop /\ handled[w] < i /\ ~Claimable(w)
            /\ Leaves(w)
            /\ UNCHANGED <<job, handled>>
         \/ /\ ~MustStop /\ handled[w] < i /\ Claimable(w)  \* quota or inputs refuse
            /\ job' = [job EXCEPT !.phase = "needs_attention",
                                  !.rounds[i].claim_consumed = TRUE,
                                  !.rounds[i].finalized = TRUE]
            /\ Leaves(w)
            /\ UNCHANGED handled
         \/ /\ ~MustStop /\ handled[w] < i /\ Claimable(w)
            /\ job' = [job EXCEPT !.phase = "running",
                                  !.rounds[i].claim_consumed = TRUE,
                                  !.rounds[i].claude =
                                     IF job.sdk_claude # NoProcess THEN job.sdk_claude ELSE @]
            /\ handled' = [handled EXCEPT ![w] = i]
            /\ Becomes(w, IF worker[w] = "boot" THEN "claimed" ELSE "working")
  /\ UNCHANGED <<cli, command, unowned>>

\* preflight, or anything before the claim, raises: finalize_worker_failure.
BootFails(w) ==
  /\ worker[w] = "boot"
  /\ job' = IF job.current_round = w /\ ~Current.finalized /\ ~Decided
            THEN [job EXCEPT !.phase = "needs_attention", !.rounds[w].finalized = TRUE,
                             !.rounds[w].verification = "failed"]
            ELSE job
  /\ Becomes(w, "gone")
  /\ UNCHANGED <<handled, cli, command, unowned>>

\* EvidenceTransport.connect, under the lock: a stop still prevents the launch.
PendLaunch(w) ==
  /\ worker[w] = "claimed"
  /\ IF job.stop_requested
     THEN Becomes(w, "aborting") /\ UNCHANGED job
     ELSE /\ Becomes(w, "launching")
          /\ job' = [job EXCEPT !.rounds[handled[w]].claude_launch_pending = TRUE]
  /\ UNCHANGED <<handled, cli, command, unowned>>

\* The SDK spawns the CLI, or it fails to or is cancelled by a SIGTERM, and the
\* pending launch is withdrawn.
SpawnCli(w) ==
  /\ worker[w] = "launching"
  /\ \/ /\ cli' = [cli EXCEPT ![w] = "live"]
        /\ Becomes(w, "spawned")
        /\ UNCHANGED job
     \/ /\ job' = [job EXCEPT !.rounds[handled[w]].claude_launch_pending = FALSE]
        /\ Becomes(w, "aborting")
        /\ UNCHANGED cli
  /\ UNCHANGED <<handled, command, unowned>>

\* Mutant: a round that names a CLI keeps it.
RegisteredOnce(w) ==
  [job EXCEPT !.sdk_claude = w,
              !.rounds[handled[w]].claude = IF @ = NoProcess THEN w ELSE @,
              !.rounds[handled[w]].claude_launch_pending = FALSE]

Registered(w) ==
  [job EXCEPT !.sdk_claude = w, !.rounds[handled[w]].claude = w,
              !.rounds[handled[w]].claude_launch_pending = FALSE]

\* register_cli: an identity that cannot be verified is not recorded, and the
\* launch stays pending.
RegisterCli(w) ==
  /\ worker[w] = "spawned"
  /\ \/ job' = Registered(w) /\ Becomes(w, "working")
     \/ Becomes(w, "aborting") /\ UNCHANGED job
  /\ UNCHANGED <<handled, cli, command, unowned>>

Finalized(w, verdict) ==
  [job EXCEPT !.phase = IF Decided THEN @
                        ELSE IF verdict = "ok" THEN "awaiting_review" ELSE "needs_attention",
              !.rounds[handled[w]].finalized = TRUE,
              !.rounds[handled[w]].verification = verdict]

\* execute_round, finalize: the result and the history agree, or they do not,
\* the round raised or it timed out.
FinishRound(w, verdict) ==
  /\ worker[w] = "working" /\ verdict # "none"
  /\ verdict = "ok" => cli[w] = "live"
  /\ job' = Finalized(w, verdict)
  /\ Becomes(w, IF verdict = "ok" THEN "idle" ELSE "closing")
  /\ UNCHANGED <<handled, cli, command, unowned>>

\* The round ended without a connected client: run finalizes it as failed.
FailRound(w) ==
  /\ worker[w] = "aborting"
  /\ job' = Finalized(w, "failed")
  /\ Becomes(w, "gone")
  /\ UNCHANGED <<handled, cli, command, unowned>>

\* Leaving the client's context disconnects, and so ends, the CLI.
CloseClient(w) ==
  /\ worker[w] \in {"closing", "cancelled"}
  /\ Becomes(w, IF worker[w] = "closing" THEN "gone" ELSE "aborting")
  /\ cli' = [cli EXCEPT ![w] = "gone"]
  /\ UNCHANGED <<job, handled, command, unowned>>

\* Mutant: output of a session that is being closed is let through.
SealedPhase == job.phase = "awaiting_review" /\ ~job.sdk_closing

\* tap, between rounds: assistant output that belongs to no round.
Sealed == job.phase = "awaiting_review"

IdleOutput(w) ==
  /\ worker[w] \in {"idle", "closing"} /\ cli[w] = "live"
  /\ IF Sealed
     THEN job' = [job EXCEPT !.phase = "needs_attention"] /\ Becomes(w, "closing")
     ELSE UNCHANGED <<job, worker>>
  /\ unowned' = unowned \cup {handled[w]}
  /\ UNCHANGED <<handled, cli, command>>

-----------------------------------------------------------------------------
(* The operating system.                                                   *)

WorkerDies(w) ==
  /\ worker[w] \in WorkerLive
  /\ Becomes(w, "gone")
  /\ UNCHANGED <<job, handled, cli, command, unowned>>

\* A CLI may end whenever it likes, also long after its worker.
CliExits(w) ==
  /\ cli[w] = "live"
  /\ cli' = [cli EXCEPT ![w] = "gone"]
  /\ UNCHANGED <<job, worker, handled, command, unowned>>

-----------------------------------------------------------------------------
EndsRound(w) == \E verdict \in Verdict : FinishRound(w, verdict)

\* Everything a worker does but for the end of a round it is at work on.
Proceeds(w) ==
  \/ ClaimRound(w) \/ PendLaunch(w) \/ SpawnCli(w) \/ RegisterCli(w)
  \/ FailRound(w) \/ CloseClient(w)

WorkerStep(w) == Proceeds(w) \/ EndsRound(w)

CloseStep(c) ==
  SeesItGone(c) \/ GivesUpWaiting(c) \/ Confirm(c) \/ Accept(c)
    \/ \E outcome \in LaunchOutcome : ReviseClosed(c, outcome)

Next ==
  \/ \E outcome \in LaunchOutcome : cmd_start(outcome)
  \/ \E graceOver \in BOOLEAN : cmd_status(graceOver)
  \/ \E graceOver \in BOOLEAN, outcome \in LaunchOutcome : cmd_revise(graceOver, outcome)
  \/ \E c \in Command : \/ ScopeChanged(c)
                        \/ \E does \in {"accept", "revise"} : Fence(c, does)
                        \/ CloseStep(c)
                        \/ RequestStop(c) \/ Signal(c) \/ FinishStop(c) \/ CommandDies(c)
  \/ \E w \in Round : \/ WorkerStep(w)
                      \/ BootFails(w) \/ IdleOutput(w) \/ WorkerDies(w) \/ CliExits(w)

Spec == Init /\ [][Next]_vars

\* The CLI runs on and no deadline will cut it: asyncio.timeout(None).
RunsOn(w) == worker[w] = "working" /\ job.timeout = "unlimited" /\ cli[w] = "live"

\* The SDK's calls return, and somebody polls.  A round ends when its stream
\* ends or its deadline, if it has one, passes.
FairSpec ==
  /\ Spec
  /\ \A w \in Round : /\ WF_vars(Proceeds(w)) /\ WF_vars(BootFails(w))
                       /\ WF_vars(~RunsOn(w) /\ EndsRound(w))
  /\ WF_vars(cmd_status(TRUE))

-----------------------------------------------------------------------------
(* Properties.                                                             *)

\* Every variable has its type, and a claim is of an opened round.
TypeOK ==
  /\ job \in JobRecords
  /\ worker \in [Round -> WorkerState]
  /\ handled \in [Round -> Round \cup {NoRound}]
  /\ cli \in [Round -> {"none", "live", "gone"}]
  /\ command \in [Command -> CommandState]
  /\ unowned \subseteq Round

\* A job never has two workers that are past their claim: a revise that finds
\* the session's worker alive uses it, and starts one only when it is gone.
OneSupervisedSession ==
  \A v, w \in Round : worker[v] \in Session /\ worker[w] \in Session => v = w

\* A worker at work is at work on the current round, which nobody decided or
\* finalized meanwhile: neither a stop, a close nor a revise gets past it.
WorkIsOnTheCurrentRound ==
  \A w \in Round :
    worker[w] \in Working => handled[w] = job.current_round /\ ~Current.finalized

\* A round that was verified names the worker that handled it, so the next
\* revise and the reviewer look at the processes that did the work.
VerifiedRoundNamesItsSession ==
  \A i \in Round :
    job.rounds[i].verification = "ok" =>
      \E w \in Round : /\ handled[w] >= i /\ job.rounds[i].worker = w
                       /\ job.rounds[i].claude = w

\* No worker of the job is past its claim and no CLI the job recorded is alive.
NobodyIsLeft ==
  /\ \A w \in Round : worker[w] \notin Session
  /\ \A i \in Round : ~CliAlive(job.rounds[i].claude)

\* An accepted round closed its session, and what is accepted is all that
\* session did: no assistant output came after the round's seal ("A sealed round
\* must not acquire unowned follow-up work").
AcceptedIsSealed ==
  job.phase = "accepted" => NobodyIsLeft /\ job.current_round \notin unowned

\* Once close_idle has raised its fence the session ends, also when the command
\* that raised it dies before it waits or signals: "The worker observes the
\* fence and closes the SDK itself".
FencedSessionEnds ==
  \A w \in Round :
    job.sdk_closing /\ job.sdk_worker = w /\ worker[w] \in Session ~> worker[w] = "gone"

\* A stop that nobody finishes leaves a round finalized and the job busy.
StopLost == job.stop_requested /\ Current.finalized

\* A job that is polled does not stay busy for ever, unless its stop was lost
\* or its CLI runs on without a timeout.
BusySessionSettles ==
  <>[](job.phase \in BUSY_PHASES) => <>[]StopLost \/ \E w \in Round : <>[]RunsOn(w)

\* docs: live_blockers lists "Everything that must be provably gone before a
\* new round may launch", and revise is "never permission to start a second
\* Claude beside one that may still be live": a session is started with no CLI
\* of the job running.
NewSessionStartsAlone ==
  [][\A w \in Round : worker[w] = "none" /\ worker'[w] = "boot" =>
        \A v \in Round : cli[v] # "live"]_vars

-----------------------------------------------------------------------------
(* The inductive invariant.                                                *)

\* Before the start there is nothing.
NotStarted ==
  job.phase = ABSENT =>
    /\ \A w \in Round : worker[w] = "none"
    /\ \A c \in Command : command[c].at = "idle"
    /\ Current = NewRound

\* A worker past its claim is the one the job names.
SessionIsRecorded ==
  \A w \in Round : worker[w] \in Session => job.sdk_worker = w /\ handled[w] \in Round

LaterRoundsHaveNoWorker ==
  \A w \in Round : w > job.current_round => worker[w] = "none"

\* A worker that has just been launched shares its round with nobody.
BootedRoundIsItsOwn ==
  worker[job.current_round] = "boot" => Current.worker \in {job.current_round, NoProcess}

WorkIsClaimed ==
  \A w \in Round : worker[w] \in Working =>
    /\ handled[w] = job.current_round
    /\ ~Current.finalized /\ Current.claim_consumed /\ Current.worker = w

\* A round that was finalized before its claim will not be claimed.
UnclaimedIsOver ==
  Current.finalized /\ ~Current.claim_consumed =>
    \/ Decided
    \/ Current.worker = NoProcess
    \/ worker[Current.worker] \notin WorkerLive

CliIsRecorded ==
  \A w \in Round :
    /\ worker[w] \in {"working", "idle"} => job.sdk_claude = w
    /\ worker[w] = "working" => Current.claude = w

VerifiedIsFinalized ==
  \A i \in Round :
    job.rounds[i].verification = "ok" => job.rounds[i].finalized /\ i <= job.current_round

IInv ==
  /\ TypeOK
  /\ NotStarted
  /\ SessionIsRecorded
  /\ LaterRoundsHaveNoWorker
  /\ BootedRoundIsItsOwn
  /\ WorkIsClaimed
  /\ UnclaimedIsOver
  /\ CliIsRecorded
  /\ VerifiedIsFinalized
  /\ VerifiedRoundNamesItsSession

\* What the seal of an accepted round rests on.  A worker past its claim is the
\* one recorded in the round it claimed last, so live_blockers sees it.
ClaimsAreRecorded ==
  \A w \in Round :
    /\ handled[w] <= job.current_round
    /\ handled[w] = job.current_round => Current.claim_consumed
    /\ worker[w] \in Session => job.rounds[handled[w]].worker = w

ReviewedIsClaimed == job.phase = "awaiting_review" => Current.claim_consumed

\* A round with output after its seal is not under review and will not be again.
UnownedIsOver ==
  /\ \A i \in unowned : i <= job.current_round
  /\ job.current_round \in unowned =>
       /\ Current.claim_consumed /\ job.phase # "awaiting_review"
       /\ \A w \in Round : worker[w] \notin Working

\* A command past the fence is about a claimed round, or one that is superseded.
ClosedForGood ==
  \A c \in Command : command[c].at \in {"waiting", "confirming", "closed"} =>
    /\ command[c].expected <= job.current_round
    /\ command[c].expected = job.current_round =>
         Current.claim_consumed /\ (command[c].at = "closed" => NobodyIsLeft)

SealInv ==
  /\ ClaimsAreRecorded
  /\ ReviewedIsClaimed
  /\ UnownedIsOver
  /\ ClosedForGood
  /\ AcceptedIsSealed
=============================================================================
