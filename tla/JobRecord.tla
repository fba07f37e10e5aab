------------------------------ MODULE JobRecord ------------------------------
(***************************************************************************)
(* The persisted job record (job.json) and the transitions the program     *)
(* applies to it in memory before one atomic save: round creation,         *)
(* completion, acceptance, stop, worker failure and crash reconciliation.  *)
(* They are functions from record to record; the locks, the processes and  *)
(* the order in which they run are in the modules that use this one.       *)
(*                                                                         *)
(* Left out, because no property depends on it: session ids, prompts,      *)
(* evidence paths, timestamps, quota, process_state and attention, which   *)
(* are diagnostics that never grant or release a reservation.              *)
(***************************************************************************)
EXTENDS Naturals, JobPhases

CONSTANTS
  Key,          \* reservation keys: what a job's checkout is known by
  NoKey,        \* the key of a job that does not exist yet
  MaxRevisions  \* the max_revisions limit of every job

ASSUME MaxRevisionsAssumption == MaxRevisions \in Nat

\* rounds is a list that revise appends to; index 0 is the initial round and
\* revisions_used is always the index of the last one.
Round == 0 .. MaxRevisions

\* The worker that launch_transaction spawns for a round, and one that replays
\* the private _worker command line of the same round.
Slot == {"launched", "replayed"}

\* A captured process identity names the process and tells whether its run
\* token was seen in its command line before the settle time ran out.
Identity == [slot : Slot \cup {"none"}, identity_verified : BOOLEAN]
NoIdentity == [slot |-> "none", identity_verified |-> FALSE]

\* What the transport's verifier says of a finished invocation: every signal
\* agrees; only transcript reasons that revalidate may explain; a demonstrable
\* failure; only ambiguous ("soft") reasons; the wall clock ran out.
Verdict == {"ok", "placeholder", "failed", "soft", "timeout"}

Status == {"none", "launching", "running", "not_started", "stopped",
           "interrupted", "done", "timeout", "failed"}

RoundRecord ==
  [status : Status, claim_consumed : BOOLEAN, finalized : BOOLEAN,
   worker : Identity, claude : Identity, claude_launch_pending : BOOLEAN,
   verification : Verdict \cup {"none"}, revalidated : BOOLEAN]

NewRound ==
  [status |-> "launching", claim_consumed |-> FALSE, finalized |-> FALSE,
   worker |-> NoIdentity, claude |-> NoIdentity, claude_launch_pending |-> FALSE,
   verification |-> "none", revalidated |-> FALSE]

\* An index of Round that revise has not reached.
NoRound == [NewRound EXCEPT !.status = "none"]

\* The --timeout of a job: a number of seconds, or none ("unlimited", which is
\* the default).  start sets it and a revise may keep or change it.
Timeout == {"finite", "unlimited"}

JobRecords ==
  [phase : Phase \cup {ABSENT}, reservation_key : Key \cup {NoKey},
   current_round : Round, stop_requested : BOOLEAN, timeout : Timeout,
   rounds : [Round -> RoundRecord]]

NoJob ==
  [phase |-> ABSENT, reservation_key |-> NoKey, current_round |-> 0,
   stop_requested |-> FALSE, timeout |-> "unlimited",
   rounds |-> [i \in Round |-> NoRound]]

Current(job) == job.rounds[job.current_round]

-----------------------------------------------------------------------------
\* The job cmd_start commits before it spawns the worker of round 0.
StartedJob(key, timeout) ==
  [phase |-> "starting", reservation_key |-> key, current_round |-> 0,
   stop_requested |-> FALSE, timeout |-> timeout,
   rounds |-> [i \in Round |-> IF i = 0 THEN NewRound ELSE NoRound]]

\* The job revise commits before it spawns the worker of the appended round.
RevisedJob(job, timeout) ==
  LET index == job.current_round + 1
  IN  [job EXCEPT !.phase = "starting",
                  !.current_round = index,
                  !.stop_requested = FALSE,
                  !.timeout = timeout,
                  !.rounds[index] = NewRound]

\* launch_transaction: Popen of the worker failed.
SpawnFailed(job) ==
  LET i == job.current_round
  IN  [job EXCEPT !.phase = "failed",
                  !.rounds[i] = [job.rounds[i] EXCEPT !.status = "not_started",
                                                      !.finalized = TRUE]]

\* launch_transaction: the spawned worker's identity is recorded.
WorkerRegistered(job, verified) ==
  LET i == job.current_round
  IN  [job EXCEPT !.rounds[i] = [job.rounds[i] EXCEPT
         !.worker = [slot |-> "launched", identity_verified |-> verified]]]

\* worker_run, first lock: the worker takes the single-use claim.
Claimed(job, i, slot, verified) ==
  [job EXCEPT !.phase = "running",
              !.rounds[i] = [job.rounds[i] EXCEPT
                 !.claim_consumed = TRUE,
                 !.status = "running",
                 !.worker = [slot |-> slot, identity_verified |-> verified]]]

\* worker_run, second lock: launch_checks refused (quota, inputs).
LaunchRefused(job, i) ==
  [job EXCEPT !.phase = "needs_attention",
              !.rounds[i] = [job.rounds[i] EXCEPT !.status = "not_started",
                                                  !.finalized = TRUE,
                                                  !.claude_launch_pending = FALSE]]

PendingLaunch(job, i, pending) ==
  [job EXCEPT !.rounds[i] = [job.rounds[i] EXCEPT !.claude_launch_pending = pending]]

\* worker_run, second lock: the provider's identity is recorded.
ClaudeRegistered(job, i, slot, verified) ==
  [job EXCEPT !.rounds[i] = [job.rounds[i] EXCEPT
     !.claude = [slot |-> slot, identity_verified |-> verified],
     !.claude_launch_pending = FALSE]]

\* An operator decision outranks whatever a worker has to report.
Decided(job) == job.phase \in TERMINAL_DECISION_PHASES \/ job.stop_requested

PhaseAfter(verdict) ==
  CASE verdict = "ok"   -> "awaiting_review"
    [] verdict = "soft" -> "needs_attention"
    [] OTHER            -> "failed"

StatusAfter(verdict) ==
  CASE verdict = "ok"      -> "done"
    [] verdict = "timeout" -> "timeout"
    [] OTHER               -> "failed"

complete_round(job, i, verdict) ==
  [job EXCEPT !.phase = IF Decided(job) THEN job.phase ELSE PhaseAfter(verdict),
              !.rounds[i] = [job.rounds[i] EXCEPT !.status = StatusAfter(verdict),
                                                  !.finalized = TRUE,
                                                  !.verification = verdict]]

finalize_worker_failure(job, i) ==
  IF job.rounds[i].finalized \/ Decided(job) THEN job
  ELSE [job EXCEPT !.phase = "needs_attention",
                   !.rounds[i] = [job.rounds[i] EXCEPT !.status = "failed",
                                                       !.finalized = TRUE,
                                                       !.verification = "soft"]]

apply_acceptance(job) == [job EXCEPT !.phase = "accepted"]

\* cmd_revalidate: the audit entry, and the fresh verdict when it passes.
Revalidated(job, passes) ==
  LET i == job.current_round
  IN  IF passes
      THEN [job EXCEPT !.phase = "awaiting_review",
                       !.rounds[i] = [job.rounds[i] EXCEPT !.status = "done",
                                                           !.verification = "ok",
                                                           !.revalidated = TRUE]]
      ELSE [job EXCEPT !.rounds[i] = [job.rounds[i] EXCEPT !.revalidated = TRUE]]

\* Mutant: a stop turns an accepted job into a stopped one.
stop_forgets_acceptance(job, remaining) ==
  LET i == job.current_round
  IN  IF remaining THEN [job EXCEPT !.phase = "needs_attention"]
      ELSE [job EXCEPT !.phase = "stopped",
                       !.rounds[i] = [job.rounds[i] EXCEPT !.finalized = TRUE]]

\* Mutant: a stop releases the checkout whatever is still running.
stop_ignores_remaining(job, remaining) ==
  [job EXCEPT !.phase = IF job.phase = "accepted" THEN "accepted" ELSE "stopped"]

stop_transition(job, remaining) ==
  LET i == job.current_round
      stopped == IF job.phase = "accepted" THEN "accepted" ELSE "stopped"
      blocked == IF job.phase \in TERMINAL_DECISION_PHASES THEN job.phase ELSE "needs_attention"
  IN  CASE remaining -> [job EXCEPT !.phase = blocked]
        [] ~remaining /\ job.rounds[i].finalized -> [job EXCEPT !.phase = stopped]
        [] OTHER -> [job EXCEPT !.phase = stopped,
                                !.rounds[i] = [job.rounds[i] EXCEPT !.status = "stopped",
                                                                    !.finalized = TRUE]]

\* graceOver: LAUNCH_GRACE_SECONDS have passed since the round was created.
reconcile(job, graceOver, workerGone, claudeGone) ==
  LET i == job.current_round
      record == job.rounds[i]
  IN  CASE \/ job.phase \notin BUSY_PHASES
           \/ record.finalized
           \/ record.status = "launching" /\ ~graceOver
           \/ ~workerGone -> job
        [] OTHER ->
           IF ~claudeGone \/ record.claude_launch_pending \/ record.worker = NoIdentity
           THEN [job EXCEPT !.phase = "needs_attention"]
           ELSE [job EXCEPT !.phase = "interrupted",
                            !.rounds[i] = [record EXCEPT !.status = "interrupted"]]
=============================================================================
