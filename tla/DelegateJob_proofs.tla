-------------------------- MODULE DelegateJob_proofs --------------------------
(* The safety of the job lifecycle, for any jobs, keys, controllers, revision *)
(* limit and environment: types, the inductive invariant and what follows     *)
(* from it.  No step of a command, a worker, a crash or the kernel breaks the *)
(* reservation, the single launch or the fences around stop and recovery; and *)
(* the lifecycle implements the abstract checkout reservation.                *)
EXTENDS DelegateJob, TLAPS

-----------------------------------------------------------------------------
(* Types of the record transitions.                                          *)

LEMMA NewRoundType == NewRound \in RoundRecord /\ NoRound \in RoundRecord
BY DEF NewRound, NoRound, RoundRecord, Status, Identity, NoIdentity

LEMMA StartedJobType ==
  ASSUME NEW key \in Key, NEW timeout \in Timeout
  PROVE  StartedJob(key, timeout) \in JobRecords
BY NewRoundType, MaxRevisionsAssumption
   DEF StartedJob, JobRecords, Phase, RESERVING_PHASES, Round, Timeout

LEMMA RevisedJobType ==
  ASSUME NEW rec \in JobRecords, rec.current_round < MaxRevisions, NEW timeout \in Timeout
  PROVE  RevisedJob(rec, timeout) \in JobRecords
<1> DEFINE index == rec.current_round + 1
           rounds == [rec.rounds EXCEPT ![index] = NewRound]
<1>1. index \in Round
  BY MaxRevisionsAssumption DEF JobRecords, Round
<1>2. rounds \in [Round -> RoundRecord]
  BY <1>1, NewRoundType DEF JobRecords
<1>3. RevisedJob(rec, timeout) = [rec EXCEPT !.phase = "starting", !.current_round = index,
                                             !.stop_requested = FALSE, !.timeout = timeout,
                                             !.rounds = rounds]
  BY DEF RevisedJob
<1> HIDE DEF index, rounds
<1> QED
  BY <1>1, <1>2, <1>3 DEF JobRecords, Phase, RESERVING_PHASES

LEMMA CurrentType ==
  ASSUME NEW rec \in JobRecords
  PROVE  /\ rec.current_round \in Round
         /\ \A i \in Round : rec.rounds[i] \in RoundRecord
BY DEF JobRecords


\* Any change of the phase, of one round's record or of both keeps the type.
LEMMA UpdateType ==
  ASSUME NEW rec \in JobRecords
  PROVE  /\ \A ph \in Phase \cup {ABSENT} : [rec EXCEPT !.phase = ph] \in JobRecords
         /\ \A i \in Round, r \in RoundRecord :
              /\ [rec EXCEPT !.rounds[i] = r] \in JobRecords
              /\ \A ph \in Phase \cup {ABSENT} : [rec EXCEPT !.phase = ph, !.rounds[i] = r] \in JobRecords
BY DEF JobRecords

\* The field updates of a round that the transitions make.
LEMMA RoundUpdateType ==
  ASSUME NEW r \in RoundRecord
  PROVE  /\ [r EXCEPT !.revalidated = TRUE] \in RoundRecord
         /\ \A b \in BOOLEAN : [r EXCEPT !.claude_launch_pending = b] \in RoundRecord
         /\ \A st \in Status :
              /\ [r EXCEPT !.status = st] \in RoundRecord
              /\ [r EXCEPT !.status = st, !.finalized = TRUE] \in RoundRecord
              /\ [r EXCEPT !.status = st, !.finalized = TRUE,
                           !.claude_launch_pending = FALSE] \in RoundRecord
         /\ \A st \in Status, v \in Verdict :
              /\ [r EXCEPT !.status = st, !.finalized = TRUE, !.verification = v] \in RoundRecord
              /\ [r EXCEPT !.status = st, !.verification = v, !.revalidated = TRUE] \in RoundRecord
         /\ \A id \in Identity :
              /\ [r EXCEPT !.worker = id] \in RoundRecord
              /\ [r EXCEPT !.claude = id, !.claude_launch_pending = FALSE] \in RoundRecord
              /\ \A st \in Status :
                   [r EXCEPT !.claim_consumed = TRUE, !.status = st, !.worker = id] \in RoundRecord
BY DEF RoundRecord

\* Every transition of the record keeps its type.
LEMMA TransitionType ==
  ASSUME NEW rec \in JobRecords, NEW i \in Round, NEW s \in Slot,
         NEW b \in BOOLEAN, NEW verdict \in Verdict
  PROVE  /\ SpawnFailed(rec) \in JobRecords
         /\ WorkerRegistered(rec, b) \in JobRecords
         /\ Claimed(rec, i, s, b) \in JobRecords
         /\ LaunchRefused(rec, i) \in JobRecords
         /\ PendingLaunch(rec, i, b) \in JobRecords
         /\ ClaudeRegistered(rec, i, s, b) \in JobRecords
         /\ complete_round(rec, i, verdict) \in JobRecords
         /\ finalize_worker_failure(rec, i) \in JobRecords
         /\ apply_acceptance(rec) \in JobRecords
         /\ Revalidated(rec, b) \in JobRecords
         /\ stop_transition(rec, b) \in JobRecords
<1> DEFINE c == rec.current_round
           r == rec.rounds[i]
           cur == rec.rounds[c]
<1>1. c \in Round /\ r \in RoundRecord /\ cur \in RoundRecord
  BY CurrentType
<1>2. \A st \in {"not_started", "running", "stopped", "done", "timeout", "failed"} :
        st \in Status
  BY DEF Status
<1>3. /\ [slot |-> "launched", identity_verified |-> b] \in Identity
      /\ [slot |-> s, identity_verified |-> b] \in Identity
  BY DEF Identity, Slot
<1>4. \A ph \in {"failed", "running", "needs_attention", "accepted", "stopped", "awaiting_review"} :
        ph \in Phase
  BY DEF Phase, RESERVING_PHASES, TERMINAL_DECISION_PHASES
<1>5. SpawnFailed(rec) \in JobRecords
  <2>1. [cur EXCEPT !.status = "not_started", !.finalized = TRUE] \in RoundRecord
    BY <1>1, <1>2, RoundUpdateType
  <2> QED
    BY <1>1, <2>1, <1>4, UpdateType DEF SpawnFailed
<1>6. WorkerRegistered(rec, b) \in JobRecords
  <2>1. [cur EXCEPT !.worker = [slot |-> "launched", identity_verified |-> b]] \in RoundRecord
    BY <1>1, <1>3, RoundUpdateType
  <2> QED
    BY <1>1, <2>1, UpdateType DEF WorkerRegistered
<1>7. Claimed(rec, i, s, b) \in JobRecords
  <2>1. [r EXCEPT !.claim_consumed = TRUE, !.status = "running",
                  !.worker = [slot |-> s, identity_verified |-> b]] \in RoundRecord
    BY <1>1, <1>2, <1>3, RoundUpdateType
  <2> QED
    BY <2>1, <1>4, UpdateType DEF Claimed
<1>8. LaunchRefused(rec, i) \in JobRecords
  <2>1. [r EXCEPT !.status = "not_started", !.finalized = TRUE,
                  !.claude_launch_pending = FALSE] \in RoundRecord
    BY <1>1, <1>2, RoundUpdateType
  <2> QED
    BY <2>1, <1>4, UpdateType DEF LaunchRefused
<1>9. PendingLaunch(rec, i, b) \in JobRecords
  <2>1. [r EXCEPT !.claude_launch_pending = b] \in RoundRecord
    BY <1>1, RoundUpdateType
  <2> QED
    BY <2>1, UpdateType DEF PendingLaunch
<1>10. ClaudeRegistered(rec, i, s, b) \in JobRecords
  <2>1. [r EXCEPT !.claude = [slot |-> s, identity_verified |-> b],
                  !.claude_launch_pending = FALSE] \in RoundRecord
    BY <1>1, <1>3, RoundUpdateType
  <2> QED
    BY <2>1, UpdateType DEF ClaudeRegistered
<1>11. complete_round(rec, i, verdict) \in JobRecords
  <2>1. StatusAfter(verdict) \in Status /\ PhaseAfter(verdict) \in Phase
    BY <1>2, <1>4 DEF StatusAfter, PhaseAfter
  <2>2. [r EXCEPT !.status = StatusAfter(verdict), !.finalized = TRUE,
                  !.verification = verdict] \in RoundRecord
    BY <1>1, <2>1, RoundUpdateType
  <2>3. rec.phase \in Phase \cup {ABSENT}
    BY DEF JobRecords
  <2> QED
    BY <2>1, <2>2, <2>3, UpdateType DEF complete_round
<1>12. finalize_worker_failure(rec, i) \in JobRecords
  <2>1. [r EXCEPT !.status = "failed", !.finalized = TRUE, !.verification = "soft"] \in RoundRecord
    BY <1>1, <1>2, RoundUpdateType DEF Verdict
  <2> QED
    BY <2>1, <1>4, UpdateType DEF finalize_worker_failure
<1>13. apply_acceptance(rec) \in JobRecords
  BY <1>4, UpdateType DEF apply_acceptance
<1>14. Revalidated(rec, b) \in JobRecords
  <2>1. /\ [cur EXCEPT !.status = "done", !.verification = "ok", !.revalidated = TRUE] \in RoundRecord
        /\ [cur EXCEPT !.revalidated = TRUE] \in RoundRecord
    BY <1>1, <1>2, RoundUpdateType DEF Verdict
  <2> QED
    BY <1>1, <2>1, <1>4, UpdateType DEF Revalidated
<1>15. stop_transition(rec, b) \in JobRecords
  <2>1. [cur EXCEPT !.status = "stopped", !.finalized = TRUE] \in RoundRecord
    BY <1>1, <1>2, RoundUpdateType
  <2> QED
    BY <1>1, <2>1, <1>4, UpdateType DEF stop_transition, TERMINAL_DECISION_PHASES
<1> QED
  BY <1>5, <1>6, <1>7, <1>8, <1>9, <1>10, <1>11, <1>12, <1>13, <1>14, <1>15

LEMMA ReconcileType ==
  ASSUME NEW rec \in JobRecords, NEW g \in BOOLEAN, NEW w \in BOOLEAN, NEW p \in BOOLEAN
  PROVE  reconcile(rec, g, w, p) \in JobRecords
<1> DEFINE cur == rec.rounds[rec.current_round]
<1>1. rec.current_round \in Round /\ cur \in RoundRecord
  BY CurrentType
<1>2. [cur EXCEPT !.status = "interrupted"] \in RoundRecord
  BY <1>1, RoundUpdateType DEF Status
<1>3. "needs_attention" \in Phase /\ "interrupted" \in Phase
  BY DEF Phase, RESERVING_PHASES
<1> QED
  BY <1>1, <1>2, <1>3, UpdateType DEF reconcile

-----------------------------------------------------------------------------
(* Type correctness, action by action.                                       *)

\* One worker, one provider or one job changes, to a value of its type.
LEMMA VariableUpdateType ==
  ASSUME TypeOK
  PROVE  /\ \A j \in Job, i \in Round, state \in WorkerState : \A s :
              [worker EXCEPT ![j][i][s] = state] \in [Job -> [Round -> [Slot -> WorkerState]]]
         /\ \A j \in Job, i \in Round, state \in ProviderState : \A s :
              [provider EXCEPT ![j][i][s] = state] \in [Job -> [Round -> [Slot -> ProviderState]]]
         /\ \A j \in Job, rec \in JobRecords : [job EXCEPT ![j] = rec] \in [Job -> JobRecords]
BY DEF TypeOK

LEMMA JobType ==
  ASSUME TypeOK, NEW j \in Job
  PROVE  /\ job[j] \in JobRecords
         /\ job[j].current_round \in Round
         /\ \A i \in Round : job[j].rounds[i] \in RoundRecord
BY CurrentType DEF TypeOK

LEMMA ReconciledType ==
  ASSUME TypeOK, NEW j \in Job, NEW g \in BOOLEAN
  PROVE  Reconciled(j, g) \in JobRecords
<1>1. /\ WorkerGone(j, job[j].current_round) \in BOOLEAN
      /\ ClaudeGone(j, job[j].current_round) \in BOOLEAN
  BY DEF WorkerGone, ClaudeGone
<1> QED
  BY <1>1, JobType, ReconcileType DEF Reconciled

LEMMA InitType == Init => TypeOK
<1>1. NoJob \in JobRecords
  BY NewRoundType, MaxRevisionsAssumption DEF NoJob, JobRecords, Round, Timeout
<1> QED
  BY <1>1 DEF Init, TypeOK, WorkerState, ProviderState, IdleController

LEMMA LaunchType ==
  ASSUME TypeOK, NEW j \in Job, NEW committed \in JobRecords, NEW outcome,
         launch_transaction(j, committed, outcome)
  PROVE  TypeOK'
<1>1. /\ SpawnFailed(committed) \in JobRecords
      /\ WorkerRegistered(committed, outcome = "registered") \in JobRecords
  <2>1. 0 \in Round /\ "launched" \in Slot /\ "ok" \in Verdict /\ (outcome = "registered") \in BOOLEAN
    BY MaxRevisionsAssumption DEF Round, Slot, Verdict
  <2> QED
    BY <2>1, TransitionType
<1>2. job' \in [Job -> JobRecords]
  BY <1>1, VariableUpdateType, MaxRevisionsAssumption DEF launch_transaction, TypeOK
<1>3. worker' \in [Job -> [Round -> [Slot -> WorkerState]]]
  <2>1. committed.current_round \in Round /\ "launched" \in Slot /\ "boot" \in WorkerState
    BY CurrentType DEF Slot, WorkerState, WorkerLive
  <2> QED
    BY <2>1, VariableUpdateType DEF launch_transaction, TypeOK
<1> QED
  BY <1>2, <1>3 DEF launch_transaction, TypeOK

LEMMA CommandType ==
  ASSUME TypeOK, Command
  PROVE  TypeOK'
<1>1. ASSUME NEW j \in Job, NEW key \in Key, NEW timeout \in Timeout,
         NEW outcome, cmd_start(j, key, timeout, outcome)
      PROVE  TypeOK'
  BY <1>1, StartedJobType, LaunchType DEF cmd_start
<1>2. ASSUME NEW j \in Job, NEW graceOver \in BOOLEAN, cmd_status(j, graceOver)
      PROVE  TypeOK'
  BY <1>2, ReconciledType DEF cmd_status, TypeOK
<1>3. ASSUME NEW j \in Job, NEW graceOver \in BOOLEAN, NEW timeout \in Timeout, NEW outcome,
             revise_transaction(j, graceOver, timeout, outcome)
      PROVE  TypeOK'
  <2>1. Reconciled(j, graceOver) \in JobRecords
    BY ReconciledType
  <2>2. RevisedJob(Reconciled(j, graceOver), timeout) \in JobRecords
    BY <1>3, <2>1, RevisedJobType DEF revise_transaction
  <2> QED
    BY <1>3, <2>2, LaunchType DEF revise_transaction
<1>4. ASSUME NEW j \in Job, NEW passes \in BOOLEAN, cmd_revalidate(j, passes)
      PROVE  TypeOK'
  <2>1. 0 \in Round /\ "launched" \in Slot /\ "ok" \in Verdict
    BY MaxRevisionsAssumption DEF Round, Slot, Verdict
  <2>2. Revalidated(job[j], passes) \in JobRecords
    BY <2>1, JobType, TransitionType
  <2> QED
    BY <1>4, <2>2 DEF cmd_revalidate, TypeOK
<1>5. ASSUME NEW j \in Job, cmd_accept(j)
      PROVE  TypeOK'
  <2>1. 0 \in Round /\ "launched" \in Slot /\ "ok" \in Verdict /\ TRUE \in BOOLEAN
    BY MaxRevisionsAssumption DEF Round, Slot, Verdict
  <2>2. apply_acceptance(job[j]) \in JobRecords
    BY <2>1, JobType, TransitionType
  <2> QED
    BY <1>5, <2>2 DEF cmd_accept, TypeOK
<1> QED
  BY <1>1, <1>2, <1>3, <1>4, <1>5 DEF Command

LEMMA StopType ==
  ASSUME TypeOK, Stop
  PROVE  TypeOK'
<1>1. ASSUME NEW c \in Controller, NEW j \in Job, RequestStop(c, j)
      PROVE  TypeOK'
  <2>1. [job[j] EXCEPT !.stop_requested = TRUE] \in JobRecords
    BY JobType DEF JobRecords
  <2>2. job' = [job EXCEPT ![j] = [job[j] EXCEPT !.stop_requested = TRUE]]
    BY <1>1 DEF RequestStop, TypeOK
  <2>3. job' \in [Job -> JobRecords]
    BY <2>1, <2>2, VariableUpdateType
  <2>4. stopping' \in [Controller -> [job : Job \cup {NoJobId}, targets : SUBSET Target]]
    BY <1>1 DEF RequestStop, TypeOK
  <2> QED
    BY <1>1, <2>3, <2>4 DEF RequestStop, TypeOK
<1>2. ASSUME NEW c \in Controller, SignalTarget(c)
      PROVE  TypeOK'
  <2> DEFINE j == stopping[c].job
  <2>1. PICK t \in stopping[c].targets :
          /\ stopping' = [stopping EXCEPT ![c].targets = @ \ {t}]
          /\ \/ UNCHANGED <<worker, provider>>
             \/ /\ worker[j][t.round][t.identity.slot] \in WorkerLive
                /\ worker' = [worker EXCEPT ![j][t.round][t.identity.slot] = "gone"]
                /\ UNCHANGED provider
             \/ /\ provider[j][t.round][t.identity.slot] = "live"
                /\ provider' = [provider EXCEPT ![j][t.round][t.identity.slot] = "gone"]
                /\ UNCHANGED worker
          /\ UNCHANGED job
    BY <1>2 DEF SignalTarget
  <2>2. stopping' \in [Controller -> [job : Job \cup {NoJobId}, targets : SUBSET Target]]
    BY <2>1 DEF TypeOK
  <2>3. t.round \in Round /\ j \in Job \cup {NoJobId}
    BY DEF TypeOK, Target
  <2>4. worker' \in [Job -> [Round -> [Slot -> WorkerState]]]
    <3>1. CASE j \in Job
      <4>1. [worker EXCEPT ![j][t.round][t.identity.slot] = "gone"]
              \in [Job -> [Round -> [Slot -> WorkerState]]]
        BY <2>3, <3>1, VariableUpdateType DEF WorkerState
      <4> QED
        BY <2>1, <4>1 DEF TypeOK
    <3>2. CASE j = NoJobId
      BY <2>1, <3>2, NoJobIdAssumption DEF TypeOK
    <3> QED
      BY <2>3, <3>1, <3>2
  <2>5. provider' \in [Job -> [Round -> [Slot -> ProviderState]]]
    <3>1. CASE j \in Job
      <4>1. [provider EXCEPT ![j][t.round][t.identity.slot] = "gone"]
              \in [Job -> [Round -> [Slot -> ProviderState]]]
        BY <2>3, <3>1, VariableUpdateType DEF ProviderState
      <4> QED
        BY <2>1, <4>1 DEF TypeOK
    <3>2. CASE j = NoJobId
      BY <2>1, <3>2, NoJobIdAssumption DEF TypeOK
    <3> QED
      BY <2>3, <3>1, <3>2
  <2> QED
    BY <2>1, <2>2, <2>4, <2>5 DEF TypeOK
<1>3. ASSUME NEW c \in Controller, FinishStop(c)
      PROVE  TypeOK'
  <2> DEFINE j == stopping[c].job
  <2>1. j \in Job \cup {NoJobId}
    BY DEF TypeOK
  <2>2. stopping' \in [Controller -> [job : Job \cup {NoJobId}, targets : SUBSET Target]]
    BY <1>3 DEF FinishStop, TypeOK, IdleController
  <2>3. job' \in [Job -> JobRecords]
    <3>1. CASE j \in Job
      <4>1. 0 \in Round /\ "launched" \in Slot /\ "ok" \in Verdict
        BY MaxRevisionsAssumption DEF Round, Slot, Verdict
      <4>2. live_blockers(j) \in BOOLEAN
        BY DEF live_blockers
      <4>3. stop_transition(job[j], live_blockers(j)) \in JobRecords
        BY <3>1, <4>1, <4>2, JobType, TransitionType
      <4> QED
        BY <1>3, <4>3 DEF FinishStop, TypeOK
    <3>2. CASE j = NoJobId
      BY <1>3, <3>2, NoJobIdAssumption DEF FinishStop, TypeOK
    <3> QED
      BY <2>1, <3>1, <3>2
  <2> QED
    BY <1>3, <2>2, <2>3 DEF FinishStop, TypeOK
<1>4. ASSUME NEW c \in Controller, StopAbandoned(c)
      PROVE  TypeOK'
  BY <1>4 DEF StopAbandoned, TypeOK, IdleController
<1> QED
  BY <1>1, <1>2, <1>3, <1>4 DEF Stop

LEMMA WorkerStepType ==
  ASSUME TypeOK, NEW j \in Job, NEW i \in Round, NEW s \in Slot, WorkerStep(j, i, s)
  PROVE  TypeOK'
<1>1. \A state \in WorkerState : WorkerBecomes(j, i, s, state) =>
        worker' \in [Job -> [Round -> [Slot -> WorkerState]]]
  BY VariableUpdateType DEF WorkerBecomes
<1>2. {"gone", "claimed", "supervising", "failing", "reporting", "timed_out"} \subseteq WorkerState
  BY DEF WorkerState, WorkerLive
<1>3. "ok" \in Verdict /\ TRUE \in BOOLEAN /\ job[j] \in JobRecords
  BY JobType DEF Verdict
<1>4. CASE ClaimRound(j, i, s)
  <2>1. \A b \in BOOLEAN : Claimed(job[j], i, s, b) \in JobRecords
    BY <1>3, TransitionType
  <2>2. Captured \subseteq BOOLEAN
    BY DEF Captured
  <2>3. job' \in [Job -> JobRecords]
    BY <1>4, <2>1, <2>2 DEF ClaimRound, TypeOK
  <2>4. worker' \in [Job -> [Round -> [Slot -> WorkerState]]]
    BY <1>1, <1>2, <1>4 DEF ClaimRound
  <2> QED
    BY <1>4, <2>3, <2>4 DEF ClaimRound, TypeOK
<1>5. CASE LaunchProvider(j, i, s)
  <2>1. \A b \in BOOLEAN : /\ PendingLaunch(job[j], i, b) \in JobRecords
                           /\ ClaudeRegistered(job[j], i, s, b) \in JobRecords
                           /\ LaunchRefused(job[j], i) \in JobRecords
    BY <1>3, TransitionType
  <2>2. ASSUME NEW outcome, SpawnProvider(j, i, s, outcome)
        PROVE  /\ job' \in [Job -> JobRecords]
               /\ worker' \in [Job -> [Round -> [Slot -> WorkerState]]]
               /\ provider' \in [Job -> [Round -> [Slot -> ProviderState]]]
    <3>1. job' \in [Job -> JobRecords]
      BY <2>1, <2>2 DEF SpawnProvider, TypeOK
    <3>2. worker' \in [Job -> [Round -> [Slot -> WorkerState]]]
      BY <1>1, <1>2, <2>2 DEF SpawnProvider
    <3>3. provider' \in [Job -> [Round -> [Slot -> ProviderState]]]
      BY <2>2 DEF SpawnProvider, TypeOK, ProviderState
    <3> QED
      BY <3>1, <3>2, <3>3
  <2>3. job' \in [Job -> JobRecords]
    BY <1>5, <2>1, <2>2, VariableUpdateType DEF LaunchProvider, TypeOK
  <2>4. worker' \in [Job -> [Round -> [Slot -> WorkerState]]]
    BY <1>1, <1>2, <1>5, <2>2 DEF LaunchProvider
  <2>5. provider' \in [Job -> [Round -> [Slot -> ProviderState]]]
    BY <1>5, <2>2 DEF LaunchProvider, TypeOK
  <2> QED
    BY <1>5, <2>3, <2>4, <2>5 DEF LaunchProvider, TypeOK
<1>6. CASE ProviderReaped(j, i, s)
  BY <1>1, <1>2, <1>6 DEF ProviderReaped, TypeOK
<1>7. CASE TimeOut(j, i, s)
  <2>1. provider' \in [Job -> [Round -> [Slot -> ProviderState]]]
    <3>1. [provider EXCEPT ![j][i][s] = "gone"] \in [Job -> [Round -> [Slot -> ProviderState]]]
      BY VariableUpdateType DEF ProviderState
    <3> QED
      BY <1>7, <3>1 DEF TimeOut, TypeOK
  <2> QED
    BY <1>1, <1>2, <1>7, <2>1 DEF TimeOut, TypeOK
<1>8. ASSUME NEW verdict \in Verdict, CompleteRound(j, i, s, verdict)
      PROVE  TypeOK'
  <2>1. complete_round(job[j], i, verdict) \in JobRecords
    BY <1>3, TransitionType
  <2>2. job' \in [Job -> JobRecords]
    BY <1>8, <2>1, VariableUpdateType DEF CompleteRound, TypeOK
  <2> QED
    BY <1>1, <1>2, <1>8, <2>2 DEF CompleteRound, TypeOK
<1>9. ASSUME NEW recorded \in BOOLEAN, RecordFailure(j, i, s, recorded)
      PROVE  TypeOK'
  <2>1. finalize_worker_failure(job[j], i) \in JobRecords
    BY <1>3, TransitionType
  <2>2. job' \in [Job -> JobRecords]
    BY <1>9, <2>1, VariableUpdateType DEF RecordFailure, TypeOK
  <2> QED
    BY <1>1, <1>2, <1>9, <2>2 DEF RecordFailure, TypeOK
<1> QED
  BY <1>4, <1>5, <1>6, <1>7, <1>8, <1>9 DEF WorkerStep

LEMMA EnvironmentType ==
  ASSUME TypeOK, NEW j \in Job, NEW i \in Round, NEW s \in Slot,
         Environment(j, i, s) \/ ReplayWorker(j, i)
  PROVE  TypeOK'
<1>1. {"gone", "reused", "failing", "boot"} \subseteq WorkerState /\ "replayed" \in Slot
  BY DEF WorkerState, WorkerLive, Slot
<1>2. {"gone", "reused"} \subseteq ProviderState
  BY DEF ProviderState
<1>3. CASE ReplayWorker(j, i)
  BY <1>1, <1>3, VariableUpdateType DEF ReplayWorker, WorkerBecomes, TypeOK
<1>4. CASE WorkerRaises(j, i, s) \/ WorkerDies(j, i, s)
  <2>1. \A state \in {"gone", "failing"} :
          [worker EXCEPT ![j][i][s] = state] \in [Job -> [Round -> [Slot -> WorkerState]]]
    BY <1>1, VariableUpdateType
  <2> QED
    BY <1>4, <2>1 DEF WorkerRaises, WorkerDies, WorkerBecomes, TypeOK
<1>5. CASE ProviderExits(j, i, s)
  <2>1. [provider EXCEPT ![j][i][s] = "gone"] \in [Job -> [Round -> [Slot -> ProviderState]]]
    BY <1>2, VariableUpdateType
  <2> QED
    BY <1>5, <2>1 DEF ProviderExits, TypeOK
<1>6. CASE PidChangesHands(j, i, s)
  <2>1. PICK from, to \in {"gone", "reused"} :
          \/ WorkerBecomes(j, i, s, to) /\ UNCHANGED provider
          \/ provider' = [provider EXCEPT ![j][i][s] = to] /\ UNCHANGED worker
    BY <1>6 DEF PidChangesHands
  <2>2. [worker EXCEPT ![j][i][s] = to] \in [Job -> [Round -> [Slot -> WorkerState]]]
    BY <1>1, VariableUpdateType
  <2>3. [provider EXCEPT ![j][i][s] = to] \in [Job -> [Round -> [Slot -> ProviderState]]]
    BY <1>2, VariableUpdateType
  <2> QED
    BY <1>6, <2>1, <2>2, <2>3 DEF PidChangesHands, WorkerBecomes, TypeOK
<1> QED
  BY <1>3, <1>4, <1>5, <1>6 DEF Environment

LEMMA TypeStep == TypeOK /\ [Next]_vars => TypeOK'
<1> SUFFICES ASSUME TypeOK, [Next]_vars
             PROVE  TypeOK'
  OBVIOUS
<1>1. CASE UNCHANGED vars
  BY <1>1 DEF vars, TypeOK
<1>2. ASSUME NEW j \in Job, NEW i \in Round, ReplayWorker(j, i)
      PROVE  TypeOK'
  BY <1>2, EnvironmentType DEF Slot
<1> QED
  BY <1>1, <1>2, CommandType, StopType, WorkerStepType, EnvironmentType DEF Next

\* The persisted record, the processes and the stopping controllers keep their
\* types: in particular revise never appends a round past max_revisions.
THEOREM TypeCorrect == Spec => []TypeOK
BY InitType, TypeStep, PTL DEF Spec

-----------------------------------------------------------------------------
(* What each transition of the record changes.                               *)

\* new differs from old at most in its phase, in stop_requested and in round i.
OnlyRound(new, old, i) ==
  /\ new.current_round = old.current_round
  /\ new.reservation_key = old.reservation_key
  /\ \A k \in Round : k # i => new.rounds[k] = old.rounds[k]

\* Round i keeps its claim, its worker and its provider.
SameProcesses(new, old, i) ==
  /\ new.rounds[i].claim_consumed = old.rounds[i].claim_consumed
  /\ new.rounds[i].worker = old.rounds[i].worker
  /\ new.rounds[i].claude = old.rounds[i].claude
  /\ new.rounds[i].claude_launch_pending = old.rounds[i].claude_launch_pending

\* Round i keeps what accept and revalidate look at.
SameVerdict(new, old, i) ==
  /\ new.rounds[i].finalized = old.rounds[i].finalized
  /\ new.rounds[i].verification = old.rounds[i].verification

LEMMA ClaimedEffect ==
  ASSUME NEW rec \in JobRecords, NEW i \in Round, NEW s, NEW b
  PROVE  LET new == Claimed(rec, i, s, b)
         IN  /\ OnlyRound(new, rec, i) /\ SameVerdict(new, rec, i)
             /\ new.phase = "running"
             /\ new.rounds[i].claim_consumed
             /\ new.rounds[i].worker.slot = s
             /\ new.rounds[i].claude = rec.rounds[i].claude
             /\ new.rounds[i].claude_launch_pending = rec.rounds[i].claude_launch_pending
BY DEF Claimed, OnlyRound, SameVerdict, JobRecords, RoundRecord

LEMMA LaunchRefusedEffect ==
  ASSUME NEW rec \in JobRecords, NEW i \in Round
  PROVE  LET new == LaunchRefused(rec, i)
         IN  /\ OnlyRound(new, rec, i)
             /\ new.phase = "needs_attention"
             /\ new.rounds[i].finalized
             /\ new.rounds[i].claim_consumed = rec.rounds[i].claim_consumed
             /\ new.rounds[i].worker = rec.rounds[i].worker
             /\ new.rounds[i].claude = rec.rounds[i].claude
             /\ new.rounds[i].verification = rec.rounds[i].verification
BY DEF LaunchRefused, OnlyRound, JobRecords, RoundRecord

LEMMA PendingLaunchEffect ==
  ASSUME NEW rec \in JobRecords, NEW i \in Round, NEW b \in BOOLEAN
  PROVE  LET new == PendingLaunch(rec, i, b)
         IN  /\ OnlyRound(new, rec, i) /\ SameVerdict(new, rec, i)
             /\ new.phase = rec.phase
             /\ new.rounds[i].claim_consumed = rec.rounds[i].claim_consumed
             /\ new.rounds[i].worker = rec.rounds[i].worker
             /\ new.rounds[i].claude = rec.rounds[i].claude
             /\ b => new.rounds[i].claude_launch_pending
BY DEF PendingLaunch, OnlyRound, SameVerdict, JobRecords, RoundRecord

LEMMA ClaudeRegisteredEffect ==
  ASSUME NEW rec \in JobRecords, NEW i \in Round, NEW s, NEW b
  PROVE  LET new == ClaudeRegistered(rec, i, s, b)
         IN  /\ OnlyRound(new, rec, i) /\ SameVerdict(new, rec, i)
             /\ new.phase = rec.phase
             /\ new.rounds[i].claim_consumed = rec.rounds[i].claim_consumed
             /\ new.rounds[i].worker = rec.rounds[i].worker
             /\ new.rounds[i].claude.slot = s
BY DEF ClaudeRegistered, OnlyRound, SameVerdict, JobRecords, RoundRecord

LEMMA CompletedEffect ==
  ASSUME NEW rec \in JobRecords, NEW i \in Round, NEW verdict
  PROVE  LET new == complete_round(rec, i, verdict)
         IN  /\ OnlyRound(new, rec, i) /\ SameProcesses(new, rec, i)
             /\ new.phase = IF Decided(rec) THEN rec.phase ELSE PhaseAfter(verdict)
             /\ new.rounds[i].finalized
             /\ new.rounds[i].verification = verdict
BY DEF complete_round, OnlyRound, SameProcesses, JobRecords, RoundRecord

LEMMA WorkerFailureEffect ==
  ASSUME NEW rec \in JobRecords, NEW i \in Round
  PROVE  LET new == finalize_worker_failure(rec, i)
         IN  \/ new = rec
             \/ /\ OnlyRound(new, rec, i) /\ SameProcesses(new, rec, i)
                /\ ~rec.rounds[i].finalized
                /\ rec.phase \notin TERMINAL_DECISION_PHASES
                /\ new.phase = "needs_attention"
                /\ new.rounds[i].verification = "soft"
BY DEF finalize_worker_failure, Decided, OnlyRound, SameProcesses, JobRecords, RoundRecord

LEMMA RevalidatedEffect ==
  ASSUME NEW rec \in JobRecords, NEW b \in BOOLEAN
  PROVE  LET new == Revalidated(rec, b)
             i == rec.current_round
         IN  /\ OnlyRound(new, rec, i) /\ SameProcesses(new, rec, i)
             /\ new.rounds[i].finalized = rec.rounds[i].finalized
             /\ \/ new.phase = "awaiting_review" /\ new.rounds[i].verification = "ok"
                \/ /\ new.phase = rec.phase
                   /\ new.rounds[i].verification = rec.rounds[i].verification
BY DEF Revalidated, OnlyRound, SameProcesses, JobRecords, RoundRecord

LEMMA StopTransitionEffect ==
  ASSUME NEW rec \in JobRecords, NEW b \in BOOLEAN
  PROVE  LET new == stop_transition(rec, b)
             i == rec.current_round
         IN  /\ OnlyRound(new, rec, i) /\ SameProcesses(new, rec, i)
             /\ new.rounds[i].finalized \/ ~rec.rounds[i].finalized
             /\ new.rounds[i].verification = rec.rounds[i].verification
             /\ b => new.phase = IF rec.phase \in TERMINAL_DECISION_PHASES
                                 THEN rec.phase ELSE "needs_attention"
             /\ ~b => new.phase = IF rec.phase = "accepted" THEN "accepted" ELSE "stopped"
BY DEF stop_transition, OnlyRound, SameProcesses, JobRecords, RoundRecord

LEMMA AcceptanceEffect ==
  ASSUME NEW rec \in JobRecords
  PROVE  /\ apply_acceptance(rec).phase = "accepted"
         /\ apply_acceptance(rec).current_round = rec.current_round
         /\ apply_acceptance(rec).reservation_key = rec.reservation_key
         /\ apply_acceptance(rec).rounds = rec.rounds
BY DEF apply_acceptance, JobRecords

LEMMA ReconcileEffect ==
  ASSUME NEW rec \in JobRecords, NEW g \in BOOLEAN, NEW w \in BOOLEAN, NEW p \in BOOLEAN
  PROVE  LET new == reconcile(rec, g, w, p)
             i == rec.current_round
         IN  \/ new = rec
             \/ /\ OnlyRound(new, rec, i) /\ SameProcesses(new, rec, i)
                /\ SameVerdict(new, rec, i)
                /\ rec.phase \in BUSY_PHASES
                /\ \/ new.phase = "needs_attention"
                   \/ /\ new.phase = "interrupted" /\ w /\ p
                      /\ ~rec.rounds[i].claude_launch_pending
BY DEF reconcile, OnlyRound, SameProcesses, SameVerdict, JobRecords, RoundRecord

\* start and revise, whatever becomes of the spawn that follows.
LEMMA LaunchedEffect ==
  ASSUME NEW rec \in JobRecords, NEW b \in BOOLEAN,
         rec.rounds[rec.current_round] = NewRound
  PROVE  LET i == rec.current_round
         IN  \A new \in {rec, SpawnFailed(rec), WorkerRegistered(rec, b)} :
               /\ OnlyRound(new, rec, i)
               /\ new.phase = rec.phase \/ new.phase = "failed"
               /\ new.rounds[i].verification = "none"
               /\ new.rounds[i].claude = NoIdentity
<1>1. rec.current_round \in Round /\ rec.rounds \in [Round -> RoundRecord]
  BY DEF JobRecords
<1>2. rec.rounds[rec.current_round].verification = "none"
  BY DEF NewRound
<1>3. rec.rounds[rec.current_round].claude = NoIdentity
  BY DEF NewRound
<1>4. rec.rounds[rec.current_round] \in RoundRecord
  BY <1>1
<1>5. LET new == SpawnFailed(rec)
      IN  /\ OnlyRound(new, rec, rec.current_round)
          /\ new.phase = "failed"
          /\ new.rounds[rec.current_round].verification = "none"
          /\ new.rounds[rec.current_round].claude = NoIdentity
  BY ONLY rec \in JobRecords, <1>1, <1>2, <1>3, <1>4 DEF SpawnFailed, OnlyRound, JobRecords, RoundRecord
<1>6. LET new == WorkerRegistered(rec, b)
      IN  /\ OnlyRound(new, rec, rec.current_round)
          /\ new.phase = rec.phase
          /\ new.rounds[rec.current_round].verification = "none"
          /\ new.rounds[rec.current_round].claude = NoIdentity
  BY ONLY rec \in JobRecords, <1>1, <1>2, <1>3, <1>4 DEF WorkerRegistered, OnlyRound, JobRecords, RoundRecord
<1>7. OnlyRound(rec, rec, rec.current_round)
  BY DEF OnlyRound
<1> HIDE DEF OnlyRound, SpawnFailed, WorkerRegistered
<1> QED
  BY <1>2, <1>3, <1>5, <1>6, <1>7

LEMMA RevisedEffect ==
  ASSUME NEW rec \in JobRecords, rec.current_round < MaxRevisions, NEW timeout \in Timeout
  PROVE  LET new == RevisedJob(rec, timeout)
         IN  /\ new.phase = "starting"
             /\ new.current_round = rec.current_round + 1
             /\ new.reservation_key = rec.reservation_key
             /\ new.rounds[rec.current_round + 1] = NewRound
             /\ \A k \in Round : k # rec.current_round + 1 => new.rounds[k] = rec.rounds[k]
<1>1. rec.current_round + 1 \in Round
  BY MaxRevisionsAssumption DEF JobRecords, Round
<1> QED
  BY <1>1 DEF RevisedJob, JobRecords

-----------------------------------------------------------------------------
(* The invariant of one job, action by action.                               *)

\* A step that leaves a job and its processes alone keeps its invariant.
LEMMA OtherJob ==
  ASSUME NEW j \in Job, JobInv(j),
         job'[j] = job[j], worker'[j] = worker[j], provider'[j] = provider[j]
  PROVE  JobInv(j)'
<1> USE DEF Opened, Exists, Active, Live, Current, Reserved
<1>1. StartedJobHasKey(j)'
  BY DEF JobInv, StartedJobHasKey
<1>2. UnopenedRoundsAreEmpty(j)'
  BY DEF JobInv, UnopenedRoundsAreEmpty
<1>3. RecordedProviderWasSpawned(j)'
  BY DEF JobInv, RecordedProviderWasSpawned
<1>4. ClaimNamesTheWorker(j)'
  BY DEF JobInv, ClaimNamesTheWorker
<1>5. LiveProviderIsVisible(j)'
  BY DEF JobInv, LiveProviderIsVisible
<1>6. ActiveWorkerIsCurrent(j)'
  BY DEF JobInv, ActiveWorkerIsCurrent
<1>7. VerdictsComeLast(j)'
  BY DEF JobInv, VerdictsComeLast
<1>8. ReviewMeansVerified(j)' /\ InterruptedMeansDead(j)'
  BY DEF JobInv, ReviewMeansVerified, InterruptedMeansDead
<1> QED
  BY <1>1, <1>2, <1>3, <1>4, <1>5, <1>6, <1>7, <1>8 DEF JobInv

\* No worker of the job is active and no provider of it runs.
Quiet(j) == \A i \in Round, s \in Slot : ~Active(j, i, s) /\ ~Live(j, i, s)

\* An empty live_blockers is proof that the job is quiet: every active worker
\* is the recorded one, and a running provider is recorded or still pending.
LEMMA NoBlockersQuiet ==
  ASSUME NEW j \in Job, JobInv(j), ~live_blockers(j)
  PROVE  Quiet(j)
<1> SUFFICES ASSUME NEW i \in Round, NEW s \in Slot
             PROVE  ~Active(j, i, s) /\ ~Live(j, i, s)
  BY DEF Quiet
<1>1. s # "none"
  BY DEF Slot
<1>2. WorkerGone(j, i) /\ ClaudeGone(j, i)
  BY DEF live_blockers
<1>3. ~Active(j, i, s)
  BY <1>1, <1>2 DEF JobInv, ClaimNamesTheWorker, WorkerGone, Active
<1>4. ~Live(j, i, s)
  <2> SUFFICES ASSUME Live(j, i, s) PROVE FALSE
    OBVIOUS
  <2>1. i = job[j].current_round
    BY DEF JobInv, LiveProviderIsVisible
  <2>2. CASE job[j].rounds[i].claude.slot = s
    BY <1>1, <1>2, <2>2 DEF ClaudeGone, Live
  <2>3. CASE job[j].rounds[i].claude = NoIdentity /\ job[j].rounds[i].claude_launch_pending
    BY <2>1, <2>3 DEF live_blockers, Current
  <2> QED
    BY <2>2, <2>3 DEF JobInv, LiveProviderIsVisible
<1> QED
  BY <1>3, <1>4

\* The job's processes only quieten: providers exit, workers move on to their
\* report or die, pids change hands; the record is not written.
LEMMA ProcessesQuieten ==
  ASSUME NEW j \in Job, JobInv(j), job'[j] = job[j],
         \A i \in Round, s \in Slot :
           /\ \/ worker'[j][i][s] = worker[j][i][s]
              \/ /\ Opened(j, i)
                 /\ worker'[j][i][s] # "claimed"
                 /\ Active(j, i, s)' => Active(j, i, s)
                 /\ worker'[j][i][s] = "reporting" => ~Live(j, i, s)'
           /\ provider'[j][i][s] = "none" <=> provider[j][i][s] = "none"
           /\ Live(j, i, s)' => Live(j, i, s)
  PROVE  JobInv(j)'
<1>1. \A i \in Round, s \in Slot : Active(j, i, s)' => Active(j, i, s)
  BY DEF Active
<1>2. StartedJobHasKey(j)'
  BY DEF JobInv, StartedJobHasKey, Exists
<1>3. UnopenedRoundsAreEmpty(j)'
  BY DEF JobInv, UnopenedRoundsAreEmpty, Opened, Exists
<1>4. RecordedProviderWasSpawned(j)'
  BY DEF JobInv, RecordedProviderWasSpawned
<1>5. ClaimNamesTheWorker(j)'
  <2> SUFFICES ASSUME NEW i \in Round, NEW s \in Slot,
                      Active(j, i, s)' \/ provider'[j][i][s] # "none"
               PROVE  /\ job[j].rounds[i].claim_consumed
                      /\ job[j].rounds[i].worker.slot = s
                      /\ provider'[j][i][s] # "none" => worker'[j][i][s] # "claimed"
    BY DEF ClaimNamesTheWorker
  <2>1. worker'[j][i][s] = "claimed" => worker[j][i][s] = "claimed"
    BY DEF Active
  <2> QED
    BY <1>1, <2>1 DEF JobInv, ClaimNamesTheWorker
<1>6. LiveProviderIsVisible(j)'
  BY DEF JobInv, LiveProviderIsVisible, Reserved
<1>7. ActiveWorkerIsCurrent(j)'
  BY <1>1 DEF JobInv, ActiveWorkerIsCurrent
<1>8. VerdictsComeLast(j)'
  <2>1. \A i \in Round, s \in Slot : worker'[j][i][s] = "reporting" => ~Live(j, i, s)'
    BY DEF JobInv, VerdictsComeLast
  <2> QED
    BY <1>1, <2>1 DEF JobInv, VerdictsComeLast
<1>9. ReviewMeansVerified(j)' /\ InterruptedMeansDead(j)'
  BY DEF JobInv, ReviewMeansVerified, InterruptedMeansDead, Current
<1> QED
  BY <1>2, <1>3, <1>4, <1>5, <1>6, <1>7, <1>8, <1>9 DEF JobInv

\* The record of the current round is decided, and workers may leave: what a
\* command, a report or a reconcile must see to for the invariant to hold.
LEMMA RoundDecided ==
  ASSUME NEW j \in Job, NEW i \in Round, JobInv(j),
         Exists(j), i = job[j].current_round, job'[j].phase \in Phase,
         OnlyRound(job'[j], job[j], i), SameProcesses(job'[j], job[j], i),
         provider'[j] = provider[j],
         \A k \in Round, s \in Slot :
           worker'[j][k][s] = worker[j][k][s] \/ (Opened(j, k) /\ ~Active(j, k, s)'),
         \/ job'[j].phase = job[j].phase
         \/ job'[j].phase \in RESERVING_PHASES \ {"interrupted"}
         \/ Quiet(j)
         \/ job'[j].phase = "accepted" /\ \A k \in Round, s \in Slot : ~Live(j, k, s),
         job'[j].rounds[i].verification \in {"ok", "placeholder"} =>
           /\ job[j].rounds[i].claim_consumed
           /\ job'[j].rounds[i].finalized
           /\ \A s \in Slot : ~Active(j, i, s)' /\ ~Live(j, i, s),
         job'[j].phase \in {"awaiting_review", "accepted"} =>
           job'[j].rounds[i].verification = "ok"
  PROVE  JobInv(j)'
<1>1. \A k \in Round, s \in Slot :
        /\ Live(j, k, s)' <=> Live(j, k, s)
        /\ Active(j, k, s)' => Active(j, k, s) /\ worker'[j][k][s] = worker[j][k][s]
  BY DEF Live, Active
<1>2. StartedJobHasKey(j)'
  BY DEF JobInv, StartedJobHasKey, OnlyRound, Exists,
         Phase, RESERVING_PHASES, TERMINAL_DECISION_PHASES, ABSENT
<1>3. UnopenedRoundsAreEmpty(j)'
  <2>1. ASSUME NEW k \in Round, ~Opened(j, k)'
        PROVE  /\ job'[j].rounds[k] = NoRound
               /\ \A s \in Slot : worker'[j][k][s] = "none" /\ provider'[j][k][s] = "none"
    <3>1. ~Opened(j, k)
      BY <2>1 DEF Opened, Exists, OnlyRound, Phase, RESERVING_PHASES, TERMINAL_DECISION_PHASES, ABSENT
    <3>2. k # i
      BY <3>1 DEF Opened, Round
    <3> QED
      BY <3>1, <3>2 DEF JobInv, UnopenedRoundsAreEmpty, OnlyRound
  <2> QED
    BY ONLY <2>1 DEF UnopenedRoundsAreEmpty
<1>5. \A k \in Round :
        /\ job'[j].rounds[k].claim_consumed = job[j].rounds[k].claim_consumed
        /\ job'[j].rounds[k].worker = job[j].rounds[k].worker
        /\ job'[j].rounds[k].claude = job[j].rounds[k].claude
        /\ job'[j].rounds[k].claude_launch_pending = job[j].rounds[k].claude_launch_pending
  BY DEF OnlyRound, SameProcesses
<1>4. RecordedProviderWasSpawned(j)'
  BY <1>5 DEF JobInv, RecordedProviderWasSpawned
<1>6. ClaimNamesTheWorker(j)'
  <2> SUFFICES ASSUME NEW k \in Round, NEW s \in Slot,
                      Active(j, k, s)' \/ provider'[j][k][s] # "none"
               PROVE  /\ job'[j].rounds[k].claim_consumed
                      /\ job'[j].rounds[k].worker.slot = s
                      /\ provider'[j][k][s] # "none" => worker'[j][k][s] # "claimed"
    BY DEF ClaimNamesTheWorker
  <2>1. worker'[j][k][s] = "claimed" => worker[j][k][s] = "claimed"
    BY DEF Active
  <2> QED
    BY <1>1, <1>5, <2>1 DEF JobInv, ClaimNamesTheWorker
<1>7. LiveProviderIsVisible(j)'
  <2> SUFFICES ASSUME NEW k \in Round, NEW s \in Slot, Live(j, k, s)
               PROVE  /\ Reserved(j)'
                      /\ k = job'[j].current_round
                      /\ \/ job'[j].rounds[k].claude.slot = s
                         \/ /\ job'[j].rounds[k].claude = NoIdentity
                            /\ job'[j].rounds[k].claude_launch_pending
    BY <1>1 DEF LiveProviderIsVisible
  <2> QED
    BY <1>5 DEF JobInv, LiveProviderIsVisible, OnlyRound, Reserved, Quiet
<1>8. ActiveWorkerIsCurrent(j)'
  <2> SUFFICES ASSUME NEW k \in Round, NEW s \in Slot, Active(j, k, s)'
               PROVE  k = job'[j].current_round /\ job'[j].phase \notin {"stopped", "interrupted"}
    BY DEF ActiveWorkerIsCurrent
  <2> QED
    BY <1>1 DEF JobInv, ActiveWorkerIsCurrent, OnlyRound, Quiet, RESERVING_PHASES
<1>9. VerdictsComeLast(j)'
  <2> SUFFICES ASSUME NEW k \in Round, NEW s \in Slot
               PROVE  /\ worker'[j][k][s] = "reporting" => ~Live(j, k, s)
                      /\ job'[j].rounds[k].verification \in {"ok", "placeholder"} =>
                           /\ job'[j].rounds[k].claim_consumed
                           /\ job'[j].rounds[k].finalized
                           /\ ~Active(j, k, s)'
                           /\ ~Live(j, k, s)
    BY <1>1 DEF VerdictsComeLast
  <2>1. worker'[j][k][s] = "reporting" => worker[j][k][s] = "reporting"
    BY DEF Active
  <2>2. CASE k = i
    BY <1>5, <2>1, <2>2 DEF JobInv, VerdictsComeLast
  <2>3. CASE k # i
    BY <1>1, <2>1, <2>3 DEF JobInv, VerdictsComeLast, OnlyRound
  <2> QED
    BY <2>2, <2>3
<1>10. ReviewMeansVerified(j)'
  BY DEF ReviewMeansVerified, Current, OnlyRound
<1>11. InterruptedMeansDead(j)'
  BY <1>1 DEF JobInv, InterruptedMeansDead, Quiet, RESERVING_PHASES
<1> QED
  BY <1>2, <1>3, <1>4, <1>6, <1>7, <1>8, <1>9, <1>10, <1>11 DEF JobInv

AllJobs == TypeOK /\ StopNamesAJob /\ \A j \in Job : JobInv(j)

\* The launch that start and revise share: the committed record opens a fresh
\* round beside which nothing runs.
LEMMA LaunchKeepsJobs ==
  ASSUME AllJobs, NEW j \in Job, NEW committed \in JobRecords, NEW outcome,
         launch_transaction(j, committed, outcome),
         Quiet(j),
         committed.phase = "starting",
         committed.reservation_key \in Key,
         committed.rounds[committed.current_round] = NewRound,
         Exists(j) => committed.current_round = job[j].current_round + 1,
         ~Exists(j) => committed.current_round = 0,
         \A k \in Round : k > committed.current_round => committed.rounds[k] = job[j].rounds[k],
         \A k \in Round : k # committed.current_round =>
           SameProcesses(committed, job[j], k) /\ SameVerdict(committed, job[j], k)
  PROVE  \A k \in Job : JobInv(k)'
<1> DEFINE i == committed.current_round
           new == job'[j]
<1>1. i \in Round
  BY CurrentType
<1>2. /\ OnlyRound(new, committed, i)
      /\ new.phase = "starting" \/ new.phase = "failed"
      /\ new.rounds[i].verification = "none"
      /\ new.rounds[i].claude = NoIdentity
  <2>1. (outcome = "registered") \in BOOLEAN
    OBVIOUS
  <2>2. new \in {committed, SpawnFailed(committed),
                 WorkerRegistered(committed, outcome = "registered")}
    BY DEF launch_transaction, AllJobs, TypeOK
  <2> QED
    BY <2>1, <2>2, LaunchedEffect
<1>3. ~Opened(j, i)
  BY <1>1, MaxRevisionsAssumption, JobType DEF Opened, AllJobs, Round
<1>4. \A s \in Slot : worker[j][i][s] = "none" /\ provider[j][i][s] = "none"
  BY <1>1, <1>3 DEF AllJobs, JobInv, UnopenedRoundsAreEmpty
<1>5. \A k \in Round, s \in Slot :
        /\ worker'[j][k][s] = worker[j][k][s] \/ (k = i /\ worker'[j][k][s] = "boot")
        /\ provider'[j][k][s] = provider[j][k][s]
  BY <1>1 DEF launch_transaction, AllJobs, TypeOK
<1>6. \A k \in Round, s \in Slot : ~Active(j, k, s)' /\ ~Live(j, k, s)'
  BY <1>5 DEF Quiet, Active, Live
<1>7. \A k \in Round : k # i =>
        /\ k > i => new.rounds[k] = job[j].rounds[k]
        /\ new.rounds[k].claim_consumed = job[j].rounds[k].claim_consumed
        /\ new.rounds[k].worker = job[j].rounds[k].worker
        /\ new.rounds[k].claude = job[j].rounds[k].claude
        /\ new.rounds[k].finalized = job[j].rounds[k].finalized
        /\ new.rounds[k].verification = job[j].rounds[k].verification
  BY <1>2 DEF OnlyRound, SameProcesses, SameVerdict
<1>8. UnopenedRoundsAreEmpty(j)'
  <2>1. ASSUME NEW k \in Round, ~Opened(j, k)'
        PROVE  /\ job'[j].rounds[k] = NoRound
               /\ \A s \in Slot : worker'[j][k][s] = "none" /\ provider'[j][k][s] = "none"
    <3>1. k > i /\ k # i /\ ~Opened(j, k)
      BY <1>1, <1>2, <2>1, JobType, MaxRevisionsAssumption
         DEF Opened, Exists, OnlyRound, ABSENT, Round, AllJobs
    <3>2. /\ job[j].rounds[k] = NoRound
          /\ \A s \in Slot : worker[j][k][s] = "none" /\ provider[j][k][s] = "none"
      BY <3>1 DEF AllJobs, JobInv, UnopenedRoundsAreEmpty
    <3> QED
      BY <1>5, <1>7, <3>1, <3>2
  <2> QED
    BY ONLY <2>1 DEF UnopenedRoundsAreEmpty
<1>9. RecordedProviderWasSpawned(j)'
  <2>1. ASSUME NEW k \in Round, job'[j].rounds[k].claude # NoIdentity
        PROVE  /\ job'[j].rounds[k].claude.slot \in Slot
               /\ provider'[j][k][job'[j].rounds[k].claude.slot] # "none"
    <3>1. k # i /\ job[j].rounds[k].claude = new.rounds[k].claude
      BY <1>2, <1>7, <2>1
    <3>2. /\ job[j].rounds[k].claude.slot \in Slot
          /\ provider[j][k][job[j].rounds[k].claude.slot] # "none"
      BY <2>1, <3>1 DEF AllJobs, JobInv, RecordedProviderWasSpawned
    <3> QED
      BY <1>5, <3>1, <3>2
  <2> QED
    BY ONLY <2>1 DEF RecordedProviderWasSpawned
<1>10. ClaimNamesTheWorker(j)'
  <2>1. ASSUME NEW k \in Round, NEW s \in Slot, Active(j, k, s)' \/ provider'[j][k][s] # "none"
        PROVE  /\ job'[j].rounds[k].claim_consumed
               /\ job'[j].rounds[k].worker.slot = s
               /\ provider'[j][k][s] # "none" => worker'[j][k][s] # "claimed"
    <3>1. k # i /\ provider[j][k][s] # "none"
      BY <1>4, <1>5, <1>6, <2>1
    <3> QED
      BY <1>6, <1>7, <3>1 DEF AllJobs, JobInv, ClaimNamesTheWorker, Active
  <2> QED
    BY ONLY <2>1 DEF ClaimNamesTheWorker
<1>11. LiveProviderIsVisible(j)' /\ ActiveWorkerIsCurrent(j)' /\ InterruptedMeansDead(j)'
  BY <1>6 DEF LiveProviderIsVisible, ActiveWorkerIsCurrent, InterruptedMeansDead
<1>12. VerdictsComeLast(j)'
  <2>1. ASSUME NEW k \in Round, job'[j].rounds[k].verification \in {"ok", "placeholder"}
        PROVE  job'[j].rounds[k].claim_consumed /\ job'[j].rounds[k].finalized
    BY <1>2, <1>7, <2>1 DEF AllJobs, JobInv, VerdictsComeLast, Slot
  <2> QED
    BY ONLY <1>6, <2>1 DEF VerdictsComeLast
<1>13. ReviewMeansVerified(j)' /\ StartedJobHasKey(j)'
  BY <1>2 DEF ReviewMeansVerified, StartedJobHasKey, OnlyRound, Exists, ABSENT
<1>14. JobInv(j)'
  BY <1>8, <1>9, <1>10, <1>11, <1>12, <1>13 DEF JobInv
<1>15. ASSUME NEW k \in Job, k # j
       PROVE  job'[k] = job[k] /\ worker'[k] = worker[k] /\ provider'[k] = provider[k]
  BY <1>15 DEF launch_transaction, AllJobs, TypeOK
<1> QED
  BY <1>14, <1>15, OtherJob DEF AllJobs

\* job'[j] alone is written.
LEMMA OneJobWritten ==
  ASSUME TypeOK, NEW j \in Job, NEW rec, job' = [job EXCEPT ![j] = rec]
  PROVE  job'[j] = rec /\ \A k \in Job : k # j => job'[k] = job[k]
BY DEF TypeOK

LEMMA StartKeepsJobs ==
  ASSUME AllJobs, NEW j \in Job, NEW key \in Key, NEW timeout \in Timeout,
         NEW outcome, cmd_start(j, key, timeout, outcome)
  PROVE  \A k \in Job : JobInv(k)'
<1>1. StartedJob(key, timeout) \in JobRecords
  BY StartedJobType
<1>2. \A i \in Round, s \in Slot : worker[j][i][s] = "none" /\ provider[j][i][s] = "none"
  BY DEF cmd_start, AllJobs, JobInv, UnopenedRoundsAreEmpty, Opened
<1>3. Quiet(j)
  BY <1>2 DEF Quiet, Active, Live
<1>4. /\ StartedJob(key, timeout).phase = "starting"
      /\ StartedJob(key, timeout).reservation_key = key
      /\ StartedJob(key, timeout).current_round = 0
      /\ StartedJob(key, timeout).rounds[0] = NewRound
      /\ \A k \in Round : k # 0 => StartedJob(key, timeout).rounds[k] = NoRound
  BY MaxRevisionsAssumption DEF StartedJob, Round
<1>5. \A k \in Round : job[j].rounds[k] = NoRound
  BY DEF cmd_start, AllJobs, JobInv, UnopenedRoundsAreEmpty, Opened
<1>6. ~Exists(j) /\ launch_transaction(j, StartedJob(key, timeout), outcome)
  BY DEF cmd_start
<1> QED
  BY <1>1, <1>3, <1>4, <1>5, <1>6, LaunchKeepsJobs DEF SameProcesses, SameVerdict, Round

\* What the record reconcile returns has in common with the one it was given.
LEMMA ReconciledEffect ==
  ASSUME TypeOK, NEW j \in Job, NEW g \in BOOLEAN
  PROVE  LET seen == Reconciled(j, g)
             i == job[j].current_round
         IN  \/ seen = job[j]
             \/ /\ OnlyRound(seen, job[j], i) /\ SameProcesses(seen, job[j], i)
                /\ SameVerdict(seen, job[j], i)
                /\ job[j].phase \in BUSY_PHASES
                /\ \/ seen.phase = "needs_attention"
                   \/ /\ seen.phase = "interrupted"
                      /\ WorkerGone(j, i) /\ ClaudeGone(j, i)
                      /\ ~job[j].rounds[i].claude_launch_pending
<1>1. /\ WorkerGone(j, job[j].current_round) \in BOOLEAN
      /\ ClaudeGone(j, job[j].current_round) \in BOOLEAN
  BY DEF WorkerGone, ClaudeGone
<1> QED
  BY <1>1, JobType, ReconcileEffect DEF Reconciled

LEMMA StatusKeepsJobs ==
  ASSUME AllJobs, NEW j \in Job, NEW g \in BOOLEAN, cmd_status(j, g)
  PROVE  \A k \in Job : JobInv(k)'
<1> PICK i \in Round : i = job[j].current_round
  BY JobType DEF AllJobs
<1> DEFINE seen == Reconciled(j, g)
<1>0. TypeOK /\ JobInv(j) /\ Exists(j)
  BY DEF AllJobs, cmd_status
<1>1. job'[j] = seen /\ \A k \in Job : k # j => job'[k] = job[k]
  BY <1>0, OneJobWritten DEF cmd_status
<1>2. worker' = worker /\ provider' = provider
  BY DEF cmd_status
<1>3. CASE seen = job[j]
  BY <1>1, <1>2, <1>3, OtherJob DEF AllJobs
<1>4. CASE seen # job[j]
  <2>1. /\ OnlyRound(seen, job[j], i) /\ SameProcesses(seen, job[j], i)
        /\ SameVerdict(seen, job[j], i)
        /\ job[j].phase \in BUSY_PHASES
        /\ \/ seen.phase = "needs_attention"
           \/ /\ seen.phase = "interrupted"
              /\ WorkerGone(j, i) /\ ClaudeGone(j, i)
              /\ ~job[j].rounds[i].claude_launch_pending
    BY <1>0, <1>4, ReconciledEffect
  <2>2. seen.phase = "interrupted" => Quiet(j)
    <3> SUFFICES ASSUME NEW k \in Round, NEW s \in Slot,
                        WorkerGone(j, i), ClaudeGone(j, i),
                        ~job[j].rounds[i].claude_launch_pending
                 PROVE  ~Active(j, k, s) /\ ~Live(j, k, s)
      BY <2>1 DEF Quiet
    <3>1. s # "none"
      BY DEF Slot
    <3>2. ~Active(j, k, s)
      BY <1>0, <3>1 DEF JobInv, ClaimNamesTheWorker, ActiveWorkerIsCurrent, WorkerGone, Active
    <3>3. ~Live(j, k, s)
      <4>1. Live(j, k, s) => k = i /\ job[j].rounds[i].claude.slot = s
        BY <1>0 DEF JobInv, LiveProviderIsVisible
      <4>2. job[j].rounds[i].claude.slot = s => provider[j][i][s] = "gone"
        BY <3>1 DEF ClaudeGone
      <4> QED
        BY <4>1, <4>2 DEF Live
    <3> QED
      BY <3>2, <3>3
  <2>3. seen.phase \in Phase /\ seen.phase \notin {"awaiting_review", "accepted"}
    BY <2>1 DEF Phase, RESERVING_PHASES
  <2>4. \/ seen.phase \in RESERVING_PHASES \ {"interrupted"}
        \/ Quiet(j)
    BY <2>1, <2>2 DEF RESERVING_PHASES
  <2>5. seen.rounds[i].verification \in {"ok", "placeholder"} =>
          /\ job[j].rounds[i].claim_consumed
          /\ seen.rounds[i].finalized
          /\ \A s \in Slot : ~Active(j, i, s)' /\ ~Live(j, i, s)
    <3>1. \A s \in Slot : Active(j, i, s)' <=> Active(j, i, s)
      BY <1>2 DEF Active
    <3> QED
      BY <1>0, <2>1, <3>1 DEF JobInv, VerdictsComeLast, SameVerdict, Slot
  <2>6. JobInv(j)'
    BY <1>0, <1>1, <1>2, <2>1, <2>3, <2>4, <2>5, RoundDecided
  <2> QED
    BY <1>1, <1>2, <2>6, OtherJob DEF AllJobs
<1> QED
  BY <1>3, <1>4

LEMMA ReviseKeepsJobs ==
  ASSUME AllJobs, NEW j \in Job, NEW g \in BOOLEAN, NEW timeout \in Timeout, NEW outcome,
         revise_transaction(j, g, timeout, outcome)
  PROVE  \A k \in Job : JobInv(k)'
<1> DEFINE seen == Reconciled(j, g)
<1>0. TypeOK /\ JobInv(j) /\ seen \in JobRecords /\ job[j] \in JobRecords
  BY ReconciledType, JobType DEF AllJobs
<1>1. /\ seen.current_round = job[j].current_round
      /\ seen.reservation_key = job[j].reservation_key
      /\ \A k \in Round : k # job[j].current_round => seen.rounds[k] = job[j].rounds[k]
      /\ seen.phase # job[j].phase => job[j].phase \in BUSY_PHASES
  BY <1>0, ReconciledEffect DEF OnlyRound
<1>2. /\ seen.phase \in RECOVER_PHASES \cup {"awaiting_review", "accepted"}
      /\ ~live_blockers(j)
      /\ seen.current_round < MaxRevisions
      /\ launch_transaction(j, RevisedJob(seen, timeout), outcome)
  BY DEF revise_transaction
<1>3. Quiet(j)
  BY <1>0, <1>2, NoBlockersQuiet
<1>4. Exists(j)
  BY <1>1, <1>2 DEF Exists, ABSENT, BUSY_PHASES, RECOVER_PHASES
<1>5. RevisedJob(seen, timeout) \in JobRecords
  BY <1>0, <1>2, RevisedJobType
<1>6. /\ RevisedJob(seen, timeout).phase = "starting"
      /\ RevisedJob(seen, timeout).current_round = job[j].current_round + 1
      /\ RevisedJob(seen, timeout).reservation_key = job[j].reservation_key
      /\ RevisedJob(seen, timeout).rounds[RevisedJob(seen, timeout).current_round] = NewRound
      /\ \A k \in Round : k # RevisedJob(seen, timeout).current_round =>
           RevisedJob(seen, timeout).rounds[k] = seen.rounds[k]
  BY <1>0, <1>1, <1>2, RevisedEffect
<1>7. JobInv(j) => job[j].reservation_key \in Key
  BY <1>4 DEF JobInv, StartedJobHasKey
<1>8. \A k \in Round : SameProcesses(seen, job[j], k) /\ SameVerdict(seen, job[j], k)
  BY <1>0, ReconciledEffect DEF OnlyRound, SameProcesses, SameVerdict
<1>9. \A k \in Round : k # RevisedJob(seen, timeout).current_round =>
        SameProcesses(RevisedJob(seen, timeout), job[j], k) /\ SameVerdict(RevisedJob(seen, timeout), job[j], k)
  BY <1>6, <1>8 DEF SameProcesses, SameVerdict
<1>10. \A k \in Round : k > RevisedJob(seen, timeout).current_round =>
         RevisedJob(seen, timeout).rounds[k] = job[j].rounds[k]
  BY <1>1, <1>6, JobType DEF AllJobs, Round
<1> HIDE DEF seen
<1> QED
  BY <1>0, <1>2, <1>3, <1>4, <1>5, <1>6, <1>7, <1>9, <1>10, LaunchKeepsJobs

LEMMA RevalidateKeepsJobs ==
  ASSUME AllJobs, NEW j \in Job, NEW passes \in BOOLEAN, cmd_revalidate(j, passes)
  PROVE  \A k \in Job : JobInv(k)'
<1> PICK i \in Round : i = job[j].current_round
  BY JobType DEF AllJobs
<1> DEFINE new == Revalidated(job[j], passes)
<1>0. TypeOK /\ JobInv(j) /\ job[j] \in JobRecords
  BY JobType DEF AllJobs
<1>1. job'[j] = new /\ \A k \in Job : k # j => job'[k] = job[k]
  BY <1>0, OneJobWritten DEF cmd_revalidate
<1>2. worker' = worker /\ provider' = provider
  BY DEF cmd_revalidate
<1>3. Quiet(j)
  BY <1>0, NoBlockersQuiet DEF cmd_revalidate, RevalidationBlocked
<1>4. /\ job[j].phase = "failed" /\ Exists(j)
      /\ job[j].rounds[i].finalized
      /\ job[j].rounds[i].verification = "placeholder"
  BY DEF cmd_revalidate, Current, Exists, ABSENT
<1>5. job[j].rounds[i].claim_consumed
  BY <1>0, <1>4 DEF JobInv, VerdictsComeLast, Slot
<1>6. /\ OnlyRound(new, job[j], i) /\ SameProcesses(new, job[j], i)
      /\ new.rounds[i].finalized = job[j].rounds[i].finalized
      /\ \/ new.phase = "awaiting_review" /\ new.rounds[i].verification = "ok"
         \/ new.phase = "failed" /\ new.rounds[i].verification = "placeholder"
  BY <1>0, <1>4, RevalidatedEffect
<1>7. new.phase \in Phase
  BY <1>6 DEF Phase, RESERVING_PHASES
<1>8. \A s \in Slot : ~Active(j, i, s)' /\ ~Live(j, i, s)
  BY <1>2, <1>3 DEF Quiet, Active
<1> HIDE DEF new
<1>9. JobInv(j)'
  BY <1>0, <1>1, <1>2, <1>3, <1>4, <1>5, <1>6, <1>7, <1>8, RoundDecided
<1> QED
  BY <1>1, <1>2, <1>9, OtherJob DEF AllJobs

LEMMA AcceptKeepsJobs ==
  ASSUME AllJobs, NEW j \in Job, cmd_accept(j)
  PROVE  \A k \in Job : JobInv(k)'
<1> PICK i \in Round : i = job[j].current_round
  BY JobType DEF AllJobs
<1> DEFINE new == apply_acceptance(job[j])
<1>0. TypeOK /\ JobInv(j) /\ job[j] \in JobRecords
  BY JobType DEF AllJobs
<1>1. job'[j] = new /\ \A k \in Job : k # j => job'[k] = job[k]
  BY <1>0, OneJobWritten DEF cmd_accept
<1>2. worker' = worker /\ provider' = provider
  BY DEF cmd_accept
<1>3. /\ new.phase = "accepted"
      /\ OnlyRound(new, job[j], i) /\ SameProcesses(new, job[j], i)
      /\ new.rounds = job[j].rounds
  BY <1>0, AcceptanceEffect DEF OnlyRound, SameProcesses
<1>4. Exists(j) /\ new.phase \in Phase
  BY <1>3 DEF cmd_accept, Exists, ABSENT, Phase, TERMINAL_DECISION_PHASES
<1>5. job[j].rounds[i].verification = "ok"
  BY <1>0 DEF cmd_accept, Current
<1>6. /\ job[j].rounds[i].claim_consumed
      /\ job[j].rounds[i].finalized
      /\ \A s \in Slot : ~Active(j, i, s) /\ ~Live(j, i, s)
  BY <1>0, <1>5 DEF JobInv, VerdictsComeLast, Slot
<1>7. \A s \in Slot : ~Active(j, i, s)'
  BY <1>2, <1>6 DEF Active
<1>8. \A k \in Round, s \in Slot : ~Live(j, k, s)
  BY <1>0, <1>6 DEF JobInv, LiveProviderIsVisible
<1> HIDE DEF new
<1>9. JobInv(j)'
  BY <1>0, <1>1, <1>2, <1>3, <1>4, <1>5, <1>6, <1>7, <1>8, RoundDecided
<1> QED
  BY <1>1, <1>2, <1>9, OtherJob DEF AllJobs

LEMMA RequestStopKeepsJobs ==
  ASSUME AllJobs, NEW c \in Controller, NEW j \in Job, RequestStop(c, j)
  PROVE  \A k \in Job : JobInv(k)'
<1> PICK i \in Round : i = job[j].current_round
  BY JobType DEF AllJobs
<1> DEFINE new == [job[j] EXCEPT !.stop_requested = TRUE]
<1>0. TypeOK /\ JobInv(j) /\ job[j] \in JobRecords
  BY JobType DEF AllJobs
<1>1. job'[j] = new /\ \A k \in Job : k # j => job'[k] = job[k]
  BY <1>0 DEF RequestStop, TypeOK
<1>2. worker' = worker /\ provider' = provider
  BY DEF RequestStop
<1>3. /\ new.phase = job[j].phase
      /\ OnlyRound(new, job[j], i) /\ SameProcesses(new, job[j], i)
      /\ new.rounds = job[j].rounds
  BY <1>0 DEF OnlyRound, SameProcesses, JobRecords
<1>4. Exists(j) /\ new.phase \in Phase
  BY <1>0, <1>3 DEF RequestStop, Exists, JobRecords
<1>5. job[j].rounds[i].verification \in {"ok", "placeholder"} =>
        /\ job[j].rounds[i].claim_consumed
        /\ job[j].rounds[i].finalized
        /\ \A s \in Slot : ~Active(j, i, s)' /\ ~Live(j, i, s)
  <2>1. \A s \in Slot : Active(j, i, s)' <=> Active(j, i, s)
    BY <1>2 DEF Active
  <2> QED
    BY <1>0, <2>1 DEF JobInv, VerdictsComeLast, Slot
<1>6. job[j].phase \in {"awaiting_review", "accepted"} => job[j].rounds[i].verification = "ok"
  BY <1>0 DEF JobInv, ReviewMeansVerified, Current
<1> HIDE DEF new
<1>7. JobInv(j)'
  BY <1>0, <1>1, <1>2, <1>3, <1>4, <1>5, <1>6, RoundDecided
<1> QED
  BY <1>1, <1>2, <1>7, OtherJob DEF AllJobs

LEMMA SignalKeepsJobs ==
  ASSUME AllJobs, NEW c \in Controller, SignalTarget(c)
  PROVE  \A k \in Job : JobInv(k)'
<1> PICK j : j = stopping[c].job
  OBVIOUS
<1>1. PICK t \in stopping[c].targets :
        /\ \/ UNCHANGED <<worker, provider>>
           \/ /\ worker[j][t.round][t.identity.slot] \in WorkerLive
              /\ worker' = [worker EXCEPT ![j][t.round][t.identity.slot] = "gone"]
              /\ UNCHANGED provider
           \/ /\ provider[j][t.round][t.identity.slot] = "live"
              /\ provider' = [provider EXCEPT ![j][t.round][t.identity.slot] = "gone"]
              /\ UNCHANGED worker
        /\ job' = job
        /\ stopping' = [stopping EXCEPT ![c].targets = @ \ {t}]
  BY DEF SignalTarget
<1>2. TypeOK /\ \A k \in Job : JobInv(k)
  BY DEF AllJobs
<1>3. j \in Job /\ Exists(j)
  <2>1. stopping[c] # IdleController
    BY <1>1 DEF IdleController
  <2> QED
    BY <2>1 DEF AllJobs, StopNamesAJob
<1>4. PICK r, s : r \in Round /\ r = t.round /\ s = t.identity.slot
  BY <1>1, <1>2 DEF TypeOK, Target
<1>r. r \in Round
  BY <1>4
<1>5. \A k \in Job, i \in Round, u \in Slot :
        /\ \/ worker'[k][i][u] = worker[k][i][u]
           \/ worker'[k][i][u] = "gone" /\ worker[k][i][u] \in WorkerLive
        /\ \/ provider'[k][i][u] = provider[k][i][u]
           \/ provider'[k][i][u] = "gone" /\ provider[k][i][u] = "live"
  <2>1. CASE UNCHANGED <<worker, provider>>
    BY <2>1
  <2>2. CASE /\ worker[j][r][s] \in WorkerLive
             /\ worker' = [worker EXCEPT ![j][r][s] = "gone"]
             /\ provider' = provider
    BY ONLY <1>2, <1>3, <1>r, <2>2 DEF TypeOK
  <2>3. CASE /\ provider[j][r][s] = "live"
             /\ provider' = [provider EXCEPT ![j][r][s] = "gone"]
             /\ worker' = worker
    BY ONLY <1>2, <1>3, <1>r, <2>3 DEF TypeOK
  <2> QED
    BY <1>1, <1>4, <2>1, <2>2, <2>3
<1> SUFFICES ASSUME NEW k \in Job PROVE JobInv(k)'
  OBVIOUS
<1>6. \A i \in Round, u \in Slot : worker[k][i][u] \in WorkerLive => Opened(k, i)
  BY <1>2 DEF JobInv, UnopenedRoundsAreEmpty, WorkerLive
<1>7. \A i \in Round, u \in Slot :
        /\ \/ worker'[k][i][u] = worker[k][i][u]
           \/ /\ Opened(k, i)
              /\ worker'[k][i][u] # "claimed"
              /\ Active(k, i, u)' => Active(k, i, u)
              /\ worker'[k][i][u] = "reporting" => ~Live(k, i, u)'
        /\ provider'[k][i][u] = "none" <=> provider[k][i][u] = "none"
        /\ Live(k, i, u)' => Live(k, i, u)
  BY <1>5, <1>6 DEF Active, Live
<1> QED
  BY <1>1, <1>2, <1>7, ProcessesQuieten

LEMMA FinishStopKeepsJobs ==
  ASSUME AllJobs, NEW c \in Controller, FinishStop(c)
  PROVE  \A k \in Job : JobInv(k)'
<1> PICK j : j = stopping[c].job
  OBVIOUS
<1>1. j \in Job /\ Exists(j)
  BY DEF FinishStop, AllJobs, StopNamesAJob
<1>2. TypeOK /\ JobInv(j) /\ job[j] \in JobRecords
  BY <1>1, JobType DEF AllJobs
<1> PICK i \in Round : i = job[j].current_round
  BY <1>1, <1>2, JobType
<1> DEFINE new == stop_transition(job[j], live_blockers(j))
<1>3. job'[j] = new /\ \A k \in Job : k # j => job'[k] = job[k]
  BY <1>1, <1>2, OneJobWritten DEF FinishStop
<1>4. worker' = worker /\ provider' = provider
  BY DEF FinishStop
<1>5. live_blockers(j) \in BOOLEAN
  BY DEF live_blockers
<1>6. /\ OnlyRound(new, job[j], i) /\ SameProcesses(new, job[j], i)
      /\ new.rounds[i].finalized \/ ~job[j].rounds[i].finalized
      /\ new.rounds[i].verification = job[j].rounds[i].verification
      /\ live_blockers(j) => new.phase = IF job[j].phase \in TERMINAL_DECISION_PHASES
                                         THEN job[j].phase ELSE "needs_attention"
      /\ ~live_blockers(j) => new.phase = IF job[j].phase = "accepted" THEN "accepted" ELSE "stopped"
  BY <1>2, <1>5, StopTransitionEffect
<1>7. ~live_blockers(j) => Quiet(j)
  BY <1>1, <1>2, NoBlockersQuiet
<1>8. new.phase \in Phase /\ new.phase # "awaiting_review"
  BY <1>6 DEF Phase, RESERVING_PHASES, TERMINAL_DECISION_PHASES
<1>9. \/ new.phase = job[j].phase
      \/ new.phase \in RESERVING_PHASES \ {"interrupted"}
      \/ Quiet(j)
  BY <1>6, <1>7 DEF RESERVING_PHASES
<1>10. new.rounds[i].verification \in {"ok", "placeholder"} =>
         /\ job[j].rounds[i].claim_consumed
         /\ new.rounds[i].finalized
         /\ \A s \in Slot : ~Active(j, i, s)' /\ ~Live(j, i, s)
  <2>1. \A s \in Slot : Active(j, i, s)' <=> Active(j, i, s)
    BY <1>4 DEF Active
  <2> QED
    BY <1>2, <1>6, <2>1 DEF JobInv, VerdictsComeLast, Slot
<1>11. new.phase = "accepted" => new.rounds[i].verification = "ok"
  <2>1. new.phase = "accepted" => job[j].phase = "accepted"
    BY <1>6 DEF TERMINAL_DECISION_PHASES
  <2> QED
    BY <1>2, <1>6, <2>1 DEF JobInv, ReviewMeansVerified, Current
<1> HIDE DEF new
<1>12. JobInv(j)'
  BY <1>1, <1>2, <1>3, <1>4, <1>6, <1>8, <1>9, <1>10, <1>11, RoundDecided
<1> QED
  BY <1>3, <1>4, <1>12, OtherJob DEF AllJobs

\* One process of one slot changes its state.
LEMMA OneWorkerChanges ==
  ASSUME TypeOK, NEW j \in Job, NEW i \in Round, NEW s \in Slot, NEW state,
         worker' = [worker EXCEPT ![j][i][s] = state]
  PROVE  /\ worker'[j][i][s] = state
         /\ \A k \in Round, t \in Slot : k # i \/ t # s => worker'[j][k][t] = worker[j][k][t]
         /\ \A o \in Job : o # j => worker'[o] = worker[o]
BY DEF TypeOK

LEMMA OneProviderChanges ==
  ASSUME TypeOK, NEW j \in Job, NEW i \in Round, NEW s \in Slot, NEW state,
         provider' = [provider EXCEPT ![j][i][s] = state]
  PROVE  /\ provider'[j][i][s] = state
         /\ \A k \in Round, t \in Slot : k # i \/ t # s => provider'[j][k][t] = provider[j][k][t]
         /\ \A o \in Job : o # j => provider'[o] = provider[o]
BY DEF TypeOK

\* The steps that only move processes on.
LEMMA QuietStepsKeepJobs ==
  ASSUME AllJobs, NEW j \in Job, NEW i \in Round, NEW s \in Slot,
         \/ ProviderReaped(j, i, s)
         \/ TimeOut(j, i, s)
         \/ WorkerRaises(j, i, s)
         \/ WorkerDies(j, i, s)
         \/ ProviderExits(j, i, s)
         \/ PidChangesHands(j, i, s)
  PROVE  \A k \in Job : JobInv(k)'
<1>1. TypeOK /\ JobInv(j) /\ job' = job
  BY DEF AllJobs, ProviderReaped, TimeOut, WorkerRaises, WorkerDies, ProviderExits, PidChangesHands
<1>2. /\ \/ worker' = worker
         \/ /\ worker[j][i][s] # "none"
            /\ \E state \in {"gone", "reused", "failing", "timed_out", "reporting"} :
                 /\ worker' = [worker EXCEPT ![j][i][s] = state]
                 /\ state = "reporting" =>
                      worker[j][i][s] = "supervising" /\ provider' = provider /\ provider[j][i][s] # "live"
                 /\ state = "timed_out" => worker[j][i][s] = "supervising"
      /\ \/ provider' = provider
         \/ /\ provider[j][i][s] # "none"
            /\ \E state \in {"gone", "reused"} : provider' = [provider EXCEPT ![j][i][s] = state]
  BY DEF ProviderReaped, TimeOut, WorkerRaises, WorkerDies, ProviderExits, PidChangesHands,
         WorkerBecomes, WorkerLive
<1>3. worker[j][i][s] # "none" => Opened(j, i)
  BY <1>1 DEF JobInv, UnopenedRoundsAreEmpty
<1>4. /\ \/ worker'[j][i][s] = worker[j][i][s]
         \/ /\ Opened(j, i)
            /\ worker'[j][i][s] # "claimed"
            /\ Active(j, i, s)' => Active(j, i, s)
            /\ worker'[j][i][s] = "reporting" => ~Live(j, i, s)'
      /\ \A k \in Round, t \in Slot : k # i \/ t # s => worker'[j][k][t] = worker[j][k][t]
      /\ \A o \in Job : o # j => worker'[o] = worker[o]
  <2>1. CASE worker' = worker
    BY <2>1
  <2>2. CASE worker' # worker
    <3>1. PICK state \in {"gone", "reused", "failing", "timed_out", "reporting"} :
            /\ worker[j][i][s] # "none"
            /\ worker' = [worker EXCEPT ![j][i][s] = state]
            /\ state = "reporting" =>
                 worker[j][i][s] = "supervising" /\ provider' = provider /\ provider[j][i][s] # "live"
            /\ state = "timed_out" => worker[j][i][s] = "supervising"
      BY <1>2, <2>2
    <3>2. /\ worker'[j][i][s] = state
          /\ \A k \in Round, t \in Slot : k # i \/ t # s => worker'[j][k][t] = worker[j][k][t]
          /\ \A o \in Job : o # j => worker'[o] = worker[o]
      BY <1>1, <3>1, OneWorkerChanges
    <3> QED
      BY <1>3, <3>1, <3>2 DEF Active, Live
  <2> QED
    BY <2>1, <2>2
<1>5. /\ provider'[j][i][s] = "none" <=> provider[j][i][s] = "none"
      /\ Live(j, i, s)' => Live(j, i, s)
      /\ \A k \in Round, t \in Slot : k # i \/ t # s => provider'[j][k][t] = provider[j][k][t]
      /\ \A o \in Job : o # j => provider'[o] = provider[o]
  <2>1. CASE provider' = provider
    BY <2>1 DEF Live
  <2>2. CASE provider' # provider
    <3>1. PICK state \in {"gone", "reused"} :
            /\ provider[j][i][s] # "none"
            /\ provider' = [provider EXCEPT ![j][i][s] = state]
      BY <1>2, <2>2
    <3>2. /\ provider'[j][i][s] = state
          /\ \A k \in Round, t \in Slot : k # i \/ t # s => provider'[j][k][t] = provider[j][k][t]
          /\ \A o \in Job : o # j => provider'[o] = provider[o]
      BY <1>1, <3>1, OneProviderChanges
    <3> QED
      BY <3>1, <3>2 DEF Live
  <2> QED
    BY <2>1, <2>2
<1>6. \A k \in Round, t \in Slot :
        /\ \/ worker'[j][k][t] = worker[j][k][t]
           \/ /\ Opened(j, k)
              /\ worker'[j][k][t] # "claimed"
              /\ Active(j, k, t)' => Active(j, k, t)
              /\ worker'[j][k][t] = "reporting" => ~Live(j, k, t)'
        /\ provider'[j][k][t] = "none" <=> provider[j][k][t] = "none"
        /\ Live(j, k, t)' => Live(j, k, t)
  BY <1>4, <1>5 DEF Live
<1>7. JobInv(j)'
  BY <1>1, <1>6, ProcessesQuieten
<1> QED
  BY <1>1, <1>4, <1>5, <1>7, OtherJob DEF AllJobs

LEMMA ReplayKeepsJobs ==
  ASSUME AllJobs, NEW j \in Job, NEW i \in Round, ReplayWorker(j, i)
  PROVE  \A k \in Job : JobInv(k)'
<1>1. TypeOK /\ JobInv(j) /\ job' = job /\ provider' = provider /\ "replayed" \in Slot
  BY DEF AllJobs, ReplayWorker, Slot
<1>2. Opened(j, i) /\ worker' = [worker EXCEPT ![j][i]["replayed"] = "boot"]
  BY DEF ReplayWorker, WorkerBecomes, Opened
<1>3. /\ worker'[j][i]["replayed"] = "boot"
      /\ \A k \in Round, t \in Slot : k # i \/ t # "replayed" => worker'[j][k][t] = worker[j][k][t]
      /\ \A o \in Job : o # j => worker'[o] = worker[o]
  BY <1>1, <1>2, OneWorkerChanges
<1>4. \A k \in Round, t \in Slot :
        /\ \/ worker'[j][k][t] = worker[j][k][t]
           \/ /\ Opened(j, k)
              /\ worker'[j][k][t] # "claimed"
              /\ Active(j, k, t)' => Active(j, k, t)
              /\ worker'[j][k][t] = "reporting" => ~Live(j, k, t)'
        /\ provider'[j][k][t] = "none" <=> provider[j][k][t] = "none"
        /\ Live(j, k, t)' => Live(j, k, t)
  BY <1>1, <1>2, <1>3 DEF Live, Active
<1>5. JobInv(j)'
  BY <1>1, <1>4, ProcessesQuieten
<1> QED
  BY <1>1, <1>3, <1>5, OtherJob DEF AllJobs

\* A round that nobody decided yet and whose claim is free: nothing of it runs.
LEMMA ClaimKeepsJobs ==
  ASSUME AllJobs, NEW j \in Job, NEW i \in Round, NEW s \in Slot, ClaimRound(j, i, s)
  PROVE  \A k \in Job : JobInv(k)'
<1>1. TypeOK /\ JobInv(j) /\ provider' = provider /\ job[j] \in JobRecords
  BY JobType DEF AllJobs, ClaimRound
<1>2. Opened(j, i)
  BY <1>1 DEF ClaimRound, JobInv, UnopenedRoundsAreEmpty
<1>3. CASE ~MayClaim(j, i)
  <2>1. job' = job /\ worker' = [worker EXCEPT ![j][i][s] = "gone"]
    BY <1>3 DEF ClaimRound, WorkerBecomes
  <2>2. /\ worker'[j][i][s] = "gone"
        /\ \A k \in Round, t \in Slot : k # i \/ t # s => worker'[j][k][t] = worker[j][k][t]
        /\ \A o \in Job : o # j => worker'[o] = worker[o]
    BY <1>1, <2>1, OneWorkerChanges
  <2>3. \A k \in Round, t \in Slot :
          /\ \/ worker'[j][k][t] = worker[j][k][t]
             \/ /\ Opened(j, k)
                /\ worker'[j][k][t] # "claimed"
                /\ Active(j, k, t)' => Active(j, k, t)
                /\ worker'[j][k][t] = "reporting" => ~Live(j, k, t)'
          /\ provider'[j][k][t] = "none" <=> provider[j][k][t] = "none"
          /\ Live(j, k, t)' => Live(j, k, t)
    BY <1>1, <1>2, <2>2 DEF Live, Active
  <2>4. JobInv(j)'
    BY <1>1, <2>1, <2>3, ProcessesQuieten
  <2> QED
    BY <1>1, <2>1, <2>2, <2>4, OtherJob DEF AllJobs
<1>4. CASE MayClaim(j, i)
  <2>1. PICK verified \in BOOLEAN : job' = [job EXCEPT ![j] = Claimed(job[j], i, s, verified)]
    BY <1>1, <1>4 DEF ClaimRound, TypeOK, Captured
  <2> DEFINE new == Claimed(job[j], i, s, verified)
  <2>2. /\ job'[j] = new
        /\ \A k \in Job : k # j => job'[k] = job[k]
    BY <1>1, <2>1, OneJobWritten
  <2>3. /\ worker'[j][i][s] = "claimed"
        /\ \A k \in Round, t \in Slot : k # i \/ t # s => worker'[j][k][t] = worker[j][k][t]
        /\ \A o \in Job : o # j => worker'[o] = worker[o]
    BY <1>1, <1>4, OneWorkerChanges DEF ClaimRound, WorkerBecomes
  <2>4. /\ OnlyRound(new, job[j], i) /\ SameVerdict(new, job[j], i)
        /\ new.phase = "running"
        /\ new.rounds[i].claim_consumed
        /\ new.rounds[i].worker.slot = s
        /\ new.rounds[i].claude = job[j].rounds[i].claude
        /\ new.rounds[i].claude_launch_pending = job[j].rounds[i].claude_launch_pending
    BY <1>1, ClaimedEffect
  <2> HIDE DEF new
  <2>5. i = job[j].current_round /\ ~job[j].rounds[i].claim_consumed
    BY <1>4 DEF MayClaim, guarded_round
  <2>6. \A t \in Slot : ~Active(j, i, t) /\ provider[j][i][t] = "none"
    BY <1>1, <2>5 DEF JobInv, ClaimNamesTheWorker
  <2>7. \A k \in Round, t \in Slot : ~Live(j, k, t) /\ ~Live(j, k, t)'
    BY <1>1, <2>5, <2>6 DEF JobInv, LiveProviderIsVisible, Live
  <2>8. \A k \in Round, t \in Slot : ~Active(j, k, t)
    BY <1>1, <2>5, <2>6 DEF JobInv, ActiveWorkerIsCurrent
  <2>9. \A k \in Round, t \in Slot : Active(j, k, t)' => k = i /\ t = s
    BY <2>3, <2>8 DEF Active
  <2>10. job[j].rounds[i].verification \notin {"ok", "placeholder"}
    BY <1>1, <2>5 DEF JobInv, VerdictsComeLast, Slot
  <2>11. StartedJobHasKey(j)'
    BY <1>1, <1>2, <2>2, <2>4 DEF JobInv, StartedJobHasKey, OnlyRound, Opened, Exists, ABSENT
  <2>12. UnopenedRoundsAreEmpty(j)'
    <3>1. ASSUME NEW k \in Round, ~Opened(j, k)'
          PROVE  /\ job'[j].rounds[k] = NoRound
                 /\ \A t \in Slot : worker'[j][k][t] = "none" /\ provider'[j][k][t] = "none"
      <4>1. ~Opened(j, k) /\ k # i
        BY <2>2, <2>4, <2>5, <3>1 DEF Opened, Exists, OnlyRound, ABSENT, Round
      <4> QED
        BY <1>1, <2>2, <2>3, <2>4, <4>1 DEF JobInv, UnopenedRoundsAreEmpty, OnlyRound
    <3> QED
      BY ONLY <3>1 DEF UnopenedRoundsAreEmpty
  <2>13. RecordedProviderWasSpawned(j)'
    <3>1. \A k \in Round : job'[j].rounds[k].claude = job[j].rounds[k].claude
      BY <2>2, <2>4 DEF OnlyRound
    <3> QED
      BY <1>1, <3>1 DEF JobInv, RecordedProviderWasSpawned
  <2>14. ClaimNamesTheWorker(j)'
    <3>1. ASSUME NEW k \in Round, NEW t \in Slot, Active(j, k, t)' \/ provider'[j][k][t] # "none"
          PROVE  /\ job'[j].rounds[k].claim_consumed
                 /\ job'[j].rounds[k].worker.slot = t
                 /\ provider'[j][k][t] # "none" => worker'[j][k][t] # "claimed"
      <4>1. CASE k = i
        BY <1>1, <2>2, <2>4, <2>6, <2>9, <3>1, <4>1
      <4>2. CASE k # i
        BY <1>1, <2>2, <2>3, <2>4, <2>9, <3>1, <4>2 DEF JobInv, ClaimNamesTheWorker, OnlyRound
      <4> QED
        BY <4>1, <4>2
    <3> QED
      BY ONLY <3>1 DEF ClaimNamesTheWorker
  <2>15. LiveProviderIsVisible(j)' /\ InterruptedMeansDead(j)'
    BY <2>7 DEF LiveProviderIsVisible, InterruptedMeansDead
  <2>16. ActiveWorkerIsCurrent(j)' /\ ReviewMeansVerified(j)'
    BY <2>2, <2>4, <2>5, <2>9 DEF ActiveWorkerIsCurrent, ReviewMeansVerified, OnlyRound
  <2>17. VerdictsComeLast(j)'
    <3>1. ASSUME NEW k \in Round, job'[j].rounds[k].verification \in {"ok", "placeholder"}
          PROVE  /\ job'[j].rounds[k].claim_consumed
                 /\ job'[j].rounds[k].finalized
                 /\ k # i
      <4>1. k # i
        BY <2>2, <2>4, <2>10, <3>1 DEF SameVerdict
      <4> QED
        BY <1>1, <2>2, <2>4, <3>1, <4>1 DEF JobInv, VerdictsComeLast, OnlyRound, Slot
    <3> QED
      BY ONLY <2>7, <2>9, <3>1 DEF VerdictsComeLast
  <2>18. JobInv(j)'
    BY <2>11, <2>12, <2>13, <2>14, <2>15, <2>16, <2>17 DEF JobInv
  <2> QED
    BY <1>1, <2>2, <2>3, <2>18, OtherJob DEF AllJobs
<1> QED
  BY <1>3, <1>4

\* What holds when a worker that took the claim reaches the launch: its round
\* is current and reserved, has no provider yet, and nothing of it is verified.
LEMMA BeforeLaunch ==
  ASSUME NEW j \in Job, JobInv(j), TypeOK, NEW i \in Round, NEW s \in Slot,
         worker[j][i][s] = "claimed"
  PROVE  /\ i = job[j].current_round
         /\ Exists(j) /\ Reserved(j)
         /\ job[j].phase \notin {"interrupted", "awaiting_review"}
         /\ job[j].rounds[i].claim_consumed
         /\ job[j].rounds[i].worker.slot = s
         /\ job[j].rounds[i].claude = NoIdentity
         /\ job[j].rounds[i].verification \notin {"ok", "placeholder"}
         /\ \A t \in Slot : provider[j][i][t] = "none"
         /\ \A k \in Round, t \in Slot : ~Live(j, k, t)
         /\ \A k \in Round, t \in Slot : Active(j, k, t) => k = i /\ t = s
<1>1. Active(j, i, s)
  BY DEF Active
<1>2. i = job[j].current_round /\ job[j].phase \notin {"stopped", "interrupted"}
  BY <1>1 DEF JobInv, ActiveWorkerIsCurrent
<1>3. job[j].rounds[i].claim_consumed /\ job[j].rounds[i].worker.slot = s
  BY <1>1 DEF JobInv, ClaimNamesTheWorker
<1>4. \A t \in Slot : provider[j][i][t] = "none"
  BY <1>3 DEF JobInv, ClaimNamesTheWorker
<1>5. job[j].rounds[i].claude = NoIdentity
  BY <1>4 DEF JobInv, RecordedProviderWasSpawned
<1>6. job[j].rounds[i].verification \notin {"ok", "placeholder"}
  BY <1>1 DEF JobInv, VerdictsComeLast
<1>7. \A k \in Round, t \in Slot : ~Live(j, k, t)
  BY <1>2, <1>4 DEF JobInv, LiveProviderIsVisible, Live
<1>8. \A k \in Round, t \in Slot : Active(j, k, t) => k = i /\ t = s
  BY <1>2, <1>3 DEF JobInv, ActiveWorkerIsCurrent, ClaimNamesTheWorker
<1>9. Exists(j)
  BY <1>1 DEF JobInv, UnopenedRoundsAreEmpty, Opened, Active
<1>10. job[j].phase \notin {"awaiting_review", "accepted"}
  BY <1>2, <1>6 DEF JobInv, ReviewMeansVerified, Current
<1>11. Reserved(j)
  BY <1>2, <1>9, <1>10 DEF TypeOK, JobRecords, Exists, Reserved, Phase, TERMINAL_DECISION_PHASES
<1> QED
  BY <1>2, <1>3, <1>4, <1>5, <1>6, <1>7, <1>8, <1>9, <1>10, <1>11

\* What the launch leaves behind in the record, whatever its outcome: a spawned
\* provider is recorded or pending, and the round keeps its claim and worker.
LEMMA LaunchEffect ==
  ASSUME AllJobs, NEW j \in Job, NEW i \in Round, NEW s \in Slot, LaunchProvider(j, i, s)
  PROVE  /\ OnlyRound(job'[j], job[j], i)
         /\ job'[j].phase = job[j].phase \/ job'[j].phase = "needs_attention"
         /\ job'[j].rounds[i].claim_consumed = job[j].rounds[i].claim_consumed
         /\ job'[j].rounds[i].worker = job[j].rounds[i].worker
         /\ job'[j].rounds[i].verification = job[j].rounds[i].verification
         /\ \/ /\ job'[j].rounds[i].claude = job[j].rounds[i].claude
               /\ provider' = provider
            \/ /\ provider' = [provider EXCEPT ![j][i][s] = "live"]
               /\ \/ job'[j].rounds[i].claude.slot = s
                  \/ /\ job'[j].rounds[i].claude = job[j].rounds[i].claude
                     /\ job'[j].rounds[i].claude_launch_pending
         /\ \E state \in {"gone", "supervising", "failing"} :
              worker' = [worker EXCEPT ![j][i][s] = state]
         /\ \A k \in Job : k # j => job'[k] = job[k]
<1>0. TypeOK /\ JobInv(j) /\ job[j] \in JobRecords /\ worker[j][i][s] = "claimed"
  BY JobType DEF AllJobs, LaunchProvider
<1>1. guarded_round(j, i)
  BY <1>0, BeforeLaunch DEF guarded_round
<1>2. ASSUME NEW b \in BOOLEAN, job'[j] = PendingLaunch(job[j], i, b)
      PROVE  /\ OnlyRound(job'[j], job[j], i)
             /\ job'[j].phase = job[j].phase
             /\ job'[j].rounds[i].claim_consumed = job[j].rounds[i].claim_consumed
             /\ job'[j].rounds[i].worker = job[j].rounds[i].worker
             /\ job'[j].rounds[i].verification = job[j].rounds[i].verification
             /\ job'[j].rounds[i].claude = job[j].rounds[i].claude
             /\ b => job'[j].rounds[i].claude_launch_pending
  <2>1. PendingLaunch(job[j], i, b).phase = job[j].phase
    BY <1>0, PendingLaunchEffect
  <2>2. job'[j].phase = job[j].phase
    BY <1>2, <2>1
  <2>3. /\ OnlyRound(job'[j], job[j], i)
        /\ job'[j].rounds[i].claim_consumed = job[j].rounds[i].claim_consumed
        /\ job'[j].rounds[i].worker = job[j].rounds[i].worker
        /\ job'[j].rounds[i].verification = job[j].rounds[i].verification
        /\ job'[j].rounds[i].claude = job[j].rounds[i].claude
        /\ b => job'[j].rounds[i].claude_launch_pending
    BY <1>0, <1>2, PendingLaunchEffect DEF SameVerdict
  <2> QED
    BY <2>2, <2>3
<1>3. CASE job[j].stop_requested
  <2>1. /\ job' = [job EXCEPT ![j] = PendingLaunch(job[j], i, FALSE)]
        /\ worker' = [worker EXCEPT ![j][i][s] = "gone"]
        /\ provider' = provider
    BY <1>0, <1>1, <1>3 DEF LaunchProvider, WorkerBecomes, TypeOK
  <2>2. /\ job'[j] = PendingLaunch(job[j], i, FALSE)
        /\ \A k \in Job : k # j => job'[k] = job[k]
    BY <1>0, <2>1, OneJobWritten
  <2>3. /\ OnlyRound(job'[j], job[j], i)
        /\ job'[j].phase = job[j].phase \/ job'[j].phase = "needs_attention"
        /\ job'[j].rounds[i].claim_consumed = job[j].rounds[i].claim_consumed
        /\ job'[j].rounds[i].worker = job[j].rounds[i].worker
        /\ job'[j].rounds[i].verification = job[j].rounds[i].verification
        /\ job'[j].rounds[i].claude = job[j].rounds[i].claude
    BY <1>2, <2>2
  <2>4. \E state \in {"gone", "supervising", "failing"} :
          worker' = [worker EXCEPT ![j][i][s] = state]
    BY <2>1
  <2> QED
    BY ONLY <2>1, <2>2, <2>3, <2>4, Zenon
<1>4. CASE ~job[j].stop_requested
  <2>1. PICK outcome \in SpawnOutcome : SpawnProvider(j, i, s, outcome)
    BY <1>1, <1>4 DEF LaunchProvider
  <2>2. /\ \A k \in Job : k # j => job'[k] = job[k]
        /\ job'[j] = CASE outcome = "refused" -> LaunchRefused(job[j], i)
                       [] outcome = "spawn_failed" -> PendingLaunch(job[j], i, FALSE)
                       [] outcome \in {"registered", "unverified"} ->
                            ClaudeRegistered(job[j], i, s, outcome = "registered")
                       [] OTHER -> PendingLaunch(job[j], i, TRUE)
    BY <1>0, <2>1 DEF SpawnProvider, TypeOK
  <2>3. \E state \in {"gone", "supervising", "failing"} :
          worker' = [worker EXCEPT ![j][i][s] = state]
    BY <2>1 DEF SpawnProvider, WorkerBecomes
  <2>4. CASE outcome \in {"refused", "died_before_spawn", "spawn_failed"}
    <3>1. provider' = provider
      BY <2>1, <2>4 DEF SpawnProvider
    <3>2. job'[j] \in {LaunchRefused(job[j], i), PendingLaunch(job[j], i, FALSE),
                       PendingLaunch(job[j], i, TRUE)}
      BY <2>2, <2>4
    <3>3. /\ OnlyRound(job'[j], job[j], i)
          /\ job'[j].phase = job[j].phase \/ job'[j].phase = "needs_attention"
          /\ job'[j].rounds[i].claim_consumed = job[j].rounds[i].claim_consumed
          /\ job'[j].rounds[i].worker = job[j].rounds[i].worker
          /\ job'[j].rounds[i].verification = job[j].rounds[i].verification
          /\ job'[j].rounds[i].claude = job[j].rounds[i].claude
      <4>1. CASE job'[j] = LaunchRefused(job[j], i)
        BY <1>0, <4>1, LaunchRefusedEffect
      <4>2. CASE job'[j] # LaunchRefused(job[j], i)
        BY <1>2, <3>2, <4>2
      <4> QED
        BY <4>1, <4>2
    <3> QED
      BY ONLY <2>2, <2>3, <3>1, <3>3, Zenon
  <2>5. CASE outcome \in {"registered", "unverified"}
    <3>1. provider' = [provider EXCEPT ![j][i][s] = "live"]
      BY <2>1, <2>5 DEF SpawnProvider
    <3>2. job'[j] = ClaudeRegistered(job[j], i, s, outcome = "registered")
      BY <2>2, <2>5
    <3>3. /\ OnlyRound(job'[j], job[j], i)
          /\ job'[j].phase = job[j].phase \/ job'[j].phase = "needs_attention"
          /\ job'[j].rounds[i].claim_consumed = job[j].rounds[i].claim_consumed
          /\ job'[j].rounds[i].worker = job[j].rounds[i].worker
          /\ job'[j].rounds[i].verification = job[j].rounds[i].verification
          /\ job'[j].rounds[i].claude.slot = s
      BY <1>0, <3>2, ClaudeRegisteredEffect DEF SameVerdict
    <3> QED
      BY ONLY <2>2, <2>3, <3>1, <3>3, Zenon
  <2>6. CASE outcome \in {"died_after_spawn", "failed_after_spawn"}
    <3>1. provider' = [provider EXCEPT ![j][i][s] = "live"]
      BY <2>1, <2>6 DEF SpawnProvider
    <3>2. job'[j] = PendingLaunch(job[j], i, TRUE)
      BY <2>2, <2>6
    <3>3. /\ OnlyRound(job'[j], job[j], i)
          /\ job'[j].phase = job[j].phase \/ job'[j].phase = "needs_attention"
          /\ job'[j].rounds[i].claim_consumed = job[j].rounds[i].claim_consumed
          /\ job'[j].rounds[i].worker = job[j].rounds[i].worker
          /\ job'[j].rounds[i].verification = job[j].rounds[i].verification
          /\ job'[j].rounds[i].claude = job[j].rounds[i].claude
          /\ job'[j].rounds[i].claude_launch_pending
      BY <1>2, <3>2
    <3> QED
      BY ONLY <2>2, <2>3, <3>1, <3>3, Zenon
  <2> QED
    BY <2>4, <2>5, <2>6 DEF SpawnOutcome
<1> QED
  BY <1>3, <1>4

LEMMA LaunchProviderKeepsJobs ==
  ASSUME AllJobs, NEW j \in Job, NEW i \in Round, NEW s \in Slot, LaunchProvider(j, i, s)
  PROVE  \A k \in Job : JobInv(k)'
<1>0. TypeOK /\ JobInv(j) /\ job[j] \in JobRecords /\ worker[j][i][s] = "claimed"
  BY JobType DEF AllJobs, LaunchProvider
<1>1. /\ i = job[j].current_round
      /\ Exists(j) /\ Reserved(j)
      /\ job[j].phase \notin {"interrupted", "awaiting_review"}
      /\ job[j].rounds[i].claim_consumed
      /\ job[j].rounds[i].worker.slot = s
      /\ job[j].rounds[i].claude = NoIdentity
      /\ job[j].rounds[i].verification \notin {"ok", "placeholder"}
      /\ \A t \in Slot : provider[j][i][t] = "none"
      /\ \A k \in Round, t \in Slot : ~Live(j, k, t)
      /\ \A k \in Round, t \in Slot : Active(j, k, t) => k = i /\ t = s
  BY <1>0, BeforeLaunch
<1> DEFINE new == job'[j]
<1>2. /\ OnlyRound(new, job[j], i)
      /\ new.phase = job[j].phase \/ new.phase = "needs_attention"
      /\ new.rounds[i].claim_consumed
      /\ new.rounds[i].worker.slot = s
      /\ new.rounds[i].verification \notin {"ok", "placeholder"}
      /\ \A k \in Job : k # j => job'[k] = job[k]
  BY <1>1, LaunchEffect
<1>3. new.phase \in RESERVING_PHASES \ {"interrupted", "awaiting_review"}
  BY <1>1, <1>2 DEF Reserved, RESERVING_PHASES
<1>4. /\ worker'[j][i][s] \in {"gone", "supervising", "failing"}
      /\ \A k \in Round, t \in Slot : k # i \/ t # s => worker'[j][k][t] = worker[j][k][t]
      /\ \A o \in Job : o # j => worker'[o] = worker[o]
  <2>1. PICK state \in {"gone", "supervising", "failing"} :
          worker' = [worker EXCEPT ![j][i][s] = state]
    BY LaunchEffect
  <2>2. /\ worker'[j][i][s] = state
        /\ \A k \in Round, t \in Slot : k # i \/ t # s => worker'[j][k][t] = worker[j][k][t]
        /\ \A o \in Job : o # j => worker'[o] = worker[o]
    BY <1>0, <2>1, OneWorkerChanges
  <2> QED
    BY <2>2
<1>5. /\ \A k \in Round, t \in Slot : k # i \/ t # s => provider'[j][k][t] = provider[j][k][t]
      /\ \A o \in Job : o # j => provider'[o] = provider[o]
      /\ \/ provider'[j][i][s] = "none" /\ new.rounds[i].claude = NoIdentity
         \/ /\ provider'[j][i][s] = "live"
            /\ \/ new.rounds[i].claude.slot = s
               \/ new.rounds[i].claude = NoIdentity /\ new.rounds[i].claude_launch_pending
  <2>1. CASE provider' = provider /\ new.rounds[i].claude = NoIdentity
    BY <1>1, <2>1
  <2>2. CASE /\ provider' = [provider EXCEPT ![j][i][s] = "live"]
             /\ \/ new.rounds[i].claude.slot = s
                \/ new.rounds[i].claude = NoIdentity /\ new.rounds[i].claude_launch_pending
    <3>1. /\ provider'[j][i][s] = "live"
          /\ \A k \in Round, t \in Slot : k # i \/ t # s => provider'[j][k][t] = provider[j][k][t]
          /\ \A o \in Job : o # j => provider'[o] = provider[o]
      BY <1>0, <2>2, OneProviderChanges
    <3> QED
      BY <2>2, <3>1
  <2>3. \/ /\ new.rounds[i].claude = job[j].rounds[i].claude
           /\ provider' = provider
        \/ /\ provider' = [provider EXCEPT ![j][i][s] = "live"]
           /\ \/ new.rounds[i].claude.slot = s
              \/ /\ new.rounds[i].claude = job[j].rounds[i].claude
                 /\ new.rounds[i].claude_launch_pending
    BY LaunchEffect
  <2> QED
    BY <1>1, <2>1, <2>2, <2>3
<1>6. \A k \in Round : k # i => new.rounds[k] = job[j].rounds[k]
  BY <1>2 DEF OnlyRound
<1>7. new.current_round = i /\ new.reservation_key = job[j].reservation_key
  BY <1>1, <1>2 DEF OnlyRound
<1> HIDE DEF new
<1>8. \A k \in Round, t \in Slot :
        /\ Live(j, k, t)' => k = i /\ t = s
        /\ Active(j, k, t)' => k = i /\ t = s
  BY <1>1, <1>4, <1>5 DEF Live, Active
<1> USE DEF new
<1>9. StartedJobHasKey(j)' /\ ReviewMeansVerified(j)' /\ InterruptedMeansDead(j)'
  BY <1>0, <1>1, <1>3, <1>7
     DEF JobInv, StartedJobHasKey, ReviewMeansVerified, InterruptedMeansDead, RESERVING_PHASES,
         Exists, ABSENT
<1>10. UnopenedRoundsAreEmpty(j)'
  <2>1. ASSUME NEW k \in Round, ~Opened(j, k)'
        PROVE  /\ job'[j].rounds[k] = NoRound
               /\ \A t \in Slot : worker'[j][k][t] = "none" /\ provider'[j][k][t] = "none"
    <3>1. ~Opened(j, k) /\ k # i
      BY <1>1, <1>3, <1>7, <2>1 DEF Opened, Exists, ABSENT, Round, RESERVING_PHASES
    <3> QED
      BY <1>0, <1>4, <1>5, <1>6, <3>1 DEF JobInv, UnopenedRoundsAreEmpty
  <2> QED
    BY ONLY <2>1 DEF UnopenedRoundsAreEmpty
<1>11. RecordedProviderWasSpawned(j)'
  <2>1. ASSUME NEW k \in Round, job'[j].rounds[k].claude # NoIdentity
        PROVE  /\ job'[j].rounds[k].claude.slot \in Slot
               /\ provider'[j][k][job'[j].rounds[k].claude.slot] # "none"
    <3>1. CASE k = i
      BY <1>5, <2>1, <3>1
    <3>2. CASE k # i
      <4>1. /\ job[j].rounds[k].claude.slot \in Slot
            /\ provider[j][k][job[j].rounds[k].claude.slot] # "none"
        BY <1>0, <1>6, <2>1, <3>2 DEF JobInv, RecordedProviderWasSpawned
      <4>2. job'[j].rounds[k].claude = job[j].rounds[k].claude
        BY <1>6, <3>2
      <4>3. \A t \in Slot : provider'[j][k][t] = provider[j][k][t]
        BY <1>5, <3>2
      <4> QED
        BY <4>1, <4>2, <4>3
    <3> QED
      BY <3>1, <3>2
  <2> QED
    BY ONLY <2>1 DEF RecordedProviderWasSpawned
<1>12. ClaimNamesTheWorker(j)'
  <2>1. ASSUME NEW k \in Round, NEW t \in Slot, Active(j, k, t)' \/ provider'[j][k][t] # "none"
        PROVE  /\ job'[j].rounds[k].claim_consumed
               /\ job'[j].rounds[k].worker.slot = t
               /\ provider'[j][k][t] # "none" => worker'[j][k][t] # "claimed"
    <3>1. CASE k = i
      BY <1>1, <1>2, <1>4, <1>5, <1>8, <2>1, <3>1
    <3>2. CASE k # i
      BY <1>0, <1>4, <1>5, <1>6, <1>8, <2>1, <3>2 DEF JobInv, ClaimNamesTheWorker
    <3> QED
      BY <3>1, <3>2
  <2> QED
    BY ONLY <2>1 DEF ClaimNamesTheWorker
<1>13. LiveProviderIsVisible(j)'
  <2>1. ASSUME NEW k \in Round, NEW t \in Slot, Live(j, k, t)'
        PROVE  /\ Reserved(j)'
               /\ k = job'[j].current_round
               /\ \/ job'[j].rounds[k].claude.slot = t
                  \/ /\ job'[j].rounds[k].claude = NoIdentity
                     /\ job'[j].rounds[k].claude_launch_pending
    BY <1>3, <1>5, <1>7, <1>8, <2>1 DEF Reserved, Live
  <2> QED
    BY ONLY <2>1 DEF LiveProviderIsVisible
<1>14. ActiveWorkerIsCurrent(j)'
  BY <1>3, <1>7, <1>8 DEF ActiveWorkerIsCurrent, RESERVING_PHASES
<1>15. VerdictsComeLast(j)'
  <2>1. ASSUME NEW k \in Round, NEW t \in Slot
        PROVE  /\ worker'[j][k][t] # "reporting"
               /\ job'[j].rounds[k].verification \in {"ok", "placeholder"} =>
                    /\ job'[j].rounds[k].claim_consumed
                    /\ job'[j].rounds[k].finalized
                    /\ ~Active(j, k, t)'
                    /\ ~Live(j, k, t)'
    <3>1. worker'[j][k][t] # "reporting"
      BY <1>1, <1>4 DEF Active
    <3>2. CASE k = i
      BY <1>2, <3>1, <3>2
    <3>3. CASE k # i
      BY <1>0, <1>6, <1>8, <3>1, <3>3 DEF JobInv, VerdictsComeLast
    <3> QED
      BY <3>2, <3>3
  <2> QED
    BY ONLY <2>1 DEF VerdictsComeLast
<1>16. JobInv(j)'
  BY <1>9, <1>10, <1>11, <1>12, <1>13, <1>14, <1>15 DEF JobInv
<1> QED
  BY <1>0, <1>2, <1>4, <1>5, <1>16, OtherJob DEF AllJobs

\* A worker that reports: its round is current, and its provider is gone unless
\* the wait timed out.
LEMMA CompleteKeepsJobs ==
  ASSUME AllJobs, NEW j \in Job, NEW i \in Round, NEW s \in Slot, NEW verdict \in Verdict,
         CompleteRound(j, i, s, verdict)
  PROVE  \A k \in Job : JobInv(k)'
<1> DEFINE new == complete_round(job[j], i, verdict)
<1>1. /\ TypeOK /\ JobInv(j) /\ job[j] \in JobRecords
      /\ Active(j, i, s) /\ provider' = provider
  BY JobType DEF AllJobs, CompleteRound, Active
<1>2. /\ i = job[j].current_round
      /\ job[j].rounds[i].claim_consumed
      /\ job[j].rounds[i].worker.slot = s
      /\ job[j].rounds[i].verification \notin {"ok", "placeholder"}
      /\ Exists(j)
  BY <1>1 DEF JobInv, ActiveWorkerIsCurrent, ClaimNamesTheWorker, VerdictsComeLast,
              UnopenedRoundsAreEmpty, Opened, Active
<1>3. job'[j] = new /\ \A k \in Job : k # j => job'[k] = job[k]
  BY <1>1, <1>2, OneJobWritten DEF CompleteRound, guarded_round
<1>4. /\ worker'[j][i][s] = "gone"
      /\ \A k \in Round, t \in Slot : k # i \/ t # s => worker'[j][k][t] = worker[j][k][t]
      /\ \A o \in Job : o # j => worker'[o] = worker[o]
  BY <1>1, OneWorkerChanges DEF CompleteRound, WorkerBecomes
<1>5. /\ OnlyRound(new, job[j], i) /\ SameProcesses(new, job[j], i)
      /\ new.phase = IF Decided(job[j]) THEN job[j].phase ELSE PhaseAfter(verdict)
      /\ new.rounds[i].finalized
      /\ new.rounds[i].verification = verdict
  BY <1>1, CompletedEffect
<1>6. job[j].phase \notin {"awaiting_review", "accepted"}
  BY <1>1, <1>2 DEF JobInv, ReviewMeansVerified, Current
<1>7. \/ new.phase = job[j].phase
      \/ new.phase \in RESERVING_PHASES \ {"interrupted"}
  BY <1>5 DEF PhaseAfter, RESERVING_PHASES
<1>8. new.phase \in Phase
  BY <1>1, <1>2, <1>7 DEF Phase, JobRecords, Exists
<1>9. new.phase \in {"awaiting_review", "accepted"} => verdict = "ok"
  BY <1>5, <1>6 DEF PhaseAfter
<1>10. \A k \in Round, t \in Slot :
         worker'[j][k][t] = worker[j][k][t] \/ (Opened(j, k) /\ ~Active(j, k, t)')
  BY <1>2, <1>4 DEF Opened, Active, Round
<1>11. verdict \in {"ok", "placeholder"} => \A t \in Slot : ~Active(j, i, t)' /\ ~Live(j, i, t)
  <2> SUFFICES ASSUME verdict \in {"ok", "placeholder"}, NEW t \in Slot
               PROVE  ~Active(j, i, t)' /\ ~Live(j, i, t)
    OBVIOUS
  <2>1. worker[j][i][s] = "reporting"
    BY DEF CompleteRound
  <2>2. Live(j, i, t) => t = s
    BY <1>1, <1>2 DEF JobInv, ClaimNamesTheWorker, Live
  <2>3. ~Live(j, i, t)
    BY <1>1, <2>1, <2>2 DEF JobInv, VerdictsComeLast
  <2>4. Active(j, i, t) => t = s
    BY <1>1, <1>2 DEF JobInv, ClaimNamesTheWorker
  <2> QED
    BY <1>4, <2>3, <2>4 DEF Active
<1> HIDE DEF new
<1>12. JobInv(j)'
  BY <1>1, <1>2, <1>3, <1>5, <1>7, <1>8, <1>9, <1>10, <1>11, RoundDecided
<1> QED
  BY <1>1, <1>3, <1>4, <1>12, OtherJob DEF AllJobs

LEMMA FailureKeepsJobs ==
  ASSUME AllJobs, NEW j \in Job, NEW i \in Round, NEW s \in Slot, NEW recorded \in BOOLEAN,
         RecordFailure(j, i, s, recorded)
  PROVE  \A k \in Job : JobInv(k)'
<1> DEFINE new == finalize_worker_failure(job[j], i)
<1>1. /\ TypeOK /\ JobInv(j) /\ job[j] \in JobRecords /\ provider' = provider
      /\ worker[j][i][s] = "failing"
  BY JobType DEF AllJobs, RecordFailure
<1>2. Opened(j, i)
  BY <1>1 DEF JobInv, UnopenedRoundsAreEmpty
<1>3. /\ worker'[j][i][s] = "gone"
      /\ \A k \in Round, t \in Slot : k # i \/ t # s => worker'[j][k][t] = worker[j][k][t]
      /\ \A o \in Job : o # j => worker'[o] = worker[o]
  BY <1>1, OneWorkerChanges DEF RecordFailure, WorkerBecomes
<1>4. \A k \in Round, t \in Slot :
        worker'[j][k][t] = worker[j][k][t] \/ (k = i /\ t = s /\ ~Active(j, k, t)')
  BY <1>3 DEF Active
<1>5. CASE job' = job
  <2>1. \A k \in Round, t \in Slot :
          /\ \/ worker'[j][k][t] = worker[j][k][t]
             \/ /\ Opened(j, k)
                /\ worker'[j][k][t] # "claimed"
                /\ Active(j, k, t)' => Active(j, k, t)
                /\ worker'[j][k][t] = "reporting" => ~Live(j, k, t)'
          /\ provider'[j][k][t] = "none" <=> provider[j][k][t] = "none"
          /\ Live(j, k, t)' => Live(j, k, t)
    BY <1>1, <1>2, <1>3 DEF Live, Active
  <2>2. JobInv(j)'
    BY <1>1, <1>5, <2>1, ProcessesQuieten
  <2> QED
    BY <1>1, <1>3, <1>5, <2>2, OtherJob DEF AllJobs
<1>6. CASE job' # job
  <2>1. i = job[j].current_round /\ job' = [job EXCEPT ![j] = new]
    BY <1>1, <1>6 DEF RecordFailure, guarded_round, TypeOK
  <2>2. job'[j] = new /\ \A k \in Job : k # j => job'[k] = job[k]
    BY <1>1, <2>1, OneJobWritten
  <2>3. new # job[j]
    BY <1>1, <1>6, <2>1 DEF TypeOK
  <2>4. /\ OnlyRound(new, job[j], i) /\ SameProcesses(new, job[j], i)
        /\ new.phase = "needs_attention"
        /\ new.rounds[i].verification = "soft"
    BY <1>1, <2>3, WorkerFailureEffect
  <2>5. new.phase \in RESERVING_PHASES \ {"interrupted"} /\ new.phase \in Phase
    BY <2>4 DEF RESERVING_PHASES, Phase
  <2>6. Exists(j)
    BY <1>2 DEF Opened
  <2>7. \A k \in Round, t \in Slot :
          worker'[j][k][t] = worker[j][k][t] \/ (Opened(j, k) /\ ~Active(j, k, t)')
    BY <1>2, <1>4
  <2> HIDE DEF new
  <2>8. JobInv(j)'
    BY <1>1, <2>1, <2>2, <2>4, <2>5, <2>6, <2>7, RoundDecided
  <2> QED
    BY <1>1, <1>3, <2>2, <2>8, OtherJob DEF AllJobs
<1> QED
  BY <1>5, <1>6

-----------------------------------------------------------------------------
(* The invariant of all jobs, and the controllers.                           *)

\* A stop never names a job that does not exist: jobs are never deleted.
LEMMA StopStaysNamed ==
  ASSUME StopNamesAJob, \A k \in Job : Exists(k) => job'[k].phase # ABSENT,
         \A c \in Controller :
           \/ stopping'[c] = IdleController
           \/ stopping'[c].job = stopping[c].job /\ stopping[c] # IdleController
           \/ stopping'[c].job \in Job /\ job'[stopping'[c].job].phase # ABSENT
  PROVE  StopNamesAJob'
<1>1. ASSUME NEW c \in Controller, stopping'[c] # IdleController
      PROVE  stopping'[c].job \in Job /\ job'[stopping'[c].job].phase # ABSENT
  BY <1>1 DEF StopNamesAJob
<1> QED
  BY ONLY <1>1 DEF StopNamesAJob, Exists

-----------------------------------------------------------------------------
(* Reservations change hands only when start or revise takes a free key and  *)
(* when accept or stop drops one, in both cases with no provider touched.    *)
(* No step deletes a job.                                                    *)

SameHolder(k) ==
  /\ Reserved(k)' <=> Reserved(k)
  /\ Reserved(k) => job'[k].reservation_key = job[k].reservation_key
  /\ Exists(k) => job'[k].phase # ABSENT

TakesKey(j, key) ==
  /\ ~Reserved(j) /\ Reserved(j)'
  /\ job'[j].reservation_key = key
  /\ NoConflict(j, key)
  /\ \A k \in Job : k # j => SameHolder(k)
  /\ provider' = provider

DropsKey(j) ==
  /\ Reserved(j) /\ ~Reserved(j)' /\ job'[j].phase # ABSENT
  /\ \A i \in Round, s \in Slot : ~Live(j, i, s)
  /\ \A k \in Job : k # j => SameHolder(k)
  /\ provider' = provider

ReservationStep ==
  \/ \A k \in Job : SameHolder(k)
  \/ \E j \in Job, key \in Key : TakesKey(j, key)
  \/ \E j \in Job : DropsKey(j)

LEMMA SameJobSameHolder ==
  ASSUME NEW k \in Job, job'[k] = job[k]
  PROVE  SameHolder(k)
BY DEF SameHolder, Reserved, Exists

\* A job that exists is reserved unless it was accepted or stopped.
LEMMA ReservedUnlessDecided ==
  ASSUME TypeOK, NEW j \in Job, Exists(j)
  PROVE  Reserved(j) <=> job[j].phase \notin TERMINAL_DECISION_PHASES
BY DEF TypeOK, JobRecords, Phase, RESERVING_PHASES, TERMINAL_DECISION_PHASES, Exists, Reserved

LEMMA CommandReservation ==
  ASSUME AllJobs, Command
  PROVE  ReservationStep
<1>0. TypeOK /\ \A j \in Job : JobInv(j) /\ job[j] \in JobRecords
  BY JobType DEF AllJobs
<1>1. ASSUME NEW j \in Job, NEW committed \in JobRecords, NEW outcome,
             launch_transaction(j, committed, outcome),
             committed.phase = "starting",
             committed.rounds[committed.current_round] = NewRound
      PROVE  /\ job'[j].phase \in {"starting", "failed"}
             /\ job'[j].reservation_key = committed.reservation_key
             /\ \A k \in Job : k # j => SameHolder(k)
             /\ provider' = provider
  <2>1. (outcome = "registered") \in BOOLEAN
    OBVIOUS
  <2>2. job'[j] \in {committed, SpawnFailed(committed),
                     WorkerRegistered(committed, outcome = "registered")}
    BY <1>0, <1>1 DEF launch_transaction, TypeOK
  <2>3. job'[j].phase \in {"starting", "failed"} /\ OnlyRound(job'[j], committed, committed.current_round)
    BY <1>1, <2>1, <2>2, LaunchedEffect
  <2>4. \A k \in Job : k # j => job'[k] = job[k]
    BY <1>0, <1>1 DEF launch_transaction, TypeOK
  <2> QED
    BY <1>1, <2>3, <2>4, SameJobSameHolder DEF OnlyRound, launch_transaction
<1>2. ASSUME NEW j \in Job, NEW key \in Key, NEW timeout \in Timeout,
         NEW outcome, cmd_start(j, key, timeout, outcome)
      PROVE  ReservationStep
  <2>1. StartedJob(key, timeout) \in JobRecords /\ launch_transaction(j, StartedJob(key, timeout), outcome)
    BY <1>2, StartedJobType DEF cmd_start
  <2>2. /\ StartedJob(key, timeout).phase = "starting"
        /\ StartedJob(key, timeout).reservation_key = key
        /\ StartedJob(key, timeout).rounds[StartedJob(key, timeout).current_round] = NewRound
    BY MaxRevisionsAssumption DEF StartedJob, Round
  <2>3. /\ job'[j].phase \in {"starting", "failed"}
        /\ job'[j].reservation_key = key
        /\ \A k \in Job : k # j => SameHolder(k)
        /\ provider' = provider
    BY <1>1, <2>1, <2>2
  <2>4. ~Reserved(j) /\ NoConflict(j, key)
    BY <1>2 DEF cmd_start, Exists, Reserved, RESERVING_PHASES, ABSENT
  <2>5. TakesKey(j, key)
    BY <2>3, <2>4 DEF TakesKey, Reserved, RESERVING_PHASES
  <2> QED
    BY <2>5 DEF ReservationStep
<1>3. ASSUME NEW j \in Job, NEW g \in BOOLEAN, cmd_status(j, g)
      PROVE  ReservationStep
  <2>1. job'[j] = Reconciled(j, g) /\ \A k \in Job : k # j => job'[k] = job[k]
    BY <1>0, <1>3, OneJobWritten DEF cmd_status
  <2>2. SameHolder(j)
    <3>1. CASE Reconciled(j, g) = job[j]
      BY <2>1, <3>1, SameJobSameHolder
    <3>2. CASE Reconciled(j, g) # job[j]
      <4>1. /\ OnlyRound(job'[j], job[j], job[j].current_round)
            /\ job[j].phase \in BUSY_PHASES
            /\ job'[j].phase \in {"needs_attention", "interrupted"}
        BY <1>0, <2>1, <3>2, ReconciledEffect
      <4> QED
        BY <4>1 DEF OnlyRound, SameHolder, Reserved, BUSY_PHASES, RESERVING_PHASES, ABSENT
    <3> QED
      BY <3>1, <3>2
  <2> QED
    BY <2>1, <2>2, SameJobSameHolder DEF ReservationStep
<1>4. ASSUME NEW j \in Job, NEW g \in BOOLEAN, NEW timeout \in Timeout, NEW outcome,
             revise_transaction(j, g, timeout, outcome)
      PROVE  ReservationStep
  <2> DEFINE seen == Reconciled(j, g)
  <2>1. /\ seen \in JobRecords
        /\ seen.reservation_key = job[j].reservation_key
        /\ seen = job[j] \/ job[j].phase \in BUSY_PHASES
    BY <1>0, ReconciledType, ReconciledEffect DEF OnlyRound
  <2>2. /\ seen.phase \in RECOVER_PHASES \cup {"awaiting_review", "accepted"}
        /\ seen.current_round < MaxRevisions
        /\ NoConflict(j, seen.reservation_key)
        /\ launch_transaction(j, RevisedJob(seen, timeout), outcome)
    BY <1>4 DEF revise_transaction
  <2>3. Exists(j)
    BY <2>1, <2>2 DEF Exists, ABSENT, BUSY_PHASES, RECOVER_PHASES
  <2>4. /\ RevisedJob(seen, timeout) \in JobRecords
        /\ RevisedJob(seen, timeout).phase = "starting"
        /\ RevisedJob(seen, timeout).reservation_key = seen.reservation_key
        /\ RevisedJob(seen, timeout).rounds[RevisedJob(seen, timeout).current_round] = NewRound
    BY <2>1, <2>2, RevisedJobType, RevisedEffect
  <2>5. /\ job'[j].phase \in {"starting", "failed"}
        /\ job'[j].reservation_key = job[j].reservation_key
        /\ \A k \in Job : k # j => SameHolder(k)
        /\ provider' = provider
    BY <1>1, <2>1, <2>2, <2>4
  <2>6. Reserved(j)'
    BY <2>5 DEF Reserved, RESERVING_PHASES
  <2>7. job[j].reservation_key \in Key
    BY <1>0, <2>3 DEF JobInv, StartedJobHasKey
  <2>8. CASE Reserved(j)
    BY <2>5, <2>6, <2>8 DEF SameHolder, ReservationStep, ABSENT
  <2>9. CASE ~Reserved(j)
    <3>1. NoConflict(j, job[j].reservation_key)
      BY <2>1, <2>2
    <3>2. TakesKey(j, job[j].reservation_key)
      BY <2>5, <2>6, <2>9, <3>1 DEF TakesKey
    <3> QED
      BY <2>7, <3>2 DEF ReservationStep
  <2> QED
    BY <2>8, <2>9
<1>5. ASSUME NEW j \in Job, NEW passes \in BOOLEAN, cmd_revalidate(j, passes)
      PROVE  ReservationStep
  <2>1. job'[j] = Revalidated(job[j], passes) /\ \A k \in Job : k # j => job'[k] = job[k]
    BY <1>0, <1>5, OneJobWritten DEF cmd_revalidate
  <2>2. /\ OnlyRound(job'[j], job[j], job[j].current_round)
        /\ job'[j].phase \in {"awaiting_review", "failed"}
        /\ job[j].phase = "failed"
    BY <1>0, <1>5, <2>1, RevalidatedEffect DEF cmd_revalidate
  <2>3. SameHolder(j)
    BY <2>2 DEF OnlyRound, SameHolder, Reserved, RESERVING_PHASES, ABSENT
  <2> QED
    BY <2>1, <2>3, SameJobSameHolder DEF ReservationStep
<1>6. ASSUME NEW j \in Job, cmd_accept(j)
      PROVE  ReservationStep
  <2>1. job'[j] = apply_acceptance(job[j]) /\ \A k \in Job : k # j => job'[k] = job[k]
    BY <1>0, <1>6, OneJobWritten DEF cmd_accept
  <2>2. Reserved(j) /\ ~Reserved(j)'
    BY <1>0, <1>6, <2>1, AcceptanceEffect DEF cmd_accept, Reserved, RESERVING_PHASES
  <2>3. \A i \in Round, s \in Slot : ~Live(j, i, s)
    BY <1>0, <1>6 DEF cmd_accept, Current, JobInv, VerdictsComeLast, LiveProviderIsVisible
  <2>4. job'[j].phase # ABSENT
    BY <1>0, <2>1, AcceptanceEffect DEF ABSENT
  <2>5. DropsKey(j)
    BY <1>6, <2>1, <2>2, <2>3, <2>4, SameJobSameHolder DEF DropsKey, cmd_accept
  <2> QED
    BY <2>5 DEF ReservationStep
<1> QED
  BY <1>2, <1>3, <1>4, <1>5, <1>6 DEF Command

LEMMA StopReservation ==
  ASSUME AllJobs, Stop
  PROVE  ReservationStep
<1>0. TypeOK /\ \A j \in Job : JobInv(j) /\ job[j] \in JobRecords
  BY JobType DEF AllJobs
<1>1. ASSUME NEW c \in Controller, NEW j \in Job, RequestStop(c, j)
      PROVE  ReservationStep
  <2>1. /\ job'[j].phase = job[j].phase
        /\ job'[j].reservation_key = job[j].reservation_key
        /\ \A k \in Job : k # j => job'[k] = job[k]
    BY <1>0, <1>1 DEF RequestStop, TypeOK, JobRecords
  <2>2. SameHolder(j)
    BY <2>1 DEF SameHolder, Reserved, Exists
  <2> QED
    BY <2>1, <2>2, SameJobSameHolder DEF ReservationStep
<1>2. ASSUME NEW c \in Controller, SignalTarget(c) \/ StopAbandoned(c)
      PROVE  ReservationStep
  <2>1. job' = job
    BY <1>2 DEF SignalTarget, StopAbandoned
  <2> QED
    BY <2>1, SameJobSameHolder DEF ReservationStep
<1>3. ASSUME NEW c \in Controller, FinishStop(c)
      PROVE  ReservationStep
  <2> PICK j : j = stopping[c].job
    OBVIOUS
  <2>1. j \in Job /\ Exists(j) /\ provider' = provider
    BY <1>3 DEF FinishStop, AllJobs, StopNamesAJob
  <2>2. /\ job'[j] = stop_transition(job[j], live_blockers(j))
        /\ \A k \in Job : k # j => SameHolder(k)
    BY <1>0, <1>3, <2>1, OneJobWritten, SameJobSameHolder DEF FinishStop
  <2>3. live_blockers(j) \in BOOLEAN
    BY DEF live_blockers
  <2>4. /\ job'[j].reservation_key = job[j].reservation_key
        /\ live_blockers(j) => job'[j].phase = IF job[j].phase \in TERMINAL_DECISION_PHASES
                                               THEN job[j].phase ELSE "needs_attention"
        /\ ~live_blockers(j) => job'[j].phase \in {"accepted", "stopped"}
    BY <1>0, <2>1, <2>2, <2>3, StopTransitionEffect DEF OnlyRound
  <2>5. Reserved(j) <=> job[j].phase \notin TERMINAL_DECISION_PHASES
    BY <1>0, <2>1, ReservedUnlessDecided
  <2>6. CASE live_blockers(j)
    <3>1. SameHolder(j)
      BY <2>1, <2>4, <2>5, <2>6
         DEF SameHolder, Reserved, Exists, RESERVING_PHASES, TERMINAL_DECISION_PHASES, ABSENT
    <3> QED
      BY <2>2, <3>1 DEF ReservationStep
  <2>7. CASE ~live_blockers(j)
    <3>1. ~Reserved(j)' /\ job'[j].phase # ABSENT
      BY <2>4, <2>7 DEF Reserved, RESERVING_PHASES, ABSENT
    <3>2. Quiet(j)
      BY <1>0, <2>1, <2>7, NoBlockersQuiet
    <3>3. CASE Reserved(j)
      BY <2>1, <2>2, <3>1, <3>2, <3>3 DEF DropsKey, Quiet, ReservationStep
    <3>4. CASE ~Reserved(j)
      BY <2>2, <3>1, <3>4 DEF SameHolder, ReservationStep
    <3> QED
      BY <3>3, <3>4
  <2> QED
    BY <2>6, <2>7
<1> QED
  BY <1>1, <1>2, <1>3 DEF Stop

LEMMA WorkerReservation ==
  ASSUME AllJobs, NEW j \in Job, NEW i \in Round, NEW s \in Slot, WorkerStep(j, i, s)
  PROVE  \A k \in Job : SameHolder(k)
<1>0. TypeOK /\ JobInv(j) /\ job[j] \in JobRecords
  BY JobType DEF AllJobs
<1>1. CASE job' = job
  BY <1>1, SameJobSameHolder
<1>2. ASSUME NEW rec \in JobRecords, job' = [job EXCEPT ![j] = rec],
             rec.reservation_key = job[j].reservation_key,
             Exists(j),
             \/ rec.phase = job[j].phase
             \/ /\ rec.phase \in RESERVING_PHASES
                /\ job[j].phase \notin TERMINAL_DECISION_PHASES
      PROVE  \A k \in Job : SameHolder(k)
  <2>1. job'[j] = rec /\ \A k \in Job : k # j => job'[k] = job[k]
    BY <1>0, <1>2, OneJobWritten
  <2>2. Reserved(j) <=> job[j].phase \notin TERMINAL_DECISION_PHASES
    BY <1>0, <1>2, ReservedUnlessDecided
  <2>3. SameHolder(j)
    BY <1>2, <2>1, <2>2 DEF SameHolder, Reserved, Exists, RESERVING_PHASES, ABSENT
  <2> QED
    BY <2>1, <2>3, SameJobSameHolder
<1>3. worker[j][i][s] # "none" => Exists(j)
  BY <1>0 DEF JobInv, UnopenedRoundsAreEmpty, Opened
<1>4. "ok" \in Verdict
  BY DEF Verdict
<1>5. CASE ClaimRound(j, i, s) /\ job' # job
  <2>1. PICK b \in BOOLEAN : job' = [job EXCEPT ![j] = Claimed(job[j], i, s, b)]
    BY <1>0, <1>5 DEF ClaimRound, TypeOK, Captured
  <2>2. /\ Claimed(job[j], i, s, b) \in JobRecords
        /\ Claimed(job[j], i, s, b).phase = "running"
        /\ Claimed(job[j], i, s, b).reservation_key = job[j].reservation_key
    BY <1>0, <1>4, TransitionType, ClaimedEffect DEF OnlyRound
  <2>3. Exists(j) /\ job[j].phase \notin TERMINAL_DECISION_PHASES
    BY <1>3, <1>5 DEF ClaimRound, MayClaim, Decided
  <2> QED
    BY <1>2, <2>1, <2>2, <2>3 DEF RESERVING_PHASES
<1>6. CASE LaunchProvider(j, i, s)
  <2>1. Exists(j) /\ Reserved(j)
    BY <1>0, <1>6, BeforeLaunch DEF LaunchProvider
  <2>2. /\ OnlyRound(job'[j], job[j], i)
        /\ job'[j].phase = job[j].phase \/ job'[j].phase = "needs_attention"
        /\ \A k \in Job : k # j => job'[k] = job[k]
    BY <1>6, LaunchEffect
  <2>3. SameHolder(j)
    BY <2>1, <2>2 DEF OnlyRound, SameHolder, Reserved, Exists, RESERVING_PHASES, ABSENT
  <2> QED
    BY <2>2, <2>3, SameJobSameHolder
<1>7. ASSUME NEW verdict \in Verdict, CompleteRound(j, i, s, verdict), job' # job
      PROVE  \A k \in Job : SameHolder(k)
  <2> DEFINE new == complete_round(job[j], i, verdict)
  <2>1. job' = [job EXCEPT ![j] = new] /\ Exists(j)
    BY <1>0, <1>3, <1>7 DEF CompleteRound, TypeOK
  <2>2. new \in JobRecords /\ TRUE \in BOOLEAN
    BY <1>0, TransitionType
  <2>3. /\ new.reservation_key = job[j].reservation_key
        /\ new.phase = IF Decided(job[j]) THEN job[j].phase ELSE PhaseAfter(verdict)
    BY <1>0, CompletedEffect DEF OnlyRound
  <2>4. \/ new.phase = job[j].phase
        \/ new.phase \in RESERVING_PHASES /\ job[j].phase \notin TERMINAL_DECISION_PHASES
    BY <2>3 DEF Decided, PhaseAfter, RESERVING_PHASES
  <2> HIDE DEF new
  <2> QED
    BY <1>2, <2>1, <2>2, <2>3, <2>4
<1>8. ASSUME NEW recorded \in BOOLEAN, RecordFailure(j, i, s, recorded), job' # job
      PROVE  \A k \in Job : SameHolder(k)
  <2> DEFINE new == finalize_worker_failure(job[j], i)
  <2>1. job' = [job EXCEPT ![j] = new] /\ Exists(j)
    BY <1>0, <1>3, <1>8 DEF RecordFailure, TypeOK
  <2>2. new \in JobRecords /\ TRUE \in BOOLEAN
    BY <1>0, <1>4, TransitionType
  <2>3. /\ new.reservation_key = job[j].reservation_key
        /\ \/ new.phase = job[j].phase
           \/ new.phase \in RESERVING_PHASES /\ job[j].phase \notin TERMINAL_DECISION_PHASES
    BY <1>0, WorkerFailureEffect DEF OnlyRound, RESERVING_PHASES
  <2> HIDE DEF new
  <2> QED
    BY <1>2, <2>1, <2>2, <2>3
<1> QED
  BY <1>1, <1>5, <1>6, <1>7, <1>8 DEF WorkerStep, ProviderReaped, TimeOut

LEMMA EnvironmentReservation ==
  ASSUME NEW j \in Job, NEW i \in Round, NEW s \in Slot,
         Environment(j, i, s) \/ ReplayWorker(j, i)
  PROVE  \A k \in Job : SameHolder(k)
<1>1. job' = job
  BY DEF Environment, WorkerRaises, WorkerDies, ProviderExits, PidChangesHands, ReplayWorker
<1> QED
  BY <1>1, SameJobSameHolder

LEMMA NextReservation ==
  ASSUME AllJobs, Next
  PROVE  ReservationStep
<1>1. ASSUME NEW j \in Job, NEW i \in Round, ReplayWorker(j, i)
      PROVE  ReservationStep
  BY <1>1, EnvironmentReservation DEF ReservationStep, Slot
<1>2. ASSUME NEW j \in Job, NEW i \in Round, NEW s \in Slot,
             WorkerStep(j, i, s) \/ Environment(j, i, s)
      PROVE  ReservationStep
  BY <1>2, WorkerReservation, EnvironmentReservation DEF ReservationStep
<1> QED
  BY <1>1, <1>2, CommandReservation, StopReservation DEF Next

\* Taking a key that conflicts with no holder keeps the holders apart.
LEMMA ReservationsStayApart ==
  ASSUME TypeOK, ReservationExclusive, ReservationStep
  PROVE  ReservationExclusive'
<1>1. ASSUME NEW a \in Job, NEW b \in Job, a # b, Reserved(a)', Reserved(b)'
      PROVE  <<job'[a].reservation_key, job'[b].reservation_key>> \notin Conflict
  <2>1. CASE \A k \in Job : SameHolder(k)
    BY <1>1, <2>1 DEF SameHolder, ReservationExclusive
  <2>2. ASSUME NEW j \in Job, NEW key \in Key, TakesKey(j, key)
        PROVE  <<job'[a].reservation_key, job'[b].reservation_key>> \notin Conflict
    <3>1. \A k \in Job : k # j /\ Reserved(k)' =>
            /\ Reserved(k)
            /\ job'[k].reservation_key = job[k].reservation_key
            /\ <<key, job'[k].reservation_key>> \notin Conflict
      BY <2>2 DEF TakesKey, SameHolder, NoConflict, Reserved
    <3>2. CASE a = j
      BY <1>1, <2>2, <3>1, <3>2 DEF TakesKey
    <3>3. CASE b = j
      <4>1. <<key, job'[a].reservation_key>> \notin Conflict
        BY <1>1, <3>1, <3>3
      <4>2. job'[b].reservation_key = key
        BY <2>2, <3>3 DEF TakesKey
      <4> QED
        BY <4>1, <4>2, ConflictAssumption
    <3>4. CASE a # j /\ b # j
      BY <1>1, <3>1, <3>4 DEF ReservationExclusive
    <3> QED
      BY <3>2, <3>3, <3>4
  <2>3. ASSUME NEW j \in Job, DropsKey(j)
        PROVE  <<job'[a].reservation_key, job'[b].reservation_key>> \notin Conflict
    <3>1. a # j /\ b # j
      BY <1>1, <2>3 DEF DropsKey
    <3> QED
      BY <1>1, <2>3, <3>1 DEF DropsKey, SameHolder, ReservationExclusive
  <2> QED
    BY <2>1, <2>2, <2>3 DEF ReservationStep
<1> QED
  BY ONLY <1>1 DEF ReservationExclusive, Reserved

-----------------------------------------------------------------------------
(* The inductive invariant.                                                  *)

LEMMA InitIInv == Init => IInv
<1> SUFFICES ASSUME Init PROVE IInv
  OBVIOUS
<1>1. TypeOK
  BY InitType
<1>2. \A j \in Job : job[j] = NoJob
  BY DEF Init
<1>3. \A j \in Job, i \in Round, s \in Slot : worker[j][i][s] = "none" /\ provider[j][i][s] = "none"
  BY DEF Init
<1>4. /\ NoJob.phase = ABSENT /\ NoJob.current_round = 0
      /\ \A i \in Round : NoJob.rounds[i] = NoRound
  BY DEF NoJob
<1>5. NoRound.claude = NoIdentity /\ NoRound.verification = "none"
  BY DEF NoRound, NewRound
<1>6. \A j \in Job : ~Exists(j) /\ ~Reserved(j)
  BY <1>2, <1>4 DEF Exists, Reserved, RESERVING_PHASES, ABSENT
<1>7. \A j \in Job, i \in Round, s \in Slot : ~Active(j, i, s) /\ ~Live(j, i, s)
  BY <1>3 DEF Active, Live
<1>8. ASSUME NEW j \in Job
      PROVE  JobInv(j)
  <2>1. StartedJobHasKey(j)
    BY <1>2, <1>4, <1>6 DEF StartedJobHasKey
  <2>2. UnopenedRoundsAreEmpty(j)
    BY <1>2, <1>3, <1>4 DEF UnopenedRoundsAreEmpty
  <2>3. RecordedProviderWasSpawned(j)
    BY <1>2, <1>4, <1>5 DEF RecordedProviderWasSpawned
  <2>4. ClaimNamesTheWorker(j)
    BY <1>3, <1>7 DEF ClaimNamesTheWorker
  <2>5. LiveProviderIsVisible(j) /\ ActiveWorkerIsCurrent(j) /\ InterruptedMeansDead(j)
    BY <1>7 DEF LiveProviderIsVisible, ActiveWorkerIsCurrent, InterruptedMeansDead
  <2>6. VerdictsComeLast(j)
    BY <1>2, <1>3, <1>4, <1>5 DEF VerdictsComeLast
  <2>7. ReviewMeansVerified(j)
    BY <1>2, <1>4 DEF ReviewMeansVerified, ABSENT
  <2> QED
    BY <2>1, <2>2, <2>3, <2>4, <2>5, <2>6, <2>7 DEF JobInv
<1>9. StopNamesAJob
  BY DEF Init, StopNamesAJob
<1>10. ReservationExclusive
  BY <1>6 DEF ReservationExclusive
<1> QED
  BY <1>1, <1>8, <1>9, <1>10 DEF IInv

LEMMA NextKeepsJobs ==
  ASSUME AllJobs, Next
  PROVE  \A k \in Job : JobInv(k)'
<1>1. CASE Command
  BY <1>1, StartKeepsJobs, StatusKeepsJobs, ReviseKeepsJobs, RevalidateKeepsJobs, AcceptKeepsJobs
     DEF Command
<1>2. CASE Stop
  <2>1. ASSUME NEW c \in Controller, StopAbandoned(c)
        PROVE  \A k \in Job : JobInv(k)'
    BY <2>1, OtherJob DEF StopAbandoned, AllJobs
  <2> QED
    BY <1>2, <2>1, RequestStopKeepsJobs, SignalKeepsJobs, FinishStopKeepsJobs DEF Stop
<1>3. ASSUME NEW j \in Job, NEW i \in Round, ReplayWorker(j, i)
      PROVE  \A k \in Job : JobInv(k)'
  BY <1>3, ReplayKeepsJobs
<1>4. ASSUME NEW j \in Job, NEW i \in Round, NEW s \in Slot, WorkerStep(j, i, s)
      PROVE  \A k \in Job : JobInv(k)'
  BY <1>4, ClaimKeepsJobs, LaunchProviderKeepsJobs, QuietStepsKeepJobs, CompleteKeepsJobs,
     FailureKeepsJobs DEF WorkerStep
<1>5. ASSUME NEW j \in Job, NEW i \in Round, NEW s \in Slot, Environment(j, i, s)
      PROVE  \A k \in Job : JobInv(k)'
  BY <1>5, QuietStepsKeepJobs DEF Environment
<1> QED
  BY <1>1, <1>2, <1>3, <1>4, <1>5 DEF Next

LEMMA NextKeepsStopNamed ==
  ASSUME AllJobs, Next
  PROVE  StopNamesAJob'
<1>1. \A k \in Job : Exists(k) => job'[k].phase # ABSENT
  <2>1. ReservationStep
    BY NextReservation
  <2> QED
    BY <2>1 DEF ReservationStep, SameHolder, TakesKey, DropsKey, Reserved, RESERVING_PHASES, ABSENT
<1>2. CASE stopping' = stopping
  BY <1>1, <1>2, StopStaysNamed DEF AllJobs
<1>3. CASE Stop
  <2>0. TypeOK
    BY DEF AllJobs
  <2>1. ASSUME NEW c \in Controller, NEW j \in Job, RequestStop(c, j)
        PROVE  StopNamesAJob'
    <3>1. stopping'[c].job = j /\ \A d \in Controller : d # c => stopping'[d] = stopping[d]
      BY <2>0, <2>1 DEF RequestStop, TypeOK
    <3>2. \A d \in Controller :
            \/ stopping'[d] = IdleController
            \/ stopping'[d].job = stopping[d].job /\ stopping[d] # IdleController
            \/ stopping'[d].job \in Job /\ job'[stopping'[d].job].phase # ABSENT
      BY <1>1, <2>1, <3>1 DEF RequestStop
    <3> QED
      BY <1>1, <3>2, StopStaysNamed DEF AllJobs
  <2>2. ASSUME NEW c \in Controller, SignalTarget(c)
        PROVE  StopNamesAJob'
    <3>1. PICK t \in stopping[c].targets : stopping' = [stopping EXCEPT ![c].targets = @ \ {t}]
      BY <2>2 DEF SignalTarget
    <3>2. /\ stopping'[c].job = stopping[c].job
          /\ \A d \in Controller : d # c => stopping'[d] = stopping[d]
      BY <2>0, <3>1 DEF TypeOK
    <3>3. stopping[c] # IdleController
      BY <3>1 DEF IdleController
    <3>4. \A d \in Controller :
            \/ stopping'[d] = IdleController
            \/ stopping'[d].job = stopping[d].job /\ stopping[d] # IdleController
      BY <3>2, <3>3
    <3> QED
      BY <1>1, <3>4, StopStaysNamed DEF AllJobs
  <2>3. ASSUME NEW c \in Controller, FinishStop(c) \/ StopAbandoned(c)
        PROVE  StopNamesAJob'
    <3>1. /\ stopping'[c] = IdleController
          /\ \A d \in Controller : d # c => stopping'[d] = stopping[d]
      BY <2>0, <2>3 DEF FinishStop, StopAbandoned, TypeOK
    <3>2. \A d \in Controller :
            \/ stopping'[d] = IdleController
            \/ stopping'[d].job = stopping[d].job /\ stopping[d] # IdleController
      BY <3>1
    <3> QED
      BY <1>1, <3>2, StopStaysNamed DEF AllJobs
  <2> QED
    BY <1>3, <2>1, <2>2, <2>3 DEF Stop
<1>4. Next => Stop \/ stopping' = stopping
  <2>1. Command => stopping' = stopping
    BY DEF Command, cmd_start, cmd_status, revise_transaction, cmd_revalidate, cmd_accept,
           launch_transaction
  <2>2. \A j \in Job, i \in Round : ReplayWorker(j, i) => stopping' = stopping
    BY DEF ReplayWorker
  <2>3. \A j \in Job, i \in Round, s \in Slot : WorkerStep(j, i, s) => stopping' = stopping
    <3> TAKE j \in Job, i \in Round, s \in Slot
    <3>1. ClaimRound(j, i, s) => stopping' = stopping
      BY DEF ClaimRound
    <3>2. LaunchProvider(j, i, s) => stopping' = stopping
      BY DEF LaunchProvider
    <3>3. ProviderReaped(j, i, s) \/ TimeOut(j, i, s) => stopping' = stopping
      BY DEF ProviderReaped, TimeOut
    <3>4. \A verdict \in Verdict : CompleteRound(j, i, s, verdict) => stopping' = stopping
      BY DEF CompleteRound
    <3>5. \A recorded \in BOOLEAN : RecordFailure(j, i, s, recorded) => stopping' = stopping
      BY DEF RecordFailure
    <3> QED
      BY <3>1, <3>2, <3>3, <3>4, <3>5 DEF WorkerStep
  <2>4. \A j \in Job, i \in Round, s \in Slot : Environment(j, i, s) => stopping' = stopping
    BY DEF Environment, WorkerRaises, WorkerDies, ProviderExits, PidChangesHands
  <2> QED
    BY <2>1, <2>2, <2>3, <2>4 DEF Next
<1> QED
  BY <1>2, <1>3, <1>4

LEMMA NextIInv == IInv /\ [Next]_vars => IInv'
<1> SUFFICES ASSUME IInv, [Next]_vars PROVE IInv'
  OBVIOUS
<1>1. AllJobs /\ TypeOK /\ ReservationExclusive
  BY DEF IInv, AllJobs
<1>2. TypeOK'
  BY <1>1, TypeStep
<1>3. CASE Next
  <2>1. StopNamesAJob' /\ \A j \in Job : JobInv(j)'
    BY <1>1, <1>3, NextKeepsJobs, NextKeepsStopNamed
  <2>2. ReservationExclusive'
    BY <1>1, <1>3, NextReservation, ReservationsStayApart
  <2> QED
    BY <1>2, <2>1, <2>2 DEF IInv
<1>4. CASE UNCHANGED vars
  <2>1. \A j \in Job : JobInv(j)'
    BY <1>1, <1>4, OtherJob DEF vars, AllJobs
  <2>2. StopNamesAJob'
    BY <1>1, <1>4 DEF vars, AllJobs, StopNamesAJob, Exists
  <2>3. ReservationExclusive'
    BY <1>1, <1>4 DEF vars, ReservationExclusive, Reserved
  <2> QED
    BY <1>2, <2>1, <2>2, <2>3 DEF IInv
<1> QED
  BY <1>3, <1>4

\* The inductive invariant holds in every reachable state.
THEOREM Inductive == Spec => []IInv
BY InitIInv, NextIInv, PTL DEF Spec

-----------------------------------------------------------------------------
(* What follows from it.                                                     *)

\* find_conflict under StateLock, whatever happens between commands, keeps
\* overlapping checkouts with one job at a time.
THEOREM ReservationsExclusive == Spec => []ReservationExclusive
<1>1. IInv => ReservationExclusive
  BY DEF IInv
<1> QED
  BY <1>1, Inductive, PTL

\* A running provider is covered by its job's reservation, across crashes at
\* every point of the two launches, pid reuse, replays and stops.
THEOREM LiveProvidersHoldCheckouts == Spec => []LiveProviderHoldsCheckout
<1>1. IInv => LiveProviderHoldsCheckout
  BY DEF IInv, JobInv, LiveProviderIsVisible, LiveProviderHoldsCheckout
<1> QED
  BY <1>1, Inductive, PTL

\* The claim is single use: two providers of a round are the same one.
LEMMA ProviderIsSingle == IInv => OneProviderPerJob /\ LaunchedOnce
<1>1. IInv => LaunchedOnce
  BY DEF IInv, JobInv, ClaimNamesTheWorker, LaunchedOnce
<1>2. IInv => OneProviderPerJob
  <2> SUFFICES ASSUME IInv, NEW j \in Job, NEW i \in Round, NEW k \in Round,
                      NEW s \in Slot, NEW t \in Slot, Live(j, i, s), Live(j, k, t)
               PROVE  i = k /\ s = t
    BY DEF OneProviderPerJob
  <2>1. i = k
    BY DEF IInv, JobInv, LiveProviderIsVisible
  <2> QED
    BY <2>1, <1>1 DEF LaunchedOnce, Live
<1> QED
  BY <1>1, <1>2

\* One provider at a time per job, over all its rounds.
THEOREM ProvidersAreSingle == Spec => []OneProviderPerJob
BY ProviderIsSingle, Inductive, PTL

\* launch_claim is consumed once: a round launches one provider, ever.
THEOREM RoundsLaunchOnce == Spec => []LaunchedOnce
BY ProviderIsSingle, Inductive, PTL

\* What a reviewer sees, and what accept stands on, is a claimed, finalized and
\* verified round with nothing of the job running.
THEOREM ReviewsAreSettled == Spec => []ReviewedRoundIsSettled
<1>1. IInv => ReviewedRoundIsSettled
  <2> SUFFICES ASSUME IInv, NEW j \in Job, job[j].phase \in {"awaiting_review", "accepted"}
               PROVE  /\ Current(job[j]).claim_consumed
                      /\ Current(job[j]).finalized
                      /\ Current(job[j]).verification = "ok"
                      /\ \A i \in Round, s \in Slot : ~Live(j, i, s)
    BY DEF ReviewedRoundIsSettled
  <2>1. JobInv(j) /\ job[j].current_round \in Round
    BY JobType DEF IInv
  <2>2. Current(job[j]).verification = "ok"
    BY <2>1 DEF JobInv, ReviewMeansVerified
  <2>3. /\ Current(job[j]).claim_consumed
        /\ Current(job[j]).finalized
        /\ \A s \in Slot : ~Live(j, job[j].current_round, s)
    BY <2>1, <2>2 DEF JobInv, VerdictsComeLast, Current, Slot
  <2>4. \A i \in Round, s \in Slot : ~Live(j, i, s)
    BY <2>1, <2>3 DEF JobInv, LiveProviderIsVisible
  <2> QED
    BY <2>2, <2>3, <2>4
<1> QED
  BY <1>1, Inductive, PTL

\* A stopped or interrupted job has no active worker and no provider: the
\* fence of stop_requested and live_blockers has no gap.
THEOREM DeadJobsAreQuiet == Spec => []DeadPhasesAreQuiet
<1>1. IInv => DeadPhasesAreQuiet
  <2> SUFFICES ASSUME IInv, NEW j \in Job, job[j].phase \in {"stopped", "interrupted"},
                      NEW i \in Round, NEW s \in Slot
               PROVE  ~Active(j, i, s) /\ ~Live(j, i, s)
    BY DEF DeadPhasesAreQuiet
  <2>1. ~Active(j, i, s)
    BY DEF IInv, JobInv, ActiveWorkerIsCurrent
  <2>2. ~Live(j, i, s)
    BY DEF IInv, JobInv, LiveProviderIsVisible, InterruptedMeansDead, Reserved, RESERVING_PHASES
  <2> QED
    BY <2>1, <2>2
<1> QED
  BY <1>1, Inductive, PTL

-----------------------------------------------------------------------------
(* What a step may write of a job.                                           *)

\* The record of the current round, and never away from an acceptance.
WritesItsRound(j) ==
  /\ OnlyRound(job'[j], job[j], job[j].current_round)
  /\ job[j].phase = "accepted" => job'[j].phase = "accepted"

\* A round is appended, beside which nothing runs; the earlier ones stay.
OpensRound(j) ==
  /\ Quiet(j)
  /\ \/ job[j].phase = ABSENT /\ job'[j].current_round = 0 /\ job[j].current_round = 0
     \/ /\ job'[j].current_round = job[j].current_round + 1
        /\ \A k \in Round : k < job[j].current_round => job'[j].rounds[k] = job[j].rounds[k]

MayWrite(j) == job'[j] = job[j] \/ WritesItsRound(j) \/ OpensRound(j)

LEMMA StartWrites ==
  ASSUME AllJobs, NEW j \in Job, NEW key \in Key, NEW timeout \in Timeout,
         NEW outcome, cmd_start(j, key, timeout, outcome)
  PROVE  \A k \in Job : MayWrite(k)
<1>1. /\ StartedJob(key, timeout) \in JobRecords
      /\ StartedJob(key, timeout).current_round = 0
      /\ StartedJob(key, timeout).rounds[0] = NewRound
  BY StartedJobType, MaxRevisionsAssumption DEF StartedJob, Round
<1>2. Quiet(j)
  BY DEF cmd_start, AllJobs, JobInv, UnopenedRoundsAreEmpty, Opened, Quiet, Active, Live
<1>3. job'[j] \in {StartedJob(key, timeout), SpawnFailed(StartedJob(key, timeout)),
                   WorkerRegistered(StartedJob(key, timeout), outcome = "registered")}
  BY DEF cmd_start, launch_transaction, AllJobs, TypeOK
<1>4. job'[j].current_round = 0
  BY <1>1, <1>3, LaunchedEffect DEF OnlyRound
<1>5. job[j].phase = ABSENT /\ job[j].current_round = 0
  BY DEF cmd_start, Exists, AllJobs, JobInv, StartedJobHasKey
<1>6. \A k \in Job : k # j => job'[k] = job[k]
  BY DEF cmd_start, launch_transaction, AllJobs, TypeOK
<1> QED
  BY <1>2, <1>4, <1>5, <1>6 DEF MayWrite, OpensRound

LEMMA ReviseWrites ==
  ASSUME AllJobs, NEW j \in Job, NEW g \in BOOLEAN, NEW timeout \in Timeout, NEW outcome,
         revise_transaction(j, g, timeout, outcome)
  PROVE  \A k \in Job : MayWrite(k)
<1> DEFINE seen == Reconciled(j, g)
           i == job[j].current_round
<1>0. TypeOK /\ JobInv(j) /\ seen \in JobRecords /\ job[j] \in JobRecords /\ i \in Round
  BY ReconciledType, JobType DEF AllJobs
<1>1. /\ seen.current_round = i
      /\ \A k \in Round : k # i => seen.rounds[k] = job[j].rounds[k]
  BY <1>0, ReconciledEffect DEF OnlyRound
<1>2. /\ ~live_blockers(j)
      /\ seen.current_round < MaxRevisions
      /\ launch_transaction(j, RevisedJob(seen, timeout), outcome)
  BY DEF revise_transaction
<1>3. Quiet(j)
  BY <1>0, <1>2, NoBlockersQuiet
<1>4. /\ RevisedJob(seen, timeout) \in JobRecords
      /\ RevisedJob(seen, timeout).current_round = i + 1
      /\ RevisedJob(seen, timeout).rounds[i + 1] = NewRound
      /\ \A k \in Round : k # i + 1 => RevisedJob(seen, timeout).rounds[k] = seen.rounds[k]
  BY <1>0, <1>1, <1>2, RevisedEffect, RevisedJobType
<1> HIDE DEF seen
<1>5. job'[j] \in {RevisedJob(seen, timeout), SpawnFailed(RevisedJob(seen, timeout)),
                   WorkerRegistered(RevisedJob(seen, timeout), outcome = "registered")}
  BY <1>2 DEF launch_transaction, AllJobs, TypeOK
<1>6. OnlyRound(job'[j], RevisedJob(seen, timeout), i + 1)
  BY <1>4, <1>5, LaunchedEffect
<1>7. \A k \in Round : k < i => job'[j].rounds[k] = job[j].rounds[k]
  BY <1>0, <1>1, <1>4, <1>6, MaxRevisionsAssumption DEF OnlyRound, Round
<1>8. \A k \in Job : k # j => job'[k] = job[k]
  BY <1>2 DEF launch_transaction, AllJobs, TypeOK
<1> QED
  BY <1>3, <1>4, <1>6, <1>7, <1>8 DEF MayWrite, OpensRound, OnlyRound

LEMMA CommandWrites ==
  ASSUME AllJobs, NEW j \in Job, NEW b \in BOOLEAN,
         cmd_status(j, b) \/ cmd_revalidate(j, b) \/ cmd_accept(j)
  PROVE  \A k \in Job : MayWrite(k)
<1>0. TypeOK /\ job[j] \in JobRecords
  BY JobType DEF AllJobs
<1>1. CASE cmd_status(j, b)
  <2>1. job'[j] = Reconciled(j, b) /\ \A k \in Job : k # j => job'[k] = job[k]
    BY <1>0, <1>1, OneJobWritten DEF cmd_status
  <2>2. MayWrite(j)
    BY <1>0, <2>1, ReconciledEffect DEF MayWrite, WritesItsRound, BUSY_PHASES
  <2> QED
    BY <2>1, <2>2 DEF MayWrite
<1>2. CASE cmd_revalidate(j, b)
  <2>1. job'[j] = Revalidated(job[j], b) /\ \A k \in Job : k # j => job'[k] = job[k]
    BY <1>0, <1>2, OneJobWritten DEF cmd_revalidate
  <2>2. MayWrite(j)
    BY <1>0, <1>2, <2>1, RevalidatedEffect DEF cmd_revalidate, MayWrite, WritesItsRound
  <2> QED
    BY <2>1, <2>2 DEF MayWrite
<1>3. CASE cmd_accept(j)
  <2>1. job'[j] = apply_acceptance(job[j]) /\ \A k \in Job : k # j => job'[k] = job[k]
    BY <1>0, <1>3, OneJobWritten DEF cmd_accept
  <2>2. MayWrite(j)
    BY <1>0, <2>1, AcceptanceEffect DEF MayWrite, WritesItsRound, OnlyRound
  <2> QED
    BY <2>1, <2>2 DEF MayWrite
<1> QED
  BY <1>1, <1>2, <1>3

LEMMA StopWrites ==
  ASSUME AllJobs, Stop
  PROVE  \A k \in Job : MayWrite(k)
<1>0. TypeOK /\ \A j \in Job : job[j] \in JobRecords
  BY JobType DEF AllJobs
<1>1. ASSUME NEW c \in Controller, NEW j \in Job, RequestStop(c, j)
      PROVE  \A k \in Job : MayWrite(k)
  <2>1. /\ job'[j] = [job[j] EXCEPT !.stop_requested = TRUE]
        /\ \A k \in Job : k # j => job'[k] = job[k]
    BY <1>0, <1>1 DEF RequestStop, TypeOK
  <2>2. MayWrite(j)
    BY <1>0, <2>1 DEF MayWrite, WritesItsRound, OnlyRound, JobRecords
  <2> QED
    BY <2>1, <2>2 DEF MayWrite
<1>2. ASSUME NEW c \in Controller, FinishStop(c)
      PROVE  \A k \in Job : MayWrite(k)
  <2>1. PICK j \in Job : j = stopping[c].job
    BY <1>2 DEF FinishStop, AllJobs, StopNamesAJob
  <2>2. /\ job'[j] = stop_transition(job[j], live_blockers(j))
        /\ \A k \in Job : k # j => job'[k] = job[k]
    BY <1>0, <1>2, <2>1, OneJobWritten DEF FinishStop
  <2>3. live_blockers(j) \in BOOLEAN
    BY DEF live_blockers
  <2>4. MayWrite(j)
    BY <1>0, <2>2, <2>3, StopTransitionEffect DEF MayWrite, WritesItsRound, TERMINAL_DECISION_PHASES
  <2> QED
    BY <2>2, <2>4 DEF MayWrite
<1>3. ASSUME NEW c \in Controller, SignalTarget(c) \/ StopAbandoned(c)
      PROVE  job' = job
  BY <1>3 DEF SignalTarget, StopAbandoned
<1> QED
  BY <1>1, <1>2, <1>3 DEF Stop, MayWrite

\* An accepted job has no active worker left in its current round.
LEMMA AcceptedRoundIsIdle ==
  ASSUME AllJobs, NEW j \in Job, NEW i \in Round, NEW s \in Slot, Active(j, i, s)
  PROVE  i = job[j].current_round /\ job[j].phase # "accepted"
BY DEF AllJobs, JobInv, ActiveWorkerIsCurrent, VerdictsComeLast, ReviewMeansVerified, Current

LEMMA WorkerWrites ==
  ASSUME AllJobs, NEW j \in Job, NEW i \in Round, NEW s \in Slot, WorkerStep(j, i, s)
  PROVE  \A k \in Job : MayWrite(k)
<1>0. TypeOK /\ job[j] \in JobRecords
  BY JobType DEF AllJobs
<1>1. CASE ClaimRound(j, i, s)
  <2>1. CASE job' = job
    BY <2>1 DEF MayWrite
  <2>2. CASE job' # job
    <3>1. PICK b \in Captured : job' = [job EXCEPT ![j] = Claimed(job[j], i, s, b)]
      BY <1>1, <2>2 DEF ClaimRound
    <3>2. job'[j] = Claimed(job[j], i, s, b) /\ \A k \in Job : k # j => job'[k] = job[k]
      BY <1>0, <3>1, OneJobWritten
    <3>3. i = job[j].current_round /\ job[j].phase # "accepted"
      BY <1>1, <2>2 DEF ClaimRound, MayClaim, guarded_round, Decided, TERMINAL_DECISION_PHASES
    <3>4. MayWrite(j)
      BY <1>0, <3>2, <3>3, ClaimedEffect DEF MayWrite, WritesItsRound
    <3> QED
      BY <3>2, <3>4 DEF MayWrite
  <2> QED
    BY <2>1, <2>2
<1>2. CASE LaunchProvider(j, i, s)
  <2>1. i = job[j].current_round /\ job[j].phase # "accepted"
    BY <1>2, AcceptedRoundIsIdle DEF LaunchProvider, Active
  <2>2. \/ job' = job
        \/ \E b \in BOOLEAN : \E rec \in {LaunchRefused(job[j], i), PendingLaunch(job[j], i, b),
                                         ClaudeRegistered(job[j], i, s, b)} :
             job' = [job EXCEPT ![j] = rec]
    <3>1. CASE job[j].stop_requested
      BY <1>2, <3>1 DEF LaunchProvider
    <3>2. ASSUME NEW outcome \in SpawnOutcome, SpawnProvider(j, i, s, outcome)
          PROVE  \E b \in BOOLEAN : \E rec \in {LaunchRefused(job[j], i), PendingLaunch(job[j], i, b),
                                               ClaudeRegistered(job[j], i, s, b)} :
                   job' = [job EXCEPT ![j] = rec]
      BY <3>2 DEF SpawnProvider
    <3> QED
      BY <1>2, <3>1, <3>2 DEF LaunchProvider
  <2>3. ASSUME NEW b \in BOOLEAN,
               NEW rec \in {LaunchRefused(job[j], i), PendingLaunch(job[j], i, b),
                            ClaudeRegistered(job[j], i, s, b)},
               job' = [job EXCEPT ![j] = rec]
        PROVE  \A k \in Job : MayWrite(k)
    <3>1. job'[j] = rec /\ \A k \in Job : k # j => job'[k] = job[k]
      BY <1>0, <2>3, OneJobWritten
    <3>2. OnlyRound(rec, job[j], i)
      BY <1>0, LaunchRefusedEffect, PendingLaunchEffect, ClaudeRegisteredEffect
    <3> QED
      BY <2>1, <3>1, <3>2 DEF MayWrite, WritesItsRound
  <2> QED
    BY <2>2, <2>3 DEF MayWrite
<1>3. ASSUME NEW verdict \in Verdict, CompleteRound(j, i, s, verdict)
      PROVE  \A k \in Job : MayWrite(k)
  <2>1. CASE job' = job
    BY <2>1 DEF MayWrite
  <2>2. CASE job' # job
    <3>1. i = job[j].current_round /\ job' = [job EXCEPT ![j] = complete_round(job[j], i, verdict)]
      BY <1>3, <2>2 DEF CompleteRound, guarded_round
    <3>2. job'[j] = complete_round(job[j], i, verdict) /\ \A k \in Job : k # j => job'[k] = job[k]
      BY <1>0, <3>1, OneJobWritten
    <3>3. MayWrite(j)
      BY <1>0, <3>1, <3>2, CompletedEffect
         DEF MayWrite, WritesItsRound, Decided, TERMINAL_DECISION_PHASES
    <3> QED
      BY <3>2, <3>3 DEF MayWrite
  <2> QED
    BY <2>1, <2>2
<1>4. ASSUME NEW recorded \in BOOLEAN, RecordFailure(j, i, s, recorded)
      PROVE  \A k \in Job : MayWrite(k)
  <2>1. CASE job' = job
    BY <2>1 DEF MayWrite
  <2>2. CASE job' # job
    <3>1. i = job[j].current_round /\ job' = [job EXCEPT ![j] = finalize_worker_failure(job[j], i)]
      BY <1>4, <2>2 DEF RecordFailure, guarded_round
    <3>2. job'[j] = finalize_worker_failure(job[j], i) /\ \A k \in Job : k # j => job'[k] = job[k]
      BY <1>0, <3>1, OneJobWritten
    <3>3. MayWrite(j)
      BY <1>0, <3>1, <3>2, WorkerFailureEffect
         DEF MayWrite, WritesItsRound, TERMINAL_DECISION_PHASES
    <3> QED
      BY <3>2, <3>3 DEF MayWrite
  <2> QED
    BY <2>1, <2>2
<1>5. CASE ProviderReaped(j, i, s) \/ TimeOut(j, i, s)
  BY <1>5 DEF ProviderReaped, TimeOut, MayWrite
<1> QED
  BY <1>1, <1>2, <1>3, <1>4, <1>5 DEF WorkerStep

LEMMA NextWrites ==
  ASSUME IInv, [Next]_vars
  PROVE  \A j \in Job : MayWrite(j)
<1>0. AllJobs
  BY DEF IInv, AllJobs
<1>1. CASE Command
  BY <1>0, <1>1, StartWrites, ReviseWrites, CommandWrites DEF Command
<1>2. CASE Stop
  BY <1>0, <1>2, StopWrites
<1>3. ASSUME NEW j \in Job, NEW i \in Round, NEW s \in Slot, WorkerStep(j, i, s)
      PROVE  \A k \in Job : MayWrite(k)
  BY <1>0, <1>3, WorkerWrites
<1>4. ASSUME NEW j \in Job, NEW i \in Round, NEW s \in Slot,
             ReplayWorker(j, i) \/ Environment(j, i, s)
      PROVE  job' = job
  BY <1>4 DEF ReplayWorker, Environment, WorkerRaises, WorkerDies, ProviderExits, PidChangesHands
<1>5. CASE UNCHANGED vars
  BY <1>5 DEF vars, MayWrite
<1> QED
  BY <1>1, <1>2, <1>3, <1>4, <1>5 DEF Next, MayWrite, Slot

\* An acceptance is never taken back: workers that report late, stops that
\* finish late and reconcile all leave it; only a revise opens a round on it.
THEOREM AcceptanceIsDurable == Spec => AcceptedIsDurable
<1>1. IInv /\ [Next]_vars =>
        [\A j \in Job : job[j].phase = "accepted" =>
           \/ job'[j].phase = "accepted" /\ job'[j].current_round = job[j].current_round
           \/ job'[j].current_round > job[j].current_round]_vars
  <2> SUFFICES ASSUME IInv, [Next]_vars, NEW j \in Job, job[j].phase = "accepted"
               PROVE  \/ job'[j].phase = "accepted" /\ job'[j].current_round = job[j].current_round
                      \/ job'[j].current_round > job[j].current_round
    OBVIOUS
  <2>1. job[j].current_round \in Nat
    BY JobType, MaxRevisionsAssumption DEF IInv, Round
  <2>2. MayWrite(j)
    BY NextWrites
  <2> QED
    BY <2>1, <2>2 DEF MayWrite, WritesItsRound, OpensRound, OnlyRound, ABSENT
<1> QED
  BY <1>1, Inductive, PTL DEF Spec, AcceptedIsDurable

\* guarded_round: the record of a round is frozen from the moment a later one
\* is opened.
THEOREM SupersededRoundsStayFrozen == Spec => SupersededRoundsFrozen
<1>1. IInv /\ [Next]_vars =>
        [\A j \in Job, i \in Round :
           i < job[j].current_round => job'[j].rounds[i] = job[j].rounds[i]]_vars
  <2> SUFFICES ASSUME IInv, [Next]_vars, NEW j \in Job, NEW i \in Round, i < job[j].current_round
               PROVE  job'[j].rounds[i] = job[j].rounds[i]
    OBVIOUS
  <2>1. job[j].current_round \in Nat /\ i \in Nat
    BY JobType, MaxRevisionsAssumption DEF IInv, Round
  <2>2. MayWrite(j)
    BY NextWrites
  <2> QED
    BY <2>1, <2>2 DEF MayWrite, WritesItsRound, OpensRound, OnlyRound
<1> QED
  BY <1>1, Inductive, PTL DEF Spec, SupersededRoundsFrozen

\* A revise, --recover included, never opens a round beside a provider that may
\* still write or a worker that may still spawn one.
THEOREM NewRoundsStartAlone == Spec => NewRoundStartsAlone
<1>1. IInv /\ [Next]_vars =>
        [\A j \in Job : job'[j].current_round # job[j].current_round =>
           \A i \in Round, s \in Slot : ~Live(j, i, s) /\ ~Active(j, i, s)]_vars
  BY NextWrites DEF MayWrite, WritesItsRound, OpensRound, OnlyRound, Quiet
<1> QED
  BY <1>1, Inductive, PTL DEF Spec, NewRoundStartsAlone

-----------------------------------------------------------------------------
(* The refinement, under the mapping Held and Writing.                       *)

\* Held tells reserved jobs apart from the others.
LEMMA HeldType ==
  ASSUME AllJobs
  PROVE  \A j \in Job :
           /\ Reserved(j) => Held[j] = job[j].reservation_key /\ Held[j] \in Key
           /\ ~Reserved(j) => Held[j] = NoKey
           /\ Held[j] # NoKey <=> Reserved(j)
<1> SUFFICES ASSUME NEW j \in Job
             PROVE  /\ Reserved(j) => Held[j] = job[j].reservation_key /\ Held[j] \in Key
                    /\ ~Reserved(j) => Held[j] = NoKey
                    /\ Held[j] # NoKey <=> Reserved(j)
  OBVIOUS
<1>1. Reserved(j) => job[j].reservation_key \in Key
  BY DEF AllJobs, JobInv, StartedJobHasKey, Exists, Reserved, RESERVING_PHASES, ABSENT
<1>2. Held[j] = IF Reserved(j) THEN job[j].reservation_key ELSE NoKey
  BY DEF Held
<1> QED
  BY <1>1, <1>2, NoKeyAssumption

LEMMA SameHolderSameHeld ==
  ASSUME \A k \in Job : SameHolder(k)
  PROVE  Held' = Held
BY DEF Held, SameHolder, Reserved

LEMMA TakesKeyAcquires ==
  ASSUME AllJobs, NEW j \in Job, NEW key \in Key, TakesKey(j, key)
  PROVE  Checkout!Acquire(j, key)
<1>1. Held[j] = NoKey
  BY HeldType DEF TakesKey
<1>2. \A other \in Job : Held[other] # NoKey => <<key, Held[other]>> \notin Conflict
  <2> SUFFICES ASSUME NEW other \in Job, Held[other] # NoKey
               PROVE  <<key, Held[other]>> \notin Conflict
    OBVIOUS
  <2>1. Reserved(other) /\ Held[other] = job[other].reservation_key /\ other # j
    BY HeldType DEF TakesKey
  <2> QED
    BY <2>1 DEF TakesKey, NoConflict, Reserved
<1>3. Held' = [Held EXCEPT ![j] = key]
  BY DEF Held, TakesKey, SameHolder, Reserved
<1>4. Writing' = Writing
  BY DEF Writing, Live, TakesKey
<1> QED
  BY <1>1, <1>2, <1>3, <1>4 DEF Checkout!Acquire

LEMMA DropsKeyReleases ==
  ASSUME AllJobs, NEW j \in Job, DropsKey(j)
  PROVE  Checkout!Release(j)
<1>1. Held[j] # NoKey
  BY HeldType DEF DropsKey
<1>2. \A pair \in Writing : pair[1] # j
  BY DEF Writing, DropsKey
<1>3. Held' = [Held EXCEPT ![j] = NoKey]
  BY DEF Held, DropsKey, SameHolder, Reserved
<1>4. Writing' = Writing
  BY DEF Writing, Live, DropsKey
<1> QED
  BY <1>1, <1>2, <1>3, <1>4 DEF Checkout!Release

\* One provider process changes its state.
LEMMA WritingChange ==
  ASSUME TypeOK, NEW j \in Job, NEW i \in Round, NEW s \in Slot, NEW state,
         provider' = [provider EXCEPT ![j][i][s] = state]
  PROVE  /\ state = "live" => Writing' = Writing \cup {<<j, <<i, s>>>>}
         /\ state # "live" => Writing' = Writing \ {<<j, <<i, s>>>>}
<1>1. /\ provider'[j][i][s] = state
      /\ \A k \in Round, t \in Slot : k # i \/ t # s => provider'[j][k][t] = provider[j][k][t]
      /\ \A o \in Job : o # j => provider'[o] = provider[o]
  BY OneProviderChanges
<1>2. \A w \in Job \X (Round \X Slot) :
        /\ w # <<j, <<i, s>>>> => provider'[w[1]][w[2][1]][w[2][2]] = provider[w[1]][w[2][1]][w[2][2]]
        /\ w = <<j, <<i, s>>>> => provider'[w[1]][w[2][1]][w[2][2]] = state
  BY <1>1
<1>3. <<j, <<i, s>>>> \in Job \X (Round \X Slot)
  OBVIOUS
<1> QED
  BY <1>2, <1>3 DEF Writing, Live

\* A provider exits, is killed or its pid changes hands: writing ends, if it
\* had not ended before.
LEMMA ProviderEnds ==
  ASSUME AllJobs, \A k \in Job : SameHolder(k),
         NEW j \in Job, NEW i \in Round, NEW s \in Slot, NEW state \in {"gone", "reused"},
         provider' = [provider EXCEPT ![j][i][s] = state]
  PROVE  [Checkout!Next]_(Checkout!vars)
<1>1. Held' = Held
  BY SameHolderSameHeld
<1>2. Writing' = Writing \ {<<j, <<i, s>>>>}
  BY WritingChange DEF AllJobs
<1>3. CASE <<j, <<i, s>>>> \in Writing
  BY <1>1, <1>2, <1>3 DEF Checkout!Next, Checkout!EndWriting
<1>4. CASE <<j, <<i, s>>>> \notin Writing
  BY <1>1, <1>2, <1>4 DEF Checkout!vars
<1> QED
  BY <1>3, <1>4

LEMMA SameProvidersImplement ==
  ASSUME AllJobs, ReservationStep, provider' = provider
  PROVE  [Checkout!Next]_(Checkout!vars)
<1>1. CASE \A k \in Job : SameHolder(k)
  <2>1. Writing' = Writing
    BY DEF Writing, Live
  <2> QED
    BY <1>1, <2>1, SameHolderSameHeld DEF Checkout!vars
<1>2. ASSUME NEW j \in Job, NEW key \in Key, TakesKey(j, key)
      PROVE  Checkout!Next
  BY <1>2, TakesKeyAcquires DEF Checkout!Next
<1>3. ASSUME NEW j \in Job, DropsKey(j)
      PROVE  Checkout!Next
  BY <1>3, DropsKeyReleases DEF Checkout!Next
<1> QED
  BY <1>1, <1>2, <1>3 DEF ReservationStep

LEMMA LaunchImplements ==
  ASSUME AllJobs, NEW j \in Job, NEW i \in Round, NEW s \in Slot, LaunchProvider(j, i, s)
  PROVE  [Checkout!Next]_(Checkout!vars)
<1>1. TypeOK /\ JobInv(j) /\ worker[j][i][s] = "claimed"
  BY DEF AllJobs, LaunchProvider
<1>2. \A k \in Job : SameHolder(k)
  BY WorkerReservation DEF WorkerStep
<1>3. Reserved(j) /\ \A k \in Round, t \in Slot : ~Live(j, k, t)
  BY <1>1, BeforeLaunch
<1>4. CASE provider' = provider
  BY <1>2, <1>4, SameProvidersImplement DEF ReservationStep
<1>5. CASE provider' = [provider EXCEPT ![j][i][s] = "live"]
  <2>1. Held[j] # NoKey
    BY <1>3, HeldType
  <2>2. \A pair \in Writing : pair[1] # j
    BY <1>3 DEF Writing
  <2>3. Writing' = Writing \cup {<<j, <<i, s>>>>}
    BY <1>1, <1>5, WritingChange
  <2>4. Checkout!BeginWriting(j, <<i, s>>)
    BY <1>2, <2>1, <2>2, <2>3, SameHolderSameHeld DEF Checkout!BeginWriting
  <2> QED
    BY <2>4 DEF Checkout!Next
<1> QED
  BY <1>4, <1>5, LaunchEffect

\* A signal of cmd_stop ends at most one provider and writes no record.
LEMMA SignalImplements ==
  ASSUME AllJobs, NEW c \in Controller, SignalTarget(c)
  PROVE  [Checkout!Next]_(Checkout!vars)
<1> PICK j : j = stopping[c].job
  OBVIOUS
<1>1. PICK t \in stopping[c].targets :
        \/ provider' = provider
        \/ /\ provider[j][t.round][t.identity.slot] = "live"
           /\ provider' = [provider EXCEPT ![j][t.round][t.identity.slot] = "gone"]
  BY DEF SignalTarget
<1>2. PICK i, s : i \in Round /\ i = t.round /\ s = t.identity.slot
  BY <1>1 DEF AllJobs, TypeOK, Target
<1>r. i \in Round
  BY <1>2
<1>3. j \in Job
  <2>1. stopping[c] # IdleController
    BY <1>1 DEF IdleController
  <2> QED
    BY <2>1 DEF AllJobs, StopNamesAJob
<1>4. \A k \in Job : SameHolder(k)
  BY SameJobSameHolder DEF SignalTarget
<1>5. CASE provider' = provider
  BY <1>4, <1>5, SameProvidersImplement DEF ReservationStep
<1>6. CASE provider' = [provider EXCEPT ![j][i][s] = "gone"] /\ s \in Slot
  BY <1>3, <1>4, <1>6, <1>r, ProviderEnds
<1>7. CASE provider' = [provider EXCEPT ![j][i][s] = "gone"] /\ s \notin Slot
  <2>1. provider[j][i] \in [Slot -> ProviderState] /\ provider[j] \in [Round -> [Slot -> ProviderState]]
    BY <1>3, <1>r DEF AllJobs, TypeOK
  <2>2. [provider[j][i] EXCEPT ![s] = "gone"] = provider[j][i]
    BY <2>1, <1>7, <1>r
  <2>3. [provider[j] EXCEPT ![i] = provider[j][i]] = provider[j]
    BY <2>1, <1>r
  <2>4. [provider EXCEPT ![j] = provider[j]] = provider
    BY <1>3 DEF AllJobs, TypeOK
  <2>5. provider' = provider
    BY <1>7, <2>2, <2>3, <2>4
  <2> QED
    BY <1>5, <2>5
<1> QED
  BY <1>1, <1>2, <1>5, <1>6, <1>7

\* No public command touches a provider itself; workers and stop do.
LEMMA CommandSpawnsNoProvider ==
  ASSUME Command
  PROVE  provider' = provider
<1>1. ASSUME NEW j \in Job, NEW key \in Key, NEW timeout \in Timeout,
             NEW outcome \in LaunchOutcome, cmd_start(j, key, timeout, outcome)
      PROVE  provider' = provider
  BY <1>1 DEF cmd_start, launch_transaction
<1>2. ASSUME NEW j \in Job, NEW graceOver \in BOOLEAN, cmd_status(j, graceOver)
      PROVE  provider' = provider
  BY <1>2 DEF cmd_status
<1>3. ASSUME NEW j \in Job, NEW graceOver \in BOOLEAN, NEW timeout \in Timeout,
             NEW outcome \in LaunchOutcome,
             revise_transaction(j, graceOver, timeout, outcome)
      PROVE  provider' = provider
  BY <1>3 DEF revise_transaction, launch_transaction
<1>4. ASSUME NEW j \in Job, NEW passes \in BOOLEAN, cmd_revalidate(j, passes)
      PROVE  provider' = provider
  BY <1>4 DEF cmd_revalidate
<1>5. ASSUME NEW j \in Job, cmd_accept(j)
      PROVE  provider' = provider
  BY <1>5 DEF cmd_accept
<1> QED
  BY <1>1, <1>2, <1>3, <1>4, <1>5 DEF Command

LEMMA NextImplements ==
  ASSUME AllJobs, Next
  PROVE  [Checkout!Next]_(Checkout!vars)
<1>1. CASE Command
  <2>1. provider' = provider
    BY <1>1, CommandSpawnsNoProvider
  <2> QED
    BY <1>1, <2>1, CommandReservation, SameProvidersImplement
<1>2. CASE Stop
  <2>1. ASSUME NEW c \in Controller, FinishStop(c) \/ StopAbandoned(c)
        PROVE  [Checkout!Next]_(Checkout!vars)
    <3>1. provider' = provider
      BY <2>1 DEF FinishStop, StopAbandoned
    <3> QED
      BY <1>2, <3>1, StopReservation, SameProvidersImplement
  <2>2. ASSUME NEW c \in Controller, NEW j \in Job, RequestStop(c, j)
        PROVE  [Checkout!Next]_(Checkout!vars)
    <3>1. provider' = provider
      BY <2>2 DEF RequestStop
    <3> QED
      BY <1>2, <3>1, StopReservation, SameProvidersImplement
  <2> QED
    BY <1>2, <2>1, <2>2, SignalImplements DEF Stop
<1>3. ASSUME NEW j \in Job, NEW i \in Round, ReplayWorker(j, i)
      PROVE  [Checkout!Next]_(Checkout!vars)
  <2>1. provider' = provider /\ \A k \in Job : SameHolder(k)
    BY <1>3, SameJobSameHolder DEF ReplayWorker
  <2> QED
    BY <2>1, SameProvidersImplement DEF ReservationStep
<1>4. ASSUME NEW j \in Job, NEW i \in Round, NEW s \in Slot, WorkerStep(j, i, s)
      PROVE  [Checkout!Next]_(Checkout!vars)
  <2>1. \A k \in Job : SameHolder(k)
    BY <1>4, WorkerReservation
  <2>2. CASE LaunchProvider(j, i, s)
    BY <2>2, LaunchImplements
  <2>3. CASE provider' = provider
    BY <2>1, <2>3, SameProvidersImplement DEF ReservationStep
  <2>4. CASE TimeOut(j, i, s)
    <3>1. CASE provider' = [provider EXCEPT ![j][i][s] = "gone"]
      BY <2>1, <3>1, ProviderEnds
    <3> QED
      BY <2>3, <2>4, <3>1 DEF TimeOut
  <2> QED
    BY <1>4, <2>2, <2>3, <2>4 DEF WorkerStep, ClaimRound, ProviderReaped, CompleteRound, RecordFailure
<1>5. ASSUME NEW j \in Job, NEW i \in Round, NEW s \in Slot, Environment(j, i, s)
      PROVE  [Checkout!Next]_(Checkout!vars)
  <2>1. \A k \in Job : SameHolder(k)
    BY <1>5, EnvironmentReservation
  <2>2. CASE provider' = provider
    BY <2>1, <2>2, SameProvidersImplement DEF ReservationStep
  <2>3. CASE provider' # provider
    <3>1. PICK state \in {"gone", "reused"} : provider' = [provider EXCEPT ![j][i][s] = state]
      BY <1>5, <2>3 DEF Environment, WorkerRaises, WorkerDies, ProviderExits, PidChangesHands
    <3> QED
      BY <2>1, <3>1, ProviderEnds
  <2> QED
    BY <2>2, <2>3
<1> QED
  BY <1>1, <1>2, <1>3, <1>4, <1>5 DEF Next

LEMMA InitImplements == Init => Checkout!Init
<1> SUFFICES ASSUME Init PROVE Checkout!Init
  OBVIOUS
<1>1. \A j \in Job : ~Reserved(j)
  BY DEF Init, Reserved, NoJob, RESERVING_PHASES, ABSENT
<1>2. Held = [j \in Job |-> NoKey]
  BY <1>1 DEF Held
<1>3. Writing = {}
  BY DEF Init, Writing, Live
<1> QED
  BY <1>2, <1>3 DEF Checkout!Init

\* Every behaviour of the job lifecycle is one of the abstract reservation:
\* locks, crashes and processes add nothing to what it allows.
THEOREM LifecycleImplementsReservation == Spec => ReservationRefined
<1>1. IInv => AllJobs
  BY DEF IInv, AllJobs
<1>2. IInv /\ [Next]_vars => [Checkout!Next]_(Checkout!vars)
  <2> SUFFICES ASSUME IInv, [Next]_vars PROVE [Checkout!Next]_(Checkout!vars)
    OBVIOUS
  <2>1. CASE UNCHANGED vars
    BY <2>1 DEF vars, Checkout!vars, Held, Writing, Reserved, Live
  <2> QED
    BY <1>1, <2>1, NextImplements
<1> QED
  BY <1>2, InitImplements, Inductive, PTL DEF Spec, ReservationRefined, Checkout!Spec

-----------------------------------------------------------------------------
(* The abstract reservation, through its instance: whatever moves Held and   *)
(* Writing as CheckoutReservation allows keeps overlapping writers apart.    *)

\* The inductive invariant: types, disjoint reservations, covered writers.
CheckoutInv == Checkout!CheckoutTypeOK /\ Checkout!HeldApart /\ Checkout!WritersHold

LEMMA KeysOverlap == Checkout!KeysOverlapSymmetrically
BY ConflictAssumption, NoKeyAssumption DEF Checkout!KeysOverlapSymmetrically

LEMMA CheckoutInit == Checkout!Init => CheckoutInv
BY DEF Checkout!Init, CheckoutInv, Checkout!CheckoutTypeOK, Checkout!HeldApart, Checkout!WritersHold

\* Taking a free key keeps the reservations disjoint, in both orders of the
\* pair, because conflicts are symmetric.
LEMMA AcquirePreserves ==
  ASSUME CheckoutInv, NEW j \in Job, NEW key \in Key, Checkout!Acquire(j, key)
  PROVE  CheckoutInv'
<1> USE KeysOverlap DEF CheckoutInv, Checkout!KeysOverlapSymmetrically
<1>1. Checkout!CheckoutTypeOK'
  BY DEF Checkout!Acquire, Checkout!CheckoutTypeOK
<1>2. Checkout!HeldApart'
  BY DEF Checkout!Acquire, Checkout!CheckoutTypeOK, Checkout!HeldApart
<1>3. Checkout!WritersHold'
  BY DEF Checkout!Acquire, Checkout!CheckoutTypeOK, Checkout!WritersHold
<1> QED BY <1>1, <1>2, <1>3

LEMMA ReleasePreserves ==
  ASSUME CheckoutInv, NEW j \in Job, Checkout!Release(j)
  PROVE  CheckoutInv'
<1> USE DEF CheckoutInv
<1>1. Checkout!CheckoutTypeOK'
  BY DEF Checkout!Release, Checkout!CheckoutTypeOK
<1>2. Checkout!HeldApart'
  BY DEF Checkout!Release, Checkout!CheckoutTypeOK, Checkout!HeldApart
<1>3. Checkout!WritersHold'
  BY DEF Checkout!Release, Checkout!CheckoutTypeOK, Checkout!WritersHold
<1> QED BY <1>1, <1>2, <1>3

LEMMA WritingPreserves ==
  ASSUME CheckoutInv, NEW j \in Job, NEW p \in Round \X Slot,
         Checkout!BeginWriting(j, p) \/ Checkout!EndWriting(j, p)
  PROVE  CheckoutInv'
<1> USE DEF CheckoutInv
<1>1. Checkout!CheckoutTypeOK'
  BY DEF Checkout!BeginWriting, Checkout!EndWriting, Checkout!CheckoutTypeOK
<1>2. Checkout!HeldApart'
  BY DEF Checkout!BeginWriting, Checkout!EndWriting, Checkout!HeldApart
<1>3. Checkout!WritersHold'
  BY DEF Checkout!BeginWriting, Checkout!EndWriting, Checkout!CheckoutTypeOK, Checkout!WritersHold
<1> QED BY <1>1, <1>2, <1>3

LEMMA CheckoutStep == CheckoutInv /\ [Checkout!Next]_(Checkout!vars) => CheckoutInv'
<1>1. ASSUME CheckoutInv, UNCHANGED Checkout!vars
      PROVE  CheckoutInv'
  BY <1>1 DEF Checkout!vars, CheckoutInv, Checkout!CheckoutTypeOK, Checkout!HeldApart,
              Checkout!WritersHold
<1> QED
  BY <1>1, AcquirePreserves, ReleasePreserves, WritingPreserves DEF Checkout!Next

\* Two distinct writers belong to two jobs, whose keys do not conflict.
LEMMA CheckoutExcludes == CheckoutInv => Checkout!OneWriterPerCheckout
BY DEF CheckoutInv, Checkout!CheckoutTypeOK, Checkout!HeldApart, Checkout!WritersHold, Checkout!OneWriterPerCheckout

\* The abstract reservation never lets two provider processes write to
\* overlapping checkouts: find_conflict at every acquire and an empty
\* live_blockers at every release are enough.
THEOREM ReservationSafe == Checkout!Spec => []Checkout!OneWriterPerCheckout
<1>1. Checkout!Spec => []CheckoutInv
  BY CheckoutInit, CheckoutStep, PTL DEF Checkout!Spec
<1> QED
  BY <1>1, CheckoutExcludes, PTL

\* No two providers, of one job or of two, ever write to overlapping checkouts:
\* find_conflict, live_blockers and the single-use claim together, inherited
\* from the abstract reservation.
THEOREM WritersStayApart == Spec => []WritersApart
BY LifecycleImplementsReservation, ReservationSafe, PTL DEF ReservationRefined, WritersApart
=============================================================================
