-------------------------- MODULE SdkSession_proofs --------------------------
(* The SDK session's safety, for any number of revisions and any commands. *)
EXTENDS SdkSession, TLAPS

-----------------------------------------------------------------------------
(* Types.                                                                  *)

LEMMA RoundType == (\A i \in Round \cup {NoRound} : i \in Int) /\ 0 \in Round
BY MaxRevisionsAssumption DEF Round, NoRound

LEMMA NewRoundType == NewRound \in RoundRecord
BY DEF NewRound, RoundRecord, Verdict, Process

LEMMA PhaseType ==
  \A ph \in {"starting", "running", "failed", "needs_attention", "interrupted",
             "awaiting_review", "accepted", "stopped"} : ph \in Phase \cup {ABSENT} /\ ph # ABSENT
BY DEF Phase, RESERVING_PHASES, TERMINAL_DECISION_PHASES, ABSENT

\* The record's parts.
LEMMA CurrentType ==
  ASSUME TypeOK
  PROVE  /\ job.current_round \in Round
         /\ Current \in RoundRecord
         /\ job.sdk_claude \in Process /\ job.sdk_worker \in Process
BY DEF TypeOK, JobRecords, Current

\* What reconcile saves is a record that differs in its phase at most.
LEMMA ReconciledKeeps ==
  ASSUME TypeOK, NEW graceOver \in BOOLEAN
  PROVE  \/ Reconciled(graceOver) = job
         \/ /\ job.phase \in BUSY_PHASES
            /\ \E ph \in {"needs_attention", "interrupted"} :
                 Reconciled(graceOver) = [job EXCEPT !.phase = ph]
BY DEF Reconciled

LEMMA ReconciledType ==
  ASSUME TypeOK, NEW graceOver \in BOOLEAN
  PROVE  /\ Reconciled(graceOver) \in JobRecords
         /\ Reconciled(graceOver).current_round = job.current_round
         /\ Reconciled(graceOver).rounds = job.rounds
         /\ Reconciled(graceOver).sdk_worker = job.sdk_worker
         /\ Reconciled(graceOver).sdk_claude = job.sdk_claude
         /\ Reconciled(graceOver).stop_requested = job.stop_requested
         /\ Reconciled(graceOver).sdk_closing = job.sdk_closing
<1>1. CASE Reconciled(graceOver) = job
  BY <1>1 DEF TypeOK
<1>2. CASE \E ph \in {"needs_attention", "interrupted"} :
             Reconciled(graceOver) = [job EXCEPT !.phase = ph]
  BY <1>2, PhaseType DEF TypeOK, JobRecords
<1> QED
  BY <1>1, <1>2, ReconciledKeeps

\* Launching a worker, for a record whose current round is a round.
LEMMA LaunchType ==
  ASSUME NEW rec \in JobRecords, NEW outcome \in LaunchOutcome,
         worker \in [Round -> WorkerState], LaunchWorker(rec, outcome)
  PROVE  job' \in JobRecords /\ worker' \in [Round -> WorkerState]
<1>1. worker' \in [Round -> WorkerState]
  BY DEF LaunchWorker, WorkerState, WorkerLive
<1> DEFINE i == rec.current_round
<1>i. i \in Round /\ rec.rounds[i] \in RoundRecord /\ i \in Process
  BY DEF JobRecords, Process
<1>2. CASE outcome = "spawn_failed"
  <2>1. job' = [rec EXCEPT !.phase = "failed", !.rounds[i].finalized = TRUE]
    BY <1>2 DEF LaunchWorker
  <2>2. [rec.rounds[i] EXCEPT !.finalized = TRUE] \in RoundRecord
    BY <1>i DEF RoundRecord
  <2>3. job' \in JobRecords
    BY <1>i, <2>1, <2>2, PhaseType DEF JobRecords
  <2> QED
    BY <1>1, <2>3
<1>3. CASE outcome = "registered"
  <2>1. job' = [rec EXCEPT !.rounds[i].worker = i, !.sdk_worker = i, !.sdk_closing = FALSE]
    BY <1>3 DEF LaunchWorker
  <2>2. [rec.rounds[i] EXCEPT !.worker = i] \in RoundRecord
    BY <1>i DEF RoundRecord
  <2>3. job' \in JobRecords
    BY <1>i, <2>1, <2>2 DEF JobRecords
  <2> QED
    BY <1>1, <2>3
<1>4. CASE outcome \notin {"spawn_failed", "registered"}
  BY <1>1, <1>4 DEF LaunchWorker
<1> QED
  BY <1>2, <1>3, <1>4

LEMMA OpenedType ==
  ASSUME NEW rec \in JobRecords, rec.current_round < MaxRevisions, NEW timeout \in Timeout
  PROVE  /\ Opened(rec, timeout) \in JobRecords
         /\ Opened(rec, timeout).current_round = rec.current_round + 1
<1>1. rec.current_round + 1 \in Round
  BY MaxRevisionsAssumption DEF JobRecords, Round
<1> QED
  BY <1>1, NewRoundType, PhaseType DEF Opened, JobRecords

LEMMA RelaunchType ==
  ASSUME TypeOK, NEW rec \in JobRecords, rec.current_round < MaxRevisions,
         NEW timeout \in Timeout, NEW outcome \in LaunchOutcome, Relaunch(rec, timeout, outcome)
  PROVE  job' \in JobRecords /\ worker' \in [Round -> WorkerState]
<1> DEFINE opened == Opened(rec, timeout)
<1>1. opened \in JobRecords
  BY OpenedType
<1>2. worker \in [Round -> WorkerState]
  BY DEF TypeOK
<1>3. CASE ~WorkerAlive(rec.sdk_worker)
  <2>1. LaunchWorker(opened, outcome)
    BY <1>3 DEF Relaunch
  <2> HIDE DEF opened
  <2> QED
    BY <1>1, <1>2, <2>1, LaunchType
<1>4. CASE WorkerAlive(rec.sdk_worker)
  <2>1. /\ worker' = worker
        /\ \/ job' = opened
           \/ job' = [opened EXCEPT !.rounds[opened.current_round].worker = rec.sdk_worker,
                                    !.rounds[opened.current_round].claude = rec.sdk_claude]
    BY <1>4 DEF Relaunch
  <2>2. rec.sdk_worker \in Process /\ rec.sdk_claude \in Process
    BY DEF JobRecords
  <2> HIDE DEF opened
  <2>3. opened.current_round \in Round /\ opened.rounds[opened.current_round] \in RoundRecord
    BY <1>1 DEF JobRecords
  <2>4. [opened.rounds[opened.current_round] EXCEPT
            !.worker = rec.sdk_worker, !.claude = rec.sdk_claude] \in RoundRecord
    BY <2>2, <2>3 DEF RoundRecord
  <2>5. job' \in JobRecords
    <3> DEFINE r == [opened.rounds[opened.current_round] EXCEPT
                        !.worker = rec.sdk_worker, !.claude = rec.sdk_claude]
               rounds == [opened.rounds EXCEPT ![opened.current_round] = r]
    <3>1. rounds \in [Round -> RoundRecord]
      BY <1>1, <2>3, <2>4 DEF JobRecords
    <3>2. job' = opened \/ job' = [opened EXCEPT !.rounds = rounds]
      BY <1>1, <2>1, <2>3 DEF JobRecords, RoundRecord
    <3> HIDE DEF rounds
    <3> QED
      BY <1>1, <3>1, <3>2 DEF JobRecords
  <2> QED
    BY <1>2, <2>1, <2>5
<1> QED
  BY <1>3, <1>4

-----------------------------------------------------------------------------
(* Steps that leave the rounds of the record alone, and in which a worker  *)
(* at most moves towards its end.                                          *)

Retreats(before, after) ==
  \/ after = before
  \/ before \in WorkerLive /\ after = "gone"
  \/ before \in Working /\ after \in {"cancelled", "aborting"}
  \/ before \in {"idle", "closing"} /\ after = "closing"

SameRounds ==
  /\ job'.current_round = job.current_round
  /\ job'.rounds = job.rounds
  /\ job'.sdk_worker = job.sdk_worker
  /\ job'.sdk_claude = job.sdk_claude

LEMMA RetreatStep ==
  ASSUME IInv, TypeOK', handled' = handled, SameRounds,
         job'.phase = ABSENT => job.phase = ABSENT /\ command' = command,
         Decided => Decided',
         \A v \in Round : Retreats(worker[v], worker'[v])
  PROVE  IInv'
<1> USE DEF IInv, SameRounds
<1>1. Current' = Current
  BY DEF Current
<1>2. \A v \in Round : /\ worker'[v] \in Session => worker[v] \in Session
                       /\ worker'[v] \in Working => worker[v] \in Working
                       /\ worker'[v] \in WorkerLive => worker[v] \in WorkerLive
                       /\ worker[v] = "none" => worker'[v] = "none"
                       /\ worker'[v] \in {"boot", "working", "idle"} => worker'[v] = worker[v]
  BY DEF Retreats, WorkerLive, Session, Working
<1>3. NotStarted'
  BY <1>1, <1>2 DEF NotStarted
<1>4. SessionIsRecorded'
  BY <1>2 DEF SessionIsRecorded
<1>5. LaterRoundsHaveNoWorker'
  BY <1>2 DEF LaterRoundsHaveNoWorker
<1>6. BootedRoundIsItsOwn'
  BY <1>1, <1>2, CurrentType DEF BootedRoundIsItsOwn
<1>7. WorkIsClaimed'
  BY <1>1, <1>2 DEF WorkIsClaimed
<1>8. UnclaimedIsOver'
  BY <1>1, <1>2, CurrentType DEF UnclaimedIsOver, RoundRecord, Process
<1>9. CliIsRecorded'
  BY <1>1, <1>2 DEF CliIsRecorded
<1>10. VerifiedIsFinalized' /\ VerifiedRoundNamesItsSession'
  BY DEF VerifiedIsFinalized, VerifiedRoundNamesItsSession
<1> QED
  BY <1>3, <1>4, <1>5, <1>6, <1>7, <1>8, <1>9, <1>10

-----------------------------------------------------------------------------
(* Steps in which the session's worker saves the current round.            *)

\* The record with a new phase, CLI and current round.
Saved(ph, sc, r) ==
  [job EXCEPT !.phase = ph, !.sdk_claude = sc,
              !.rounds = [job.rounds EXCEPT ![job.current_round] = r]]

LEMMA SavedFields ==
  ASSUME TypeOK, NEW ph \in Phase \cup {ABSENT}, NEW sc \in Process, NEW r \in RoundRecord,
         job' = Saved(ph, sc, r)
  PROVE  /\ job' \in JobRecords
         /\ job'.phase = ph /\ job'.sdk_claude = sc
         /\ job'.current_round = job.current_round
         /\ job'.sdk_worker = job.sdk_worker
         /\ job'.stop_requested = job.stop_requested
         /\ Current' = r
         /\ \A k \in Round \ {job.current_round} : job'.rounds[k] = job.rounds[k]
         /\ job'.rounds[job.current_round] = r
<1> DEFINE rounds == [job.rounds EXCEPT ![job.current_round] = r]
<1>1. rounds \in [Round -> RoundRecord]
  BY DEF TypeOK, JobRecords
<1>2. /\ \A k \in Round \ {job.current_round} : rounds[k] = job.rounds[k]
      /\ rounds[job.current_round] = r
      /\ job.current_round \in Round
  BY DEF TypeOK, JobRecords
<1>3. job' = [job EXCEPT !.phase = ph, !.sdk_claude = sc, !.rounds = rounds]
  BY DEF Saved
<1> HIDE DEF rounds
<1>4. job' \in JobRecords /\ job'.rounds = rounds
  BY <1>1, <1>3 DEF TypeOK, JobRecords
<1>5. /\ job'.phase = ph /\ job'.sdk_claude = sc
      /\ job'.current_round = job.current_round
      /\ job'.sdk_worker = job.sdk_worker
      /\ job'.stop_requested = job.stop_requested
  BY <1>3 DEF TypeOK, JobRecords
<1> QED
  BY <1>2, <1>4, <1>5 DEF Current

\* A step of worker w, to state s, that leaves the other workers and the round's
\* worker as they are, with nobody else at work.
WorkerSaves(w, s, ph, sc, r) ==
  /\ job' = Saved(ph, sc, r) /\ worker' = [worker EXCEPT ![w] = s]
  /\ worker[w] \in WorkerLive /\ s \notin {"none", "boot"}
  /\ s \in Session => job.sdk_worker = w /\ handled'[w] \in Round
  /\ \A v \in Round \ {w} : worker[v] \notin Working
  /\ \A v \in Round \ {w} : worker[v] \in Session => sc = job.sdk_claude
  /\ \A v \in Round \ {w} : handled'[v] = handled[v]
  /\ \/ handled'[w] = handled[w]
     \/ handled'[w] = job.current_round /\ handled[w] <= job.current_round
  /\ r.worker = Current.worker
  /\ s \in Working => /\ handled'[w] = job.current_round
                      /\ ~r.finalized /\ r.claim_consumed /\ r.worker = w
  /\ r.finalized /\ ~r.claim_consumed => s \notin WorkerLive /\ r.worker \in {w, NoProcess}
  /\ s \in {"working", "idle"} => sc = w
  /\ s = "working" => r.claude = w
  /\ r.verification = "ok" =>
       /\ r.finalized
       /\ \/ handled'[w] = job.current_round /\ r.worker = w /\ r.claude = w
          \/ Current.verification = "ok" /\ r.claude = Current.claude

LEMMA SavedStep ==
  ASSUME IInv, TypeOK',
         NEW ph \in Phase, NEW sc \in Process, NEW r \in RoundRecord,
         NEW w \in Round, NEW s \in WorkerState, WorkerSaves(w, s, ph, sc, r)
  PROVE  IInv'
<1> DEFINE i == job.current_round
<1> USE DEF IInv, WorkerSaves
<1>1. /\ job'.phase = ph /\ job'.sdk_claude = sc
      /\ job'.current_round = i /\ job'.sdk_worker = job.sdk_worker
      /\ job'.stop_requested = job.stop_requested
      /\ Current' = r /\ job'.rounds[i] = r
      /\ \A k \in Round \ {i} : job'.rounds[k] = job.rounds[k]
      /\ i \in Round
  BY SavedFields, CurrentType
<1>2. /\ \A v \in Round \ {w} : worker'[v] = worker[v]
      /\ worker'[w] = s
  BY DEF TypeOK
<1>3. \A v \in Round \ {w} : worker[v] \notin Working
  OBVIOUS
<1>4. NotStarted'
  BY <1>1, PhaseType DEF NotStarted, Phase, RESERVING_PHASES, TERMINAL_DECISION_PHASES, ABSENT
<1>5. SessionIsRecorded'
  BY <1>1, <1>2, <1>3 DEF SessionIsRecorded
<1>6. LaterRoundsHaveNoWorker'
  BY <1>1, <1>2 DEF LaterRoundsHaveNoWorker, WorkerLive, Session, Working
<1>7. BootedRoundIsItsOwn'
  BY <1>1, <1>2 DEF BootedRoundIsItsOwn
<1>8. WorkIsClaimed'
  BY <1>1, <1>2, <1>3 DEF WorkIsClaimed, Session
<1>9. UnclaimedIsOver'
  BY <1>1, <1>2 DEF UnclaimedIsOver
<1>10. CliIsRecorded'
  <2>1. \A v \in Round \ {w} :
          /\ worker[v] # "working"
          /\ worker[v] = "idle" => sc = job.sdk_claude
    BY DEF Session, Working
  <2> QED
    BY <1>1, <1>2, <2>1 DEF CliIsRecorded
<1>11. VerifiedIsFinalized'
  BY <1>1, RoundType DEF VerifiedIsFinalized
<1>12. VerifiedRoundNamesItsSession'
  <2>1. \A v \in Round : /\ handled[v] \in Int /\ handled'[v] \in Int
                         /\ handled'[v] >= handled[v]
    <3>1. \A v \in Round : handled[v] \in Int /\ handled'[v] \in Int
      BY RoundType DEF TypeOK
    <3>2. i \in Int /\ (handled'[w] = handled[w] \/ (handled'[w] = i /\ handled[w] <= i))
      BY <1>1, RoundType
    <3>3. \A v \in Round \ {w} : handled'[v] = handled[v]
      OBVIOUS
    <3> HIDE DEF IInv, WorkerSaves
    <3> QED
      BY <3>1, <3>2, <3>3
  <2> SUFFICES ASSUME NEW k \in Round, job'.rounds[k].verification = "ok"
               PROVE  \E v \in Round : /\ handled'[v] >= k /\ job'.rounds[k].worker = v
                                       /\ job'.rounds[k].claude = v
    BY DEF VerifiedRoundNamesItsSession
  <2>2. CASE k # i \/ (Current.verification = "ok" /\ r.claude = Current.claude)
    <3>1. /\ job.rounds[k].verification = "ok"
          /\ job'.rounds[k].worker = job.rounds[k].worker
          /\ job'.rounds[k].claude = job.rounds[k].claude
      BY <1>1, <2>2 DEF Current
    <3>2. PICK v \in Round : /\ handled[v] >= k /\ job.rounds[k].worker = v
                             /\ job.rounds[k].claude = v
      BY <3>1 DEF VerifiedRoundNamesItsSession
    <3>3. handled'[v] >= k
      BY <2>1, <3>2, RoundType
    <3> QED
      BY <3>1, <3>2, <3>3
  <2>3. CASE k = i /\ handled'[w] = i /\ r.worker = w /\ r.claude = w
    BY <1>1, <2>3, RoundType
  <2>4. CASE k = i
    <3>1. r.verification = "ok"
      BY <1>1, <2>4
    <3>2. \/ handled'[w] = i /\ r.worker = w /\ r.claude = w
          \/ Current.verification = "ok" /\ r.claude = Current.claude
      BY <3>1
    <3> QED
      BY <2>2, <2>3, <2>4, <3>2
  <2> QED
    BY <2>2, <2>4
<1> QED
  BY <1>4, <1>5, <1>6, <1>7, <1>8, <1>9, <1>10, <1>11, <1>12

LEMMA OthersAreQuiet ==
  ASSUME IInv, NEW w \in Round, job.sdk_worker = w
  PROVE  \A v \in Round \ {w} : worker[v] \notin Session /\ worker[v] \notin Working
BY DEF IInv, SessionIsRecorded, Session

\* What the worker's steps save, in that form.
LEMMA SavedForms ==
  ASSUME TypeOK
  PROVE  /\ job = Saved(job.phase, job.sdk_claude, Current)
         /\ \A ph \in Phase :
              [job EXCEPT !.phase = ph] = Saved(ph, job.sdk_claude, Current)
         /\ \A b \in BOOLEAN :
              [job EXCEPT !.rounds[job.current_round].claude_launch_pending = b]
                = Saved(job.phase, job.sdk_claude, [Current EXCEPT !.claude_launch_pending = b])
<1> DEFINE i == job.current_round
<1>1. i \in Round /\ job.rounds[i] \in RoundRecord /\ Current = job.rounds[i]
  BY DEF TypeOK, JobRecords, Current
<1>2. job = Saved(job.phase, job.sdk_claude, Current)
  BY <1>1 DEF Saved, TypeOK, JobRecords
<1>3. ASSUME NEW ph \in Phase
      PROVE  [job EXCEPT !.phase = ph] = Saved(ph, job.sdk_claude, Current)
  BY <1>1 DEF Saved, TypeOK, JobRecords
<1>4. ASSUME NEW b \in BOOLEAN
      PROVE  [job EXCEPT !.rounds[i].claude_launch_pending = b]
               = Saved(job.phase, job.sdk_claude, [Current EXCEPT !.claude_launch_pending = b])
  BY <1>1 DEF Saved, TypeOK, JobRecords, RoundRecord
<1> QED
  BY <1>2, <1>3, <1>4

LEMMA RegisteredForm ==
  ASSUME TypeOK, NEW w \in Round
  PROVE  [job EXCEPT !.sdk_claude = w, !.rounds[job.current_round].claude = w,
                     !.rounds[job.current_round].claude_launch_pending = FALSE]
           = Saved(job.phase, w, [Current EXCEPT !.claude = w, !.claude_launch_pending = FALSE])
<1>1. /\ job.current_round \in Round /\ job.rounds[job.current_round] \in RoundRecord
      /\ Current = job.rounds[job.current_round]
  BY DEF TypeOK, JobRecords, Current
<1> QED
  BY <1>1 DEF Saved, TypeOK, JobRecords, RoundRecord

LEMMA FinalizedForm ==
  ASSUME TypeOK, NEW ph \in Phase, NEW v \in Verdict
  PROVE  [job EXCEPT !.phase = ph, !.rounds[job.current_round].finalized = TRUE,
                     !.rounds[job.current_round].verification = v]
           = Saved(ph, job.sdk_claude, [Current EXCEPT !.finalized = TRUE, !.verification = v])
<1>1. /\ job.current_round \in Round /\ job.rounds[job.current_round] \in RoundRecord
      /\ Current = job.rounds[job.current_round]
  BY DEF TypeOK, JobRecords, Current
<1> QED
  BY <1>1 DEF Saved, TypeOK, JobRecords, RoundRecord

LEMMA RefusedForm ==
  ASSUME TypeOK, NEW ph \in Phase
  PROVE  [job EXCEPT !.phase = ph, !.rounds[job.current_round].claim_consumed = TRUE,
                     !.rounds[job.current_round].finalized = TRUE]
           = Saved(ph, job.sdk_claude, [Current EXCEPT !.claim_consumed = TRUE, !.finalized = TRUE])
<1>1. /\ job.current_round \in Round /\ job.rounds[job.current_round] \in RoundRecord
      /\ Current = job.rounds[job.current_round]
  BY DEF TypeOK, JobRecords, Current
<1> QED
  BY <1>1 DEF Saved, TypeOK, JobRecords, RoundRecord

LEMMA ClaimedForm ==
  ASSUME TypeOK, NEW ph \in Phase, NEW q \in Process
  PROVE  [job EXCEPT !.phase = ph, !.rounds[job.current_round].claim_consumed = TRUE,
                     !.rounds[job.current_round].claude = q]
           = Saved(ph, job.sdk_claude, [Current EXCEPT !.claim_consumed = TRUE, !.claude = q])
<1>1. /\ job.current_round \in Round /\ job.rounds[job.current_round] \in RoundRecord
      /\ Current = job.rounds[job.current_round]
  BY DEF TypeOK, JobRecords, Current
<1> QED
  BY <1>1 DEF Saved, TypeOK, JobRecords, RoundRecord

-----------------------------------------------------------------------------
(* The worker's actions.                                                   *)

LEMMA StateType ==
  /\ WorkerState = {"boot", "idle", "closing", "none", "gone"} \cup Working
  /\ WorkerLive = {"boot", "idle", "closing"} \cup Working
  /\ Session = {"idle", "closing"} \cup Working
  /\ Working = {"claimed", "launching", "spawned", "working", "cancelled", "aborting"}
BY DEF WorkerState, WorkerLive, Session, Working

\* What is known of a live worker.
LEMMA WorkerFacts ==
  ASSUME IInv, NEW w \in Round, worker[w] \in WorkerLive
  PROVE  /\ job.phase \in Phase
         /\ w <= job.current_round
         /\ handled[w] \in Round \cup {NoRound}
         /\ w \in Process
         /\ job.current_round \in Round
         /\ Current \in RoundRecord
         /\ job.sdk_claude \in Process
         /\ worker[w] \in Session => job.sdk_worker = w
         /\ worker[w] \in Working =>
              /\ handled[w] = job.current_round
              /\ ~Current.finalized /\ Current.claim_consumed /\ Current.worker = w
              /\ Current.verification # "ok"
         /\ worker[w] \in {"working", "idle"} => job.sdk_claude = w
         /\ worker[w] = "working" => Current.claude = w
<1> USE DEF IInv
<1>1. job.phase \in Phase
  BY StateType DEF NotStarted, TypeOK, JobRecords
<1>2. w <= job.current_round
  <2>1. w \in Int /\ job.current_round \in Int
    BY RoundType, CurrentType
  <2>2. ~(w > job.current_round)
    BY StateType DEF LaterRoundsHaveNoWorker
  <2> QED
    BY <2>1, <2>2
<1>3. handled[w] \in Round \cup {NoRound} /\ w \in Process
  BY DEF TypeOK, Process
<1>4. ~Current.finalized => Current.verification # "ok"
  BY CurrentType DEF VerifiedIsFinalized, Current
<1>5. /\ job.current_round \in Round
      /\ Current \in RoundRecord
      /\ job.sdk_claude \in Process
  BY CurrentType
<1>6. /\ worker[w] \in Session => job.sdk_worker = w
      /\ worker[w] \in {"working", "idle"} => job.sdk_claude = w
      /\ worker[w] = "working" => Current.claude = w
  BY DEF SessionIsRecorded, CliIsRecorded
<1>7. worker[w] \in Working =>
        /\ handled[w] = job.current_round
        /\ ~Current.finalized /\ Current.claim_consumed /\ Current.worker = w
  BY DEF WorkIsClaimed
<1> QED
  BY <1>1, <1>2, <1>3, <1>4, <1>5, <1>6, <1>7

\* What is known of a worker at work.
LEMMA WorkingFacts ==
  ASSUME IInv, NEW w \in Round, worker[w] \in Working
  PROVE  /\ TypeOK
         /\ worker[w] \in WorkerLive
         /\ job.phase \in Phase /\ job.sdk_worker = w
         /\ handled[w] = job.current_round /\ handled[w] <= job.current_round
      /\ handled[w] \in Round
         /\ handled[w] \in Round
         /\ ~Current.finalized /\ Current.claim_consumed /\ Current.worker = w
         /\ Current.verification # "ok"
         /\ job.sdk_claude \in Process /\ Current \in RoundRecord /\ w \in Process
<1>1. worker[w] \in WorkerLive /\ worker[w] \in Session
  BY StateType
<1>2. TypeOK
  BY DEF IInv
<1>3. job.current_round \in Int /\ job.current_round \in Round
  BY <1>2, CurrentType, RoundType
<1> QED
  BY <1>1, <1>2, <1>3, WorkerFacts

\* A step of a worker at work that neither finalizes its round nor changes what
\* the round says of its processes, or hands it to the failure path.
LEMMA WorkStep ==
  ASSUME IInv, NEW w \in Round, worker[w] \in Working,
         NEW s \in {"launching", "spawned", "aborting"}, worker' = [worker EXCEPT ![w] = s],
         job' = job \/ \E b \in BOOLEAN :
                         job' = [job EXCEPT !.rounds[handled[w]].claude_launch_pending = b],
         cli' \in [Round -> {"none", "live", "gone"}],
         UNCHANGED <<handled, command, unowned>>
  PROVE  IInv'
<1>1. /\ TypeOK
      /\ worker[w] \in WorkerLive
      /\ job.phase \in Phase /\ job.sdk_worker = w
      /\ handled[w] = job.current_round /\ handled[w] <= job.current_round
      /\ handled[w] \in Round
      /\ ~Current.finalized /\ Current.claim_consumed /\ Current.worker = w
      /\ Current.verification # "ok"
      /\ job.sdk_claude \in Process /\ Current \in RoundRecord
  BY WorkingFacts
<1>2. s \in WorkerState
  BY StateType
<1>3. PICK r \in RoundRecord :
        /\ job' = Saved(job.phase, job.sdk_claude, r)
        /\ r.worker = w /\ ~r.finalized /\ r.claim_consumed /\ r.verification # "ok"
  <2>1. CASE job' = job
    BY <1>1, <2>1, SavedForms
  <2>2. ASSUME NEW b \in BOOLEAN,
               job' = [job EXCEPT !.rounds[handled[w]].claude_launch_pending = b]
        PROVE  \E r \in RoundRecord :
                 /\ job' = Saved(job.phase, job.sdk_claude, r)
                 /\ r.worker = w /\ ~r.finalized /\ r.claim_consumed /\ r.verification # "ok"
    <3> DEFINE r == [Current EXCEPT !.claude_launch_pending = b]
    <3>1. job' = Saved(job.phase, job.sdk_claude, r)
      BY <1>1, <2>2, SavedForms
    <3>2. r \in RoundRecord
      BY <1>1 DEF RoundRecord
    <3>3. r.worker = w /\ ~r.finalized /\ r.claim_consumed /\ r.verification # "ok"
      BY <1>1 DEF RoundRecord
    <3> QED
      BY <3>1, <3>2, <3>3
  <2> QED
    BY <2>1, <2>2
<1>4. TypeOK'
  <2>1. job' \in JobRecords
    BY <1>1, <1>3, SavedFields
  <2> QED
    BY <1>1, <1>2, <2>1 DEF TypeOK
<1>99. WorkerSaves(w, s, job.phase, job.sdk_claude, r)
  BY <1>1, <1>2, <1>3, <1>4, OthersAreQuiet, StateType DEF WorkerSaves
<1> QED
  BY <1>1, <1>2, <1>3, <1>4, <1>99, SavedStep

LEMMA PendLaunchInv ==
  ASSUME IInv, NEW w \in Round, PendLaunch(w)
  PROVE  IInv'
<1>1. worker[w] \in Working
  BY StateType DEF PendLaunch
<1>2. cli' \in [Round -> {"none", "live", "gone"}]
  BY DEF PendLaunch, IInv, TypeOK
<1> QED
  BY <1>1, <1>2, WorkStep DEF PendLaunch, Becomes

LEMMA SpawnCliInv ==
  ASSUME IInv, NEW w \in Round, SpawnCli(w)
  PROVE  IInv'
<1>1. worker[w] \in Working
  BY StateType DEF SpawnCli
<1>2. cli' \in [Round -> {"none", "live", "gone"}]
  BY DEF SpawnCli, IInv, TypeOK
<1> QED
  BY <1>1, <1>2, WorkStep DEF SpawnCli, Becomes

LEMMA RegisterCliInv ==
  ASSUME IInv, NEW w \in Round, RegisterCli(w)
  PROVE  IInv'
<1>1. worker[w] \in Working
  BY StateType DEF RegisterCli
<1>2. cli' \in [Round -> {"none", "live", "gone"}]
  BY DEF RegisterCli, IInv, TypeOK
<1>3. CASE job' = job /\ worker' = [worker EXCEPT ![w] = "aborting"]
  BY <1>1, <1>2, <1>3, WorkStep DEF RegisterCli
<1>4. CASE job' = Registered(w) /\ worker' = [worker EXCEPT ![w] = "working"]
  <2> DEFINE r == [Current EXCEPT !.claude = w, !.claude_launch_pending = FALSE]
             s == "working"
  <2>1. /\ TypeOK
        /\ worker[w] \in WorkerLive
        /\ job.phase \in Phase /\ job.sdk_worker = w
        /\ handled[w] = job.current_round /\ handled[w] <= job.current_round
      /\ handled[w] \in Round
        /\ ~Current.finalized /\ Current.claim_consumed /\ Current.worker = w
        /\ Current.verification # "ok"
        /\ job.sdk_claude \in Process /\ Current \in RoundRecord /\ w \in Process
    BY <1>1, WorkingFacts
  <2>2. job' = Saved(job.phase, w, r)
    <3>1. job' = [job EXCEPT !.sdk_claude = w, !.rounds[job.current_round].claude = w,
                             !.rounds[job.current_round].claude_launch_pending = FALSE]
      BY <1>4, <2>1 DEF Registered
    <3>2. [job EXCEPT !.sdk_claude = w, !.rounds[job.current_round].claude = w,
                      !.rounds[job.current_round].claude_launch_pending = FALSE]
            = Saved(job.phase, w, r)
      BY <2>1, RegisteredForm
    <3> QED
      BY <3>1, <3>2, Zenon
  <2>3. /\ r \in RoundRecord
        /\ r.worker = w /\ r.claude = w
        /\ ~r.finalized /\ r.claim_consumed /\ r.verification # "ok"
    BY <2>1 DEF RoundRecord
  <2>4. /\ handled' = handled /\ UNCHANGED <<command, unowned>>
        /\ s \in WorkerState /\ s \notin {"none", "boot"}
        /\ worker' = [worker EXCEPT ![w] = s]
    BY <1>4, StateType DEF RegisterCli
  <2> HIDE DEF r, s
  <2>5. TypeOK'
    <3>1. job' \in JobRecords
      BY <2>1, <2>2, <2>3, SavedFields
    <3> QED
      BY <1>2, <2>1, <2>4, <3>1 DEF TypeOK
  <2>6. /\ \A v \in Round \ {w} : handled'[v] = handled[v]
        /\ handled'[w] \in {handled[w], job.current_round}
        /\ handled'[w] = job.current_round
        /\ r.worker = Current.worker
    BY <2>1, <2>3, <2>4
  <2>99. WorkerSaves(w, s, job.phase, w, r)
    BY <2>1, <2>2, <2>3, <2>4, <2>5, <2>6, OthersAreQuiet, StateType DEF WorkerSaves
  <2> QED
    BY <2>1, <2>2, <2>3, <2>4, <2>5, <2>6, <2>99, SavedStep
<1> QED
  BY <1>3, <1>4 DEF RegisterCli, Becomes

\* The worker at work finalizes its round.
LEMMA FinalizeStep ==
  ASSUME IInv, NEW w \in Round, worker[w] \in Working,
         NEW s \in {"idle", "closing", "gone"}, worker' = [worker EXCEPT ![w] = s],
         NEW verdict \in Verdict, job' = Finalized(w, verdict),
         s = "idle" \/ verdict = "ok" => worker[w] = "working",
         UNCHANGED <<cli, handled, command, unowned>>
  PROVE  IInv'
<1> DEFINE r == [Current EXCEPT !.finalized = TRUE, !.verification = verdict]
           ph == IF Decided THEN job.phase
                 ELSE IF verdict = "ok" THEN "awaiting_review" ELSE "needs_attention"
<1>1. /\ TypeOK
      /\ worker[w] \in WorkerLive
      /\ job.phase \in Phase /\ job.sdk_worker = w
      /\ handled[w] = job.current_round /\ handled[w] <= job.current_round
      /\ handled[w] \in Round
      /\ Current.claim_consumed /\ Current.worker = w
      /\ job.sdk_claude \in Process /\ Current \in RoundRecord
  BY WorkingFacts
<1>2. worker[w] = "working" => job.sdk_claude = w /\ Current.claude = w
  BY WorkerFacts, <1>1
<1>3. ph \in Phase
  BY <1>1 DEF Phase, RESERVING_PHASES
<1>4. job' = Saved(ph, job.sdk_claude, r)
  <2>1. job' = [job EXCEPT !.phase = ph, !.rounds[job.current_round].finalized = TRUE,
                           !.rounds[job.current_round].verification = verdict]
    BY <1>1 DEF Finalized
  <2> HIDE DEF ph
  <2>2. [job EXCEPT !.phase = ph, !.rounds[job.current_round].finalized = TRUE,
                    !.rounds[job.current_round].verification = verdict]
          = Saved(ph, job.sdk_claude, r)
    BY <1>1, <1>3, FinalizedForm
  <2> QED
    BY <2>1, <2>2, Zenon
<1>5. /\ r \in RoundRecord
      /\ r.worker = w /\ r.claude = Current.claude
      /\ r.finalized /\ r.claim_consumed /\ r.verification = verdict
  BY <1>1 DEF RoundRecord
<1> HIDE DEF r, ph
<1>6. s \in WorkerState /\ s \notin Working /\ handled' = handled
  BY StateType
<1>7. TypeOK'
  <2>1. job' \in JobRecords
    BY <1>1, <1>3, <1>4, <1>5, SavedFields
  <2> QED
    BY <1>1, <1>6, <2>1 DEF TypeOK
<1>8. /\ s \notin {"none", "boot", "working"}
      /\ s = "idle" => job.sdk_claude = w
      /\ r.verification = "ok" => r.finalized /\ r.claude = w
  BY <1>2, <1>5
<1>99. WorkerSaves(w, s, ph, job.sdk_claude, r)
  BY <1>1, <1>3, <1>4, <1>5, <1>6, <1>7, <1>8, OthersAreQuiet, StateType DEF WorkerSaves
<1> QED
  BY <1>1, <1>3, <1>4, <1>5, <1>6, <1>7, <1>8, <1>99, SavedStep

LEMMA FinishRoundInv ==
  ASSUME IInv, NEW w \in Round, NEW verdict \in Verdict, FinishRound(w, verdict)
  PROVE  IInv'
<1>1. worker[w] \in Working /\ worker[w] = "working"
  BY StateType DEF FinishRound
<1> QED
  BY <1>1, FinalizeStep DEF FinishRound, Becomes

LEMMA FailRoundInv ==
  ASSUME IInv, NEW w \in Round, FailRound(w)
  PROVE  IInv'
<1>1. worker[w] \in Working /\ "failed" \in Verdict /\ "failed" # "ok"
  BY StateType DEF FailRound, Verdict
<1> QED
  BY <1>1, FinalizeStep DEF FailRound, Becomes

LEMMA ClaimRoundInv ==
  ASSUME IInv, NEW w \in Round, ClaimRound(w)
  PROVE  IInv'
<1> DEFINE i == job.current_round
<1>1. worker[w] \in {"boot", "idle"} /\ worker[w] \in WorkerLive /\ TypeOK
  BY StateType DEF ClaimRound, IInv
<1>2. UNCHANGED <<cli, command, unowned>>
  BY DEF ClaimRound
<1>3. /\ job.phase \in Phase /\ i \in Round /\ i \in Int /\ w \in Process
      /\ handled[w] \in Round \cup {NoRound} /\ handled[w] \in Int
      /\ job.sdk_claude \in Process /\ Current \in RoundRecord
      /\ worker[w] = "idle" => job.sdk_claude = w /\ handled[w] \in Round
  <2>1. /\ job.phase \in Phase /\ i \in Round /\ w \in Process
        /\ handled[w] \in Round \cup {NoRound}
        /\ job.sdk_claude \in Process /\ Current \in RoundRecord
        /\ worker[w] = "idle" => job.sdk_claude = w
    BY <1>1, WorkerFacts
  <2>3. worker[w] = "idle" => handled[w] \in Round
    BY StateType DEF IInv, SessionIsRecorded
  <2>2. i \in Int /\ handled[w] \in Int
    BY <2>1, RoundType
  <2> QED
    BY <2>1, <2>2, <2>3
<1>4. CASE job' = job /\ handled' = handled /\ Leaves(w)
  <2>1. TypeOK'
    BY <1>1, <1>2, <1>4, StateType DEF TypeOK, Leaves, Becomes
  <2>2. \A v \in Round : Retreats(worker[v], worker'[v])
    BY <1>1, <1>4 DEF TypeOK, Leaves, Becomes, Retreats
  <2> QED
    BY <1>2, <1>4, <2>1, <2>2, RetreatStep DEF SameRounds, Decided
<1>5. CASE /\ ~MustStop /\ handled[w] < i /\ Claimable(w)
           /\ job' = [job EXCEPT !.phase = "needs_attention",
                                 !.rounds[i].claim_consumed = TRUE, !.rounds[i].finalized = TRUE]
           /\ Leaves(w) /\ handled' = handled
  <2> DEFINE r == [Current EXCEPT !.claim_consumed = TRUE, !.finalized = TRUE]
             s == IF worker[w] = "boot" THEN "gone" ELSE "closing"
             ph == "needs_attention"
  <2>1. job' = Saved(ph, job.sdk_claude, r)
    BY <1>1, <1>5, RefusedForm, PhaseType DEF Phase, RESERVING_PHASES
  <2>2. /\ r \in RoundRecord /\ r.worker = Current.worker /\ r.claude = Current.claude
        /\ r.verification = Current.verification /\ r.finalized /\ r.claim_consumed
    BY <1>3 DEF RoundRecord
  <2>3. /\ worker' = [worker EXCEPT ![w] = s] /\ s \in WorkerState
        /\ s \notin Working \cup {"none", "boot", "working", "idle"}
        /\ s \in Session => worker[w] = "idle"
        /\ ph \in Phase
    BY <1>1, <1>5, StateType DEF Leaves, Becomes, Phase, RESERVING_PHASES
  <2>4. job.sdk_worker = w /\ handled[w] <= i
    BY <1>3, <1>5 DEF Claimable
  <2> HIDE DEF r, s, ph
  <2>5. TypeOK'
    <3>1. job' \in JobRecords
      BY <1>1, <1>3, <2>1, <2>2, <2>3, SavedFields
    <3> QED
      BY <1>1, <1>2, <1>5, <2>3, <3>1 DEF TypeOK
  <2>99. WorkerSaves(w, s, ph, job.sdk_claude, r)
    BY <1>1, <1>3, <1>5, <2>1, <2>2, <2>3, <2>4, <2>5, OthersAreQuiet, StateType DEF WorkerSaves
  <2> QED
    BY <1>1, <1>3, <1>5, <2>1, <2>2, <2>3, <2>4, <2>5, <2>99, SavedStep
<1>6. CASE /\ ~MustStop /\ handled[w] < i /\ Claimable(w)
           /\ job' = [job EXCEPT !.phase = "running", !.rounds[i].claim_consumed = TRUE,
                                 !.rounds[i].claude =
                                    IF job.sdk_claude # NoProcess THEN job.sdk_claude ELSE @]
           /\ handled' = [handled EXCEPT ![w] = i]
           /\ Becomes(w, IF worker[w] = "boot" THEN "claimed" ELSE "working")
  <2> DEFINE q == IF job.sdk_claude # NoProcess THEN job.sdk_claude ELSE Current.claude
             r == [Current EXCEPT !.claim_consumed = TRUE, !.claude = q]
             s == IF worker[w] = "boot" THEN "claimed" ELSE "working"
             ph == "running"
  <2>1. job' = Saved(ph, job.sdk_claude, r)
    <3>1. job' = [job EXCEPT !.phase = ph, !.rounds[i].claim_consumed = TRUE, !.rounds[i].claude = q]
      BY <1>1, <1>3, <1>6 DEF TypeOK, JobRecords, RoundRecord, Current
    <3>2. q \in Process /\ ph \in Phase
      BY <1>3 DEF RoundRecord, Phase, RESERVING_PHASES
    <3> HIDE DEF q, ph
    <3>3. [job EXCEPT !.phase = ph, !.rounds[i].claim_consumed = TRUE, !.rounds[i].claude = q]
            = Saved(ph, job.sdk_claude, r)
      BY <1>1, <3>2, ClaimedForm
    <3> QED
      BY <3>1, <3>3, Zenon
  <2>2. /\ r \in RoundRecord /\ r.worker = Current.worker /\ r.claude = q
        /\ r.verification = Current.verification /\ r.finalized = Current.finalized
        /\ r.claim_consumed
    BY <1>3 DEF RoundRecord
  <2>3. /\ worker' = [worker EXCEPT ![w] = s] /\ s \in WorkerState
        /\ s \in {"claimed", "working"} /\ ph \in Phase
        /\ s = "working" => worker[w] = "idle"
    BY <1>1, <1>6, StateType DEF Becomes, Phase, RESERVING_PHASES
  <2>4. job.sdk_worker = w /\ handled[w] <= i /\ Current.worker = w /\ ~Decided
    BY <1>3, <1>6 DEF Claimable, MustStop
  <2>5. ~Current.finalized /\ Current.verification # "ok"
    <3>1. w # NoProcess
      BY RoundType DEF NoProcess, Round
    <3>2. ~Current.finalized
      BY <1>1, <1>6, <2>4, <3>1 DEF IInv, UnclaimedIsOver, Claimable
    <3> QED
      BY <1>3, <3>2 DEF IInv, VerifiedIsFinalized, Current
  <2>6. s = "working" => job.sdk_claude = w /\ q = w
    BY <1>3, <2>3 DEF NoProcess, Round
  <2> HIDE DEF q, r, s, ph
  <2>7. TypeOK'
    <3>1. job' \in JobRecords
      BY <1>1, <1>3, <2>1, <2>2, <2>3, SavedFields
    <3> QED
      BY <1>1, <1>2, <1>3, <1>6, <2>3, <3>1 DEF TypeOK
  <2>8. handled'[w] = i /\ \A v \in Round \ {w} : handled'[v] = handled[v]
    BY <1>1, <1>6 DEF TypeOK
  <2>9. /\ s \notin {"none", "boot", "idle"}
        /\ ~(r.finalized /\ ~r.claim_consumed) /\ ~r.finalized /\ r.verification # "ok"
        /\ r.worker = w
    BY <2>2, <2>3, <2>4, <2>5
  <2>99. WorkerSaves(w, s, ph, job.sdk_claude, r)
    BY <1>1, <1>3, <2>1, <2>2, <2>3, <2>4, <2>6, <2>7, <2>8, <2>9, OthersAreQuiet, StateType DEF WorkerSaves
  <2> QED
    BY <1>1, <1>3, <2>1, <2>2, <2>3, <2>4, <2>6, <2>7, <2>8, <2>9, <2>99, SavedStep
<1> QED
  BY <1>4, <1>5, <1>6 DEF ClaimRound

LEMMA BootFailsInv ==
  ASSUME IInv, NEW w \in Round, BootFails(w)
  PROVE  IInv'
<1>1. /\ TypeOK /\ worker[w] = "boot" /\ worker[w] \in WorkerLive
      /\ worker' = [worker EXCEPT ![w] = "gone"]
      /\ UNCHANGED <<handled, cli, command, unowned>>
  BY StateType DEF BootFails, IInv, Becomes
<1>2. worker' \in [Round -> WorkerState]
  BY <1>1, StateType DEF TypeOK
<1>3. CASE job' = job
  <2>1. \A v \in Round : Retreats(worker[v], worker'[v])
    BY <1>1 DEF TypeOK, Retreats
  <2>2. TypeOK'
    BY <1>1, <1>2, <1>3 DEF TypeOK
  <2> QED
    BY <1>1, <1>3, <2>1, <2>2, RetreatStep DEF SameRounds, Decided
<1>4. CASE /\ job.current_round = w /\ ~Current.finalized /\ ~Decided
           /\ job' = [job EXCEPT !.phase = "needs_attention", !.rounds[w].finalized = TRUE,
                                 !.rounds[w].verification = "failed"]
  <2> DEFINE r == [Current EXCEPT !.finalized = TRUE, !.verification = "failed"]
             ph == "needs_attention"
             s == "gone"
  <2>1. /\ job.current_round \in Round /\ handled[w] \in Round \cup {NoRound}
        /\ job.sdk_claude \in Process /\ Current \in RoundRecord
    BY <1>1, WorkerFacts
  <2>2. /\ ph \in Phase /\ "failed" \in Verdict /\ s \in WorkerState
        /\ s \notin WorkerLive /\ s \notin {"none", "boot", "working", "idle"}
        /\ s \notin Session /\ s \notin Working
    BY StateType DEF Phase, RESERVING_PHASES, Verdict
  <2>3. job' = Saved(ph, job.sdk_claude, r)
    BY <1>1, <1>4, <2>2, FinalizedForm
  <2>4. /\ r \in RoundRecord /\ r.worker = Current.worker /\ r.claude = Current.claude
        /\ r.verification # "ok"
    BY <2>1, <2>2 DEF RoundRecord
  <2>5. Current.worker \in {w, NoProcess}
    BY <1>1, <1>4 DEF IInv, BootedRoundIsItsOwn
  <2>6. \A v \in Round \ {w} : worker[v] \notin Working
    BY <2>5 DEF IInv, WorkIsClaimed, NoProcess, Round
  <2> HIDE DEF r, s, ph
  <2>7. TypeOK'
    <3>1. job' \in JobRecords
      BY <1>1, <2>1, <2>2, <2>3, <2>4, SavedFields
    <3> QED
      BY <1>1, <1>2, <3>1 DEF TypeOK
  <2>8. worker' = [worker EXCEPT ![w] = s]
    BY <1>1 DEF s
  <2>9. WorkerSaves(w, s, ph, job.sdk_claude, r)
    BY <1>1, <2>2, <2>3, <2>4, <2>5, <2>6, <2>8 DEF WorkerSaves
  <2> QED
    BY <2>1, <2>2, <2>4, <2>7, <2>9, SavedStep
<1> QED
  BY <1>3, <1>4 DEF BootFails

-----------------------------------------------------------------------------
(* The steps that save nothing of the rounds.                              *)

LEMMA AfterCancelRetreats ==
  ASSUME NEW before \in WorkerState
  PROVE  /\ AfterCancel(before) \in WorkerState
         /\ before \in WorkerLive => Retreats(before, AfterCancel(before))
BY StateType DEF AfterCancel, Retreats

LEMMA TerminateRetreats ==
  ASSUME TypeOK, NEW w \in Round, TerminateWorker(w)
  PROVE  /\ worker' \in [Round -> WorkerState]
         /\ \A v \in Round : Retreats(worker[v], worker'[v])
<1>1. worker[w] \in WorkerState /\ "gone" \in WorkerState
  BY StateType DEF TypeOK
<1>2. CASE UNCHANGED worker
  BY <1>2 DEF TypeOK, Retreats
<1>3. CASE /\ worker[w] \in WorkerLive
           /\ worker' = [worker EXCEPT ![w] = AfterCancel(@)]
  BY <1>1, <1>3, AfterCancelRetreats DEF TypeOK, Retreats
<1>4. CASE /\ worker[w] \in WorkerLive
           /\ worker' = [worker EXCEPT ![w] = "gone"]
  BY <1>1, <1>4 DEF TypeOK, Retreats
<1> QED
  BY <1>2, <1>3, <1>4 DEF TerminateWorker

\* A step that saves nothing.
LEMMA QuietStep ==
  ASSUME IInv, UNCHANGED <<job, handled>>, unowned' \subseteq Round,
         cli' \in [Round -> {"none", "live", "gone"}],
         command' \in [Command -> CommandState], job.phase = ABSENT => command' = command,
         worker' \in [Round -> WorkerState],
         \A v \in Round : Retreats(worker[v], worker'[v])
  PROVE  IInv'
<1>1. TypeOK' /\ SameRounds /\ (Decided => Decided')
  BY DEF IInv, TypeOK, SameRounds, Decided
<1> QED
  BY <1>1, RetreatStep

LEMMA SystemInv ==
  ASSUME IInv, NEW w \in Round, CloseClient(w) \/ WorkerDies(w) \/ CliExits(w)
  PROVE  IInv'
<1>1. TypeOK /\ worker[w] \in WorkerState /\ {"gone", "aborting"} \subseteq WorkerState
  BY StateType DEF IInv, TypeOK
<1>2. worker' \in [Round -> WorkerState] /\ cli' \in [Round -> {"none", "live", "gone"}]
  BY <1>1 DEF TypeOK, CloseClient, WorkerDies, CliExits, Becomes
<1>3. \A v \in Round : Retreats(worker[v], worker'[v])
  <2>1. CASE CloseClient(w)
    BY <1>1, <2>1, StateType DEF TypeOK, CloseClient, Becomes, Retreats
  <2>2. CASE WorkerDies(w)
    BY <1>1, <2>2 DEF TypeOK, WorkerDies, Becomes, Retreats
  <2>3. CASE CliExits(w)
    BY <2>3 DEF CliExits, Retreats
  <2> QED
    BY <2>1, <2>2, <2>3
<1>4. /\ UNCHANGED <<job, handled>> /\ command' = command
      /\ unowned' \subseteq Round /\ command' \in [Command -> CommandState]
  BY <1>1 DEF TypeOK, CloseClient, WorkerDies, CliExits
<1> QED
  BY <1>2, <1>3, <1>4, QuietStep

LEMMA IdleOutputInv ==
  ASSUME IInv, NEW w \in Round, IdleOutput(w)
  PROVE  IInv'
<1>1. /\ TypeOK /\ worker[w] \in {"idle", "closing"} /\ "closing" \in WorkerState
      /\ UNCHANGED <<handled, cli, command>>
  BY StateType DEF IdleOutput, IInv
<1>2. unowned' \subseteq Round
  BY <1>1, StateType DEF IdleOutput, IInv, TypeOK, SessionIsRecorded
<1>3. \A v \in Round : Retreats(worker[v], worker'[v])
  BY <1>1 DEF TypeOK, IdleOutput, Becomes, Retreats
<1>4. worker' \in [Round -> WorkerState]
  BY <1>1 DEF TypeOK, IdleOutput, Becomes
<1>5. job' \in JobRecords /\ SameRounds /\ (Decided => Decided') /\ (job'.phase = ABSENT => job.phase = ABSENT)
  <2>1. CASE job' = job
    BY <1>1, <2>1 DEF TypeOK, SameRounds, Decided
  <2>2. CASE Sealed /\ job' = [job EXCEPT !.phase = "needs_attention"]
    BY <1>1, <2>2, PhaseType
       DEF TypeOK, JobRecords, SameRounds, Decided, Sealed, TERMINAL_DECISION_PHASES
  <2> QED
    BY <2>1, <2>2 DEF IdleOutput
<1>6. TypeOK'
  BY <1>1, <1>2, <1>4, <1>5 DEF TypeOK
<1> QED
  BY <1>1, <1>3, <1>5, <1>6, RetreatStep

LEMMA CommandType ==
  ASSUME TypeOK, NEW c \in Command
  PROVE  /\ IdleCommand \in CommandState
         /\ command[c] \in CommandState
         /\ \A s \in CommandState : [command EXCEPT ![c] = s] \in [Command -> CommandState]
         /\ \A at \in {"waiting", "confirming", "closed"} :
              [command EXCEPT ![c].at = at] \in [Command -> CommandState]
<1>1. IdleCommand \in CommandState
  BY DEF IdleCommand, CommandState, Process
<1>2. command \in [Command -> CommandState]
  BY DEF TypeOK
<1> QED
  BY <1>1, <1>2 DEF CommandState

\* A command that has begun belongs to a job that exists.
LEMMA BegunExists ==
  ASSUME IInv, NEW c \in Command, command[c].at # "idle"
  PROVE  job.phase # ABSENT
BY DEF IInv, NotStarted

LEMMA RetreatsRefl == ASSUME worker' = worker PROVE \A v \in Round : Retreats(worker[v], worker'[v])
BY DEF Retreats

LEMMA CloseCommandInv ==
  ASSUME IInv, NEW c \in Command,
         SeesItGone(c) \/ Confirm(c) \/ CommandDies(c) \/ GivesUpWaiting(c)
  PROVE  IInv'
<1>1. TypeOK /\ job.phase # ABSENT
  BY BegunExists DEF IInv, SeesItGone, Confirm, CommandDies, GivesUpWaiting
<1>2. UNCHANGED <<job, handled, cli, unowned>>
  BY DEF SeesItGone, Confirm, CommandDies, GivesUpWaiting
<1>3. command' \in [Command -> CommandState]
  <2>1. CASE command' = [command EXCEPT ![c] = IdleCommand]
    BY <1>1, <2>1, CommandType
  <2>2. CASE \E at \in {"waiting", "confirming", "closed"} : command' = [command EXCEPT ![c].at = at]
    BY <1>1, <2>2 DEF TypeOK, CommandState
  <2> QED
    BY <2>1, <2>2 DEF SeesItGone, Confirm, CommandDies, GivesUpWaiting, Goes
<1>4. /\ worker' \in [Round -> WorkerState]
      /\ \A v \in Round : Retreats(worker[v], worker'[v])
  <2>1. CASE worker' = worker
    BY <1>1, <2>1, RetreatsRefl DEF TypeOK
  <2>2. CASE GivesUpWaiting(c)
    <3>1. TerminateWorker(command[c].worker) /\ command[c].worker \in Process \ {NoProcess}
      BY <1>1, <2>2, CommandType DEF GivesUpWaiting, WorkerAlive, CommandState
    <3>2. command[c].worker \in Round
      BY <3>1 DEF Process
    <3> QED
      BY <1>1, <3>1, <3>2, TerminateRetreats
  <2> QED
    BY <2>1, <2>2 DEF SeesItGone, Confirm, CommandDies
<1>5. unowned' \subseteq Round /\ cli' \in [Round -> {"none", "live", "gone"}]
  BY <1>1, <1>2 DEF TypeOK
<1> QED
  BY <1>1, <1>2, <1>3, <1>4, <1>5, QuietStep

LEMMA ScopeChangedInv ==
  ASSUME IInv, NEW c \in Command, ScopeChanged(c)
  PROVE  IInv'
<1>1. TypeOK /\ job.phase # ABSENT
  BY DEF IInv, ScopeChanged, MayRevise, RECOVER_PHASES, ABSENT
<1>2. UNCHANGED <<job, handled, cli, unowned, worker>>
  BY DEF ScopeChanged
<1>3. command' \in [Command -> CommandState]
  <2> DEFINE state == [IdleCommand EXCEPT !.at = "refreshing", !.does = "revise",
                                          !.expected = job.current_round]
  <2>1. state \in CommandState
    BY <1>1, CommandType, CurrentType DEF CommandState, IdleCommand
  <2>2. command' = [command EXCEPT ![c] = state]
    BY DEF ScopeChanged
  <2> HIDE DEF state
  <2> QED
    BY <1>1, <2>1, <2>2, CommandType
<1>4. /\ unowned' \subseteq Round /\ cli' \in [Round -> {"none", "live", "gone"}]
      /\ worker' \in [Round -> WorkerState]
  BY <1>1, <1>2 DEF TypeOK
<1> QED
  BY <1>1, <1>2, <1>3, <1>4, RetreatsRefl, QuietStep

LEMMA SignalInv ==
  ASSUME IInv, NEW c \in Command, Signal(c)
  PROVE  IInv'
<1>1. TypeOK /\ job.phase # ABSENT
  BY BegunExists DEF IInv, Signal
<1>2. PICK t \in command[c].targets :
        /\ command' = [command EXCEPT ![c].targets = @ \ {t}]
        /\ \/ t.process = "worker" /\ TerminateWorker(t.id) /\ UNCHANGED cli
           \/ /\ t.process = "claude" /\ cli[t.id] = "live"
              /\ cli' = [cli EXCEPT ![t.id] = "gone"] /\ UNCHANGED worker
           \/ UNCHANGED <<worker, cli>>
  BY DEF Signal
<1>3. command[c].targets \subseteq Target
  BY <1>1, CommandType DEF CommandState
<1>4. t.id \in Round
  BY <1>3 DEF Target
<1>5. command' \in [Command -> CommandState]
  <2>1. [command[c] EXCEPT !.targets = @ \ {t}] \in CommandState
    BY <1>1, <1>3, CommandType DEF CommandState
  <2> QED
    BY <1>1, <1>2, <2>1 DEF TypeOK
<1>6. /\ worker' \in [Round -> WorkerState]
      /\ \A v \in Round : Retreats(worker[v], worker'[v])
      /\ cli' \in [Round -> {"none", "live", "gone"}]
  <2>1. CASE TerminateWorker(t.id) /\ UNCHANGED cli
    BY <1>1, <1>4, <2>1, TerminateRetreats DEF TypeOK
  <2>2. CASE UNCHANGED worker /\ (cli' = [cli EXCEPT ![t.id] = "gone"] \/ cli' = cli)
    BY <1>1, <2>2, RetreatsRefl DEF TypeOK
  <2> QED
    BY <1>2, <2>1, <2>2
<1>7. UNCHANGED <<job, handled, unowned>> /\ unowned' \subseteq Round
  BY <1>1 DEF Signal, TypeOK
<1> QED
  BY <1>1, <1>5, <1>6, <1>7, QuietStep

\* A step that saves a new phase or a flag of the session and no more.
LEMMA FlagStep ==
  ASSUME IInv, UNCHANGED <<worker, handled, cli, unowned>>,
         job' \in JobRecords, SameRounds, Decided => Decided',
         job.phase # ABSENT, job'.phase # ABSENT,
         command' \in [Command -> CommandState]
  PROVE  IInv'
<1>1. TypeOK'
  BY DEF IInv, TypeOK
<1> QED
  BY <1>1, RetreatsRefl, RetreatStep

LEMMA ReconciledFlags ==
  ASSUME TypeOK, NEW graceOver \in BOOLEAN, job' = Reconciled(graceOver), job.phase # ABSENT
  PROVE  /\ job' \in JobRecords /\ SameRounds /\ (Decided => Decided') /\ job'.phase # ABSENT
<1>1. job' \in JobRecords /\ SameRounds /\ job'.stop_requested = job.stop_requested
  BY ReconciledType DEF SameRounds
<1>2. job'.phase = job.phase \/ (job'.phase # ABSENT /\ job.phase \notin TERMINAL_DECISION_PHASES)
  BY ReconciledKeeps, PhaseType DEF TypeOK, JobRecords, BUSY_PHASES, TERMINAL_DECISION_PHASES
<1> QED
  BY <1>1, <1>2 DEF Decided

LEMMA StatusInv ==
  ASSUME IInv, NEW graceOver \in BOOLEAN, cmd_status(graceOver)
  PROVE  IInv'
<1>1. TypeOK /\ job.phase # ABSENT /\ command' \in [Command -> CommandState]
  BY DEF IInv, TypeOK, cmd_status, Exists
<1>2. job' \in JobRecords /\ SameRounds /\ (Decided => Decided') /\ job'.phase # ABSENT
  BY <1>1, ReconciledFlags DEF cmd_status
<1> QED
  BY <1>1, <1>2, FlagStep DEF cmd_status

LEMMA FenceInv ==
  ASSUME IInv, NEW c \in Command, NEW does \in {"accept", "revise"}, Fence(c, does)
  PROVE  IInv'
<1>1. TypeOK /\ job.phase = "awaiting_review" /\ job.phase # ABSENT
  BY DEF IInv, Fence, ABSENT
<1>2. job' \in JobRecords /\ SameRounds /\ (Decided => Decided') /\ job'.phase # ABSENT
  BY <1>1 DEF Fence, TypeOK, JobRecords, SameRounds, Decided
<1>3. command' \in [Command -> CommandState]
  <2> DEFINE state == [at |-> "waiting", does |-> does, expected |-> job.current_round,
                       worker |-> job.sdk_worker, targets |-> {}]
  <2>1. state \in CommandState
    BY <1>1, CurrentType DEF CommandState
  <2>2. command' = [command EXCEPT ![c] = state]
    BY DEF Fence
  <2> HIDE DEF state
  <2> QED
    BY <1>1, <2>1, <2>2, CommandType
<1> QED
  BY <1>1, <1>2, <1>3, FlagStep DEF Fence

LEMMA AcceptInv ==
  ASSUME IInv, NEW c \in Command, Accept(c)
  PROVE  IInv'
<1>1. TypeOK /\ job.phase # ABSENT /\ command' \in [Command -> CommandState]
  BY BegunExists, CommandType DEF IInv, Accept
<1>2. job' \in JobRecords /\ SameRounds /\ (Decided => Decided') /\ job'.phase # ABSENT
  <2>1. CASE job' = [job EXCEPT !.phase = "accepted"]
    BY <1>1, <2>1, PhaseType DEF TypeOK, JobRecords, SameRounds, Decided, TERMINAL_DECISION_PHASES
  <2>2. CASE job' = job
    BY <1>1, <2>2 DEF TypeOK, SameRounds, Decided
  <2>3. CASE \E graceOver \in BOOLEAN : job' = Reconciled(graceOver)
    BY <1>1, <2>3, ReconciledFlags
  <2> QED
    BY <2>1, <2>2, <2>3 DEF Accept
<1> QED
  BY <1>1, <1>2, FlagStep DEF Accept

LEMMA RequestStopInv ==
  ASSUME IInv, NEW c \in Command, RequestStop(c)
  PROVE  IInv'
<1>1. TypeOK /\ job.phase # ABSENT
  BY DEF IInv, RequestStop, Exists
<1>2. job' \in JobRecords /\ SameRounds /\ (Decided => Decided') /\ job'.phase # ABSENT
  BY <1>1 DEF RequestStop, TypeOK, JobRecords, SameRounds, Decided
<1>3. command' \in [Command -> CommandState]
  <2> DEFINE targets == {t \in Target : \E i \in Round : t.id = job.rounds[i][t.process]}
             state == [IdleCommand EXCEPT !.at = "stopping", !.targets = targets]
  <2>1. targets \subseteq Target
    OBVIOUS
  <2>2. command' = [command EXCEPT ![c] = state]
    BY DEF RequestStop
  <2> HIDE DEF targets
  <2>3. state \in CommandState
    BY <1>1, <2>1, CommandType DEF CommandState, IdleCommand
  <2> HIDE DEF state
  <2> QED
    BY <1>1, <2>2, <2>3, CommandType
<1> QED
  BY <1>1, <1>2, <1>3, FlagStep DEF RequestStop

LEMMA FinishStopInv ==
  ASSUME IInv, NEW c \in Command, FinishStop(c)
  PROVE  IInv'
<1> DEFINE i == job.current_round
           ph == IF job.phase = "accepted" THEN job.phase ELSE "stopped"
           r == [Current EXCEPT !.finalized = TRUE]
<1>1. /\ TypeOK /\ job.phase # ABSENT /\ command' \in [Command -> CommandState]
      /\ UNCHANGED <<worker, handled, cli, unowned>>
  BY BegunExists, CommandType DEF IInv, FinishStop
<1>2. CASE live_blockers(FALSE)
  <2>1. job' = [job EXCEPT !.phase = IF job.phase \in TERMINAL_DECISION_PHASES
                                     THEN job.phase ELSE "needs_attention"]
    BY <1>1, <1>2 DEF FinishStop, stop_transition, TypeOK, JobRecords
  <2>2. job' \in JobRecords /\ SameRounds /\ (Decided => Decided') /\ job'.phase # ABSENT
    BY <1>1, <2>1, PhaseType DEF TypeOK, JobRecords, SameRounds, Decided
  <2> QED
    BY <1>1, <2>2, FlagStep
<1>3. CASE ~live_blockers(FALSE)
  <2>1. /\ i \in Round /\ Current \in RoundRecord /\ job.sdk_claude \in Process
        /\ Current = job.rounds[i] /\ job.phase \in Phase
    BY <1>1, CurrentType DEF Current, TypeOK, JobRecords
  <2>2. ph \in {"accepted", "stopped"} /\ ph \in Phase
    BY DEF Phase, TERMINAL_DECISION_PHASES
  <2>3. job' = Saved(ph, job.sdk_claude, r)
    <3>1. job' = [job EXCEPT !.phase = ph, !.rounds[i].finalized = TRUE]
      BY <1>1, <1>3 DEF FinishStop, stop_transition, TypeOK, JobRecords
    <3> HIDE DEF ph
    <3> QED
      BY <1>1, <2>1, <2>2, <3>1 DEF Saved, TypeOK, JobRecords, RoundRecord
  <2>4. /\ r \in RoundRecord /\ r.worker = Current.worker /\ r.claude = Current.claude
        /\ r.verification = Current.verification /\ r.finalized
        /\ r.claim_consumed = Current.claim_consumed
    BY <2>1 DEF RoundRecord
  <2> HIDE DEF r, ph
  <2>5. /\ job' \in JobRecords
        /\ job'.phase = ph /\ job'.sdk_claude = job.sdk_claude
        /\ job'.current_round = i /\ job'.sdk_worker = job.sdk_worker
        /\ Current' = r /\ job'.rounds[i] = r
        /\ \A k \in Round \ {i} : job'.rounds[k] = job.rounds[k]
    BY <1>1, <2>1, <2>2, <2>3, <2>4, SavedFields
  <2>6. \A w \in Round : worker[w] \notin Working
    <3>1. ~WorkerAlive(Current.worker)
      BY <1>3, <2>1 DEF live_blockers
    <3>2. \A w \in Round : worker[w] \in Working => WorkerAlive(Current.worker)
      BY RoundType, StateType DEF IInv, WorkIsClaimed, WorkerAlive, NoProcess, Round
    <3> QED
      BY <3>1, <3>2
  <2>7. TypeOK'
    BY <1>1, <2>5 DEF TypeOK
  <2>8. NotStarted' /\ UnclaimedIsOver'
    BY <2>2, <2>5 DEF NotStarted, UnclaimedIsOver, Decided, ABSENT, TERMINAL_DECISION_PHASES
  <2>9. SessionIsRecorded' /\ LaterRoundsHaveNoWorker'
    BY <1>1, <2>5 DEF IInv, SessionIsRecorded, LaterRoundsHaveNoWorker
  <2>10. BootedRoundIsItsOwn'
    BY <1>1, <2>4, <2>5 DEF IInv, BootedRoundIsItsOwn
  <2>11. WorkIsClaimed' /\ CliIsRecorded'
    BY <1>1, <2>5, <2>6, StateType DEF IInv, WorkIsClaimed, CliIsRecorded
  <2>12. VerifiedIsFinalized'
    BY <2>1, <2>4, <2>5 DEF IInv, VerifiedIsFinalized
  <2>13. VerifiedRoundNamesItsSession'
    BY <1>1, <2>1, <2>4, <2>5 DEF IInv, VerifiedRoundNamesItsSession
  <2> QED
    BY <2>7, <2>8, <2>9, <2>10, <2>11, <2>12, <2>13 DEF IInv
<1> QED
  BY <1>2, <1>3

-----------------------------------------------------------------------------
(* Opening a round.                                                        *)

\* The record of round i as start and revise save it.
Opens(i) ==
  /\ job'.phase \in {"starting", "failed"} /\ job'.current_round = i
  /\ \A k \in Round \ {i} : job'.rounds[k] = job.rounds[k]
  /\ ~job'.rounds[i].claim_consumed /\ job'.rounds[i].verification = "none"
  /\ job'.rounds[i].finalized => job'.rounds[i].worker = NoProcess
  /\ job'.sdk_claude = job.sdk_claude
  /\ job'.sdk_worker = job.sdk_worker \/ \A w \in Round : worker[w] \notin Session
  /\ \/ worker' = worker /\ worker[i] = "none"
     \/ worker' = [worker EXCEPT ![i] = "boot"] /\ job'.rounds[i].worker \in {i, NoProcess}

LEMMA OpensStep ==
  ASSUME IInv, TypeOK', NEW i \in Round, job.current_round <= i, Opens(i),
         UNCHANGED handled, \A w \in Round : worker[w] \notin Working
  PROVE  IInv'
<1>1. /\ job.current_round \in Round /\ job.current_round \in Int /\ i \in Int
      /\ Current' = job'.rounds[i]
  BY CurrentType, RoundType DEF IInv, Opens, Current
<1>2. /\ \A w \in Round \ {i} : worker'[w] = worker[w]
      /\ worker'[i] \in {"none", "boot"}
      /\ worker'[i] = "boot" => job'.rounds[i].worker \in {i, NoProcess}
  BY DEF IInv, TypeOK, Opens
<1>3. NotStarted'
  BY DEF NotStarted, Opens, ABSENT
<1>4. SessionIsRecorded'
  BY <1>2, StateType DEF IInv, SessionIsRecorded, Opens
<1>5. LaterRoundsHaveNoWorker'
  <2> SUFFICES ASSUME NEW w \in Round, w > i PROVE worker'[w] = "none"
    BY DEF LaterRoundsHaveNoWorker, Opens
  <2>1. w \in Int
    BY RoundType
  <2>2. w # i /\ w > job.current_round
    BY <1>1, <2>1
  <2> QED
    BY <1>2, <2>2 DEF IInv, LaterRoundsHaveNoWorker
<1>6. BootedRoundIsItsOwn'
  BY <1>1, <1>2 DEF BootedRoundIsItsOwn, Opens
<1>7. WorkIsClaimed'
  BY <1>2, StateType DEF WorkIsClaimed
<1>8. UnclaimedIsOver'
  BY <1>1 DEF UnclaimedIsOver, Opens
<1>9. CliIsRecorded'
  BY <1>2, StateType DEF IInv, CliIsRecorded, Opens
<1>10. VerifiedIsFinalized'
  <2> SUFFICES ASSUME NEW k \in Round, job'.rounds[k].verification = "ok"
               PROVE  job'.rounds[k].finalized /\ k <= i
    BY DEF VerifiedIsFinalized, Opens
  <2>1. k # i /\ job'.rounds[k] = job.rounds[k]
    BY DEF Opens
  <2>2. job.rounds[k].finalized /\ k <= job.current_round
    BY <2>1 DEF IInv, VerifiedIsFinalized
  <2>3. k \in Int
    BY RoundType
  <2> QED
    BY <1>1, <2>1, <2>2, <2>3
<1>11. VerifiedRoundNamesItsSession'
  BY DEF IInv, VerifiedRoundNamesItsSession, Opens
<1> QED
  BY <1>3, <1>4, <1>5, <1>6, <1>7, <1>8, <1>9, <1>10, <1>11 DEF IInv

\* A worker launched for the round that rec has opened.
LEMMA LaunchOpens ==
  ASSUME TypeOK, NEW rec \in JobRecords, NEW i, i = rec.current_round,
         rec.phase = "starting", rec.rounds[i] = NewRound,
         \A k \in Round \ {i} : rec.rounds[k] = job.rounds[k],
         rec.sdk_claude = job.sdk_claude, rec.sdk_worker = job.sdk_worker,
         \A w \in Round : worker[w] \notin Session, worker[i] = "none",
         NEW outcome \in LaunchOutcome, LaunchWorker(rec, outcome)
  PROVE  Opens(i)
<1>1. i \in Round /\ NewRound \in RoundRecord
  BY NewRoundType DEF JobRecords
<1>2. /\ ~NewRound.claim_consumed /\ NewRound.verification = "none"
      /\ ~NewRound.finalized /\ NewRound.worker = NoProcess
  BY DEF NewRound
<1>3. worker' = worker \/ worker' = [worker EXCEPT ![i] = "boot"]
  BY DEF LaunchWorker
<1>4. CASE outcome = "spawn_failed"
  <2>1. job' = [rec EXCEPT !.phase = "failed", !.rounds[i].finalized = TRUE]
    BY <1>4 DEF LaunchWorker
  <2> DEFINE r == [NewRound EXCEPT !.finalized = TRUE]
  <2>2. ~r.claim_consumed /\ r.verification = "none" /\ r.worker = NoProcess
    BY DEF NewRound
  <2>3. /\ job'.phase = "failed" /\ job'.current_round = i
        /\ job'.rounds = [rec.rounds EXCEPT ![i] = r]
        /\ job'.sdk_claude = job.sdk_claude /\ job'.sdk_worker = job.sdk_worker
    BY <1>1, <2>1 DEF JobRecords
  <2> HIDE DEF r
  <2>4. /\ \A k \in Round \ {i} : job'.rounds[k] = job.rounds[k]
        /\ job'.rounds[i] = r
    BY <1>1, <2>3 DEF JobRecords
  <2>5. worker' = worker
    BY <1>4 DEF LaunchWorker
  <2> QED
    BY <2>2, <2>3, <2>4, <2>5 DEF Opens, ABSENT
<1>5. CASE outcome = "registered"
  <2>1. job' = [rec EXCEPT !.rounds[i].worker = i, !.sdk_worker = i, !.sdk_closing = FALSE]
    BY <1>5 DEF LaunchWorker
  <2> DEFINE r == [NewRound EXCEPT !.worker = i]
  <2>2. ~r.claim_consumed /\ r.verification = "none" /\ r.worker = i /\ ~r.finalized
    BY DEF NewRound
  <2>3. /\ job'.phase = "starting" /\ job'.current_round = i
        /\ job'.rounds = [rec.rounds EXCEPT ![i] = r]
        /\ job'.sdk_claude = job.sdk_claude
    BY <1>1, <2>1 DEF JobRecords
  <2> HIDE DEF r
  <2>4. /\ \A k \in Round \ {i} : job'.rounds[k] = job.rounds[k]
        /\ job'.rounds[i] = r
    BY <1>1, <2>3 DEF JobRecords
  <2> QED
    BY <1>3, <2>2, <2>3, <2>4 DEF Opens, ABSENT
<1>6. CASE outcome \notin {"spawn_failed", "registered"}
  <2>1. job' = rec
    BY <1>6 DEF LaunchWorker
  <2> QED
    BY <1>2, <1>3, <2>1 DEF Opens, ABSENT
<1> QED
  BY <1>4, <1>5, <1>6

\* Nobody is at work where a revise may go on.
LEMMA ReviseFindsNobody ==
  ASSUME IInv, NEW rec, NEW expected, MayRevise(rec, expected)
  PROVE  \A w \in Round : worker[w] \notin Working
<1> SUFFICES ASSUME NEW w \in Round, worker[w] \in Working PROVE FALSE
  OBVIOUS
<1>1. /\ ~Current.finalized /\ Current.worker = w /\ worker[w] \in WorkerLive
      /\ job.current_round \in Round /\ Current = job.rounds[job.current_round]
  BY WorkingFacts, CurrentType DEF IInv, Current
<1>2. WorkerAlive(Current.worker)
  BY <1>1, RoundType DEF WorkerAlive, NoProcess, Round
<1>3. ~IdleSession
  BY <1>1 DEF IdleSession
<1> QED
  BY <1>1, <1>2, <1>3 DEF MayRevise, live_blockers

LEMMA RecordTypes ==
  ASSUME IInv
  PROVE  /\ job.current_round \in Round /\ Current = job.rounds[job.current_round]
         /\ Current \in RoundRecord
         /\ \A i \in Round : job.rounds[i] \in RoundRecord /\ job.rounds[i].claude \in Process
BY DEF IInv, TypeOK, JobRecords, RoundRecord, Current

LEMMA RelaunchOpens ==
  ASSUME IInv, NEW rec \in JobRecords, rec.current_round = job.current_round,
         rec.rounds = job.rounds, rec.sdk_worker = job.sdk_worker, rec.sdk_claude = job.sdk_claude,
         NEW expected, MayRevise(rec, expected), NEW timeout \in Timeout,
         NEW outcome \in LaunchOutcome, Relaunch(rec, timeout, outcome)
  PROVE  Opens(job.current_round + 1) /\ job.current_round + 1 \in Round
<1> DEFINE opened == Opened(rec, timeout)
           i == job.current_round + 1
<1>1. TypeOK /\ job.current_round \in Round /\ job.current_round < MaxRevisions
  BY CurrentType DEF IInv, MayRevise
<1>2. i \in Round /\ job.current_round < i /\ job.current_round <= i /\ i > job.current_round
  BY <1>1, MaxRevisionsAssumption DEF Round
<1>3. /\ opened \in JobRecords /\ opened.current_round = i
      /\ opened.phase = "starting"
      /\ opened.rounds = [job.rounds EXCEPT ![i] = NewRound]
      /\ opened.sdk_worker = job.sdk_worker /\ opened.sdk_claude = job.sdk_claude
  BY <1>1, <1>2, OpenedType DEF Opened, JobRecords
<1>4. /\ \A k \in Round \ {i} : opened.rounds[k] = job.rounds[k]
      /\ opened.rounds[i] = NewRound
  BY <1>1, <1>2, <1>3 DEF TypeOK, JobRecords
<1>5. worker[i] = "none"
  BY <1>2 DEF IInv, LaterRoundsHaveNoWorker
<1>7. CASE ~WorkerAlive(job.sdk_worker)
  <2>1. \A w \in Round : worker[w] \notin Session
    BY <1>7, StateType DEF IInv, SessionIsRecorded, WorkerAlive, NoProcess, Round
  <2>2. LaunchWorker(opened, outcome)
    BY <1>7 DEF Relaunch
  <2> HIDE DEF opened
  <2> QED
    BY <1>1, <1>2, <1>3, <1>4, <1>5, <2>1, <2>2, LaunchOpens
<1>8. CASE WorkerAlive(job.sdk_worker)
  <2> DEFINE r == [NewRound EXCEPT !.worker = job.sdk_worker, !.claude = job.sdk_claude]
  <2>1. /\ worker' = worker
        /\ \/ job' = opened
           \/ job' = [opened EXCEPT !.rounds[i].worker = rec.sdk_worker,
                                    !.rounds[i].claude = rec.sdk_claude]
    BY <1>3, <1>8 DEF Relaunch
  <2> HIDE DEF opened
  <2>2. /\ ~r.claim_consumed /\ r.verification = "none" /\ ~r.finalized
        /\ ~NewRound.claim_consumed /\ NewRound.verification = "none" /\ ~NewRound.finalized
    BY DEF NewRound
  <2>3. /\ job'.phase = "starting" /\ job'.current_round = i
        /\ job'.sdk_claude = job.sdk_claude /\ job'.sdk_worker = job.sdk_worker
        /\ job'.rounds = opened.rounds \/ job'.rounds = [opened.rounds EXCEPT ![i] = r]
    <3>1. CASE job' = opened
      BY <1>3, <3>1
    <3>2. CASE job' = [opened EXCEPT !.rounds[i].worker = rec.sdk_worker,
                                     !.rounds[i].claude = rec.sdk_claude]
      <4>1. job'.rounds = [opened.rounds EXCEPT ![i] = r]
        BY <1>2, <1>3, <1>4, <3>2, NewRoundType DEF JobRecords, RoundRecord
      <4>2. /\ job'.phase = "starting" /\ job'.current_round = i
            /\ job'.sdk_claude = job.sdk_claude /\ job'.sdk_worker = job.sdk_worker
        BY <1>2, <1>3, <3>2 DEF JobRecords
      <4> QED
        BY <4>1, <4>2
    <3> QED
      BY <2>1, <3>1, <3>2
  <2> HIDE DEF r
  <2>4. /\ \A k \in Round \ {i} : job'.rounds[k] = job.rounds[k]
        /\ job'.rounds[i] \in {NewRound, r}
    BY <1>2, <1>3, <1>4, <2>3 DEF JobRecords
  <2> QED
    BY <1>2, <1>5, <2>1, <2>2, <2>3, <2>4 DEF Opens
<1> QED
  BY <1>7, <1>8

LEMMA RelaunchInv ==
  ASSUME IInv, TypeOK', NEW rec \in JobRecords, rec.current_round = job.current_round,
         rec.rounds = job.rounds, rec.sdk_worker = job.sdk_worker, rec.sdk_claude = job.sdk_claude,
         NEW expected, MayRevise(rec, expected), NEW timeout \in Timeout,
         NEW outcome \in LaunchOutcome, Relaunch(rec, timeout, outcome), UNCHANGED handled
  PROVE  IInv'
<1>1. Opens(job.current_round + 1) /\ job.current_round + 1 \in Round
  BY RelaunchOpens
<1>2. job.current_round <= job.current_round + 1
  BY RecordTypes, RoundType
<1>3. \A w \in Round : worker[w] \notin Working
  BY ReviseFindsNobody
<1> QED
  BY <1>1, <1>2, <1>3, OpensStep

LEMMA StartOpens ==
  ASSUME IInv, NEW outcome \in LaunchOutcome, cmd_start(outcome)
  PROVE  /\ Opens(job.current_round) /\ TypeOK' /\ ~Current.claim_consumed
         /\ UNCHANGED <<handled, cli, command, unowned>>
         /\ \A w \in Round : worker[w] \notin Working
         /\ \A c \in Command : command[c].at = "idle"
<1>0. PICK timeout \in Timeout :
        LaunchWorker([job EXCEPT !.phase = "starting", !.timeout = timeout], outcome)
  BY DEF cmd_start
<1> DEFINE rec == [job EXCEPT !.phase = "starting", !.timeout = timeout]
           i == job.current_round
<1>1. /\ TypeOK /\ i \in Round /\ job.phase = ABSENT
      /\ \A w \in Round : worker[w] = "none"
      /\ job.rounds[i] = NewRound
  BY CurrentType DEF IInv, cmd_start, Exists, NotStarted, Current
<1>2. /\ rec \in JobRecords /\ rec.phase = "starting" /\ rec.current_round = i
      /\ rec.rounds = job.rounds
      /\ rec.sdk_worker = job.sdk_worker /\ rec.sdk_claude = job.sdk_claude
  BY <1>1, PhaseType DEF TypeOK, JobRecords
<1>3. LaunchWorker(rec, outcome) /\ UNCHANGED <<handled, cli, command, unowned>>
  BY <1>0 DEF cmd_start
<1> HIDE DEF rec
<1>4. \A w \in Round : worker[w] \notin Session /\ worker[w] \notin Working
  BY <1>1, StateType
<1>5. TypeOK'
  <2>1. job' \in JobRecords /\ worker' \in [Round -> WorkerState]
    BY <1>1, <1>2, <1>3, LaunchType DEF TypeOK
  <2> QED
    BY <1>1, <1>3, <2>1 DEF TypeOK
<1>6. Opens(i)
  BY <1>1, <1>2, <1>3, <1>4, LaunchOpens
<1>7. ~Current.claim_consumed /\ \A c \in Command : command[c].at = "idle"
  BY <1>1 DEF IInv, NotStarted, NewRound
<1> QED
  BY <1>3, <1>4, <1>5, <1>6, <1>7

LEMMA StartInv ==
  ASSUME IInv, NEW outcome \in LaunchOutcome, cmd_start(outcome)
  PROVE  IInv'
<1>1. job.current_round \in Round /\ job.current_round <= job.current_round
  BY RecordTypes, RoundType
<1> QED
  BY <1>1, StartOpens, OpensStep

LEMMA ReviseInv ==
  ASSUME IInv, NEW graceOver \in BOOLEAN, NEW outcome \in LaunchOutcome,
         NEW expected, MayRevise(Reconciled(graceOver), expected), NEW timeout \in Timeout,
         Relaunch(Reconciled(graceOver), timeout, outcome),
         command' \in [Command -> CommandState], UNCHANGED <<handled, cli, unowned>>
  PROVE  IInv'
<1> DEFINE rec == Reconciled(graceOver)
<1>1. TypeOK
  BY DEF IInv
<1>2. /\ rec \in JobRecords /\ rec.current_round = job.current_round
      /\ rec.rounds = job.rounds /\ rec.sdk_worker = job.sdk_worker
      /\ rec.sdk_claude = job.sdk_claude
  BY <1>1, ReconciledType
<1>3. rec.current_round < MaxRevisions
  BY DEF MayRevise
<1> HIDE DEF rec
<1>4. TypeOK'
  <2>1. job' \in JobRecords /\ worker' \in [Round -> WorkerState]
    BY <1>1, <1>2, <1>3, RelaunchType DEF rec
  <2> QED
    BY <1>1, <2>1 DEF TypeOK
<1> QED
  BY <1>2, <1>4, RelaunchInv DEF rec

LEMMA CmdReviseInv ==
  ASSUME IInv, NEW graceOver \in BOOLEAN, NEW outcome \in LaunchOutcome,
         cmd_revise(graceOver, outcome)
  PROVE  IInv'
<1>1. command' \in [Command -> CommandState]
  BY DEF IInv, TypeOK, cmd_revise
<1> QED
  BY <1>1, ReviseInv DEF cmd_revise

LEMMA ReviseClosedInv ==
  ASSUME IInv, NEW c \in Command, NEW outcome \in LaunchOutcome, ReviseClosed(c, outcome)
  PROVE  IInv'
<1>1. TypeOK /\ job.phase # ABSENT
  BY BegunExists DEF IInv, ReviseClosed
<1>2. /\ command' \in [Command -> CommandState]
      /\ UNCHANGED <<handled, cli, unowned>>
  BY <1>1, CommandType DEF ReviseClosed
<1>3. PICK graceOver \in BOOLEAN, timeout \in Timeout :
        LET seen == Reconciled(graceOver)
        IN  IF MayRevise(seen, command[c].expected) THEN Relaunch(seen, timeout, outcome)
            ELSE job' = seen /\ UNCHANGED worker
  BY DEF ReviseClosed
<1>4. CASE MayRevise(Reconciled(graceOver), command[c].expected)
  BY <1>2, <1>3, <1>4, ReviseInv
<1>5. CASE ~MayRevise(Reconciled(graceOver), command[c].expected)
  <2>1. job' = Reconciled(graceOver) /\ UNCHANGED worker
    BY <1>3, <1>5
  <2>2. job' \in JobRecords /\ SameRounds /\ (Decided => Decided') /\ job'.phase # ABSENT
    BY <1>1, <2>1, ReconciledFlags
  <2> QED
    BY <1>1, <1>2, <2>1, <2>2, FlagStep
<1> QED
  BY <1>4, <1>5

-----------------------------------------------------------------------------
(* The seal of an accepted round.                                          *)

\* A step that keeps the current round, every round's worker and the claim.
KeepsClaims ==
  /\ job'.current_round = job.current_round
  /\ \A i \in Round : job'.rounds[i].worker = job.rounds[i].worker
  /\ Current.claim_consumed => Current'.claim_consumed

\* A step after which no worker is where it was not.
NobodyStarts ==
  \A w \in Round : /\ worker'[w] \in Session => worker[w] \in Session
                   /\ worker'[w] \in Working => worker[w] \in Working

\* A command that the step leaves, ends, or lets wait for the same round.
CommandGoesOn(c) ==
  \/ command'[c] = command[c]
  \/ command'[c].at \notin {"waiting", "confirming", "closed"}
  \/ /\ command[c].at \in {"waiting", "confirming"} /\ command'[c].at # "closed"
     /\ command'[c].expected = command[c].expected

LEMMA SealKept ==
  ASSUME IInv, SealInv, KeepsClaims, NobodyStarts, UNCHANGED <<handled, unowned>>,
         NobodyIsLeft => NobodyIsLeft',
         \A ph \in {"awaiting_review", "accepted"} : job'.phase = ph => job.phase = ph,
         \A c \in Command : CommandGoesOn(c)
  PROVE  SealInv'
<1> USE DEF SealInv, KeepsClaims, NobodyStarts
<1>1. ClaimsAreRecorded'
  <2> SUFFICES ASSUME NEW w \in Round
               PROVE  /\ handled[w] <= job.current_round
                      /\ handled[w] = job.current_round => Current'.claim_consumed
                      /\ worker'[w] \in Session => job'.rounds[handled[w]].worker = w
    BY DEF ClaimsAreRecorded
  <2>1. worker'[w] \in Session => handled[w] \in Round /\ job.rounds[handled[w]].worker = w
    BY DEF IInv, SessionIsRecorded, ClaimsAreRecorded
  <2> QED
    BY <2>1 DEF ClaimsAreRecorded
<1>2. ReviewedIsClaimed' /\ UnownedIsOver'
  BY DEF ReviewedIsClaimed, UnownedIsOver
<1>3. ClosedForGood'
  BY DEF ClosedForGood, CommandGoesOn
<1>4. AcceptedIsSealed'
  BY DEF AcceptedIsSealed
<1> QED
  BY <1>1, <1>2, <1>3, <1>4

\* Where nobody is left, nobody comes back while the workers retreat, no CLI
\* is spawned and the rounds name the same CLIs.
LEMMA NobodyComesBack ==
  ASSUME NobodyIsLeft, NobodyStarts,
         \A w \in Round : cli'[w] = "live" => cli[w] = "live",
         \A i \in Round : job.rounds[i].claude \in Process /\ job'.rounds[i].claude = job.rounds[i].claude
  PROVE  NobodyIsLeft'
BY DEF NobodyIsLeft, NobodyStarts, CliAlive, Process

LEMMA RetreatsStartNobody ==
  ASSUME \A v \in Round : Retreats(worker[v], worker'[v])
  PROVE  NobodyStarts
BY StateType DEF Retreats, NobodyStarts

\* Steps that leave the rounds as they are.
LEMMA SameRoundsSeal ==
  ASSUME IInv, SealInv, SameRounds, UNCHANGED <<handled, unowned>>,
         \A v \in Round : Retreats(worker[v], worker'[v]),
         \A w \in Round : cli'[w] = "live" => cli[w] = "live",
         \A ph \in {"awaiting_review", "accepted"} : job'.phase = ph => job.phase = ph,
         \A c \in Command : CommandGoesOn(c)
  PROVE  SealInv'
<1>1. KeepsClaims
  BY DEF SameRounds, KeepsClaims, Current
<1>2. NobodyStarts
  BY RetreatsStartNobody
<1>3. NobodyIsLeft => NobodyIsLeft'
  BY <1>2, NobodyComesBack, RecordTypes DEF SameRounds
<1> QED
  BY <1>1, <1>2, <1>3, SealKept

\* What commands do to one another.
LEMMA OneCommandGoesOn ==
  ASSUME command \in [Command -> CommandState], NEW c \in Command, NEW s,
         command' = [command EXCEPT ![c] = s],
         \/ s.at \notin {"waiting", "confirming", "closed"}
         \/ /\ command[c].at \in {"waiting", "confirming"} /\ s.at # "closed"
            /\ s.expected = command[c].expected
  PROVE  \A d \in Command : CommandGoesOn(d)
BY DEF CommandGoesOn

LEMMA CommandsRest ==
  ASSUME UNCHANGED command PROVE \A c \in Command : CommandGoesOn(c)
BY DEF CommandGoesOn

LEMMA ReconciledPhase ==
  ASSUME NEW graceOver \in BOOLEAN, TypeOK, job' = Reconciled(graceOver)
  PROVE  \A ph \in {"awaiting_review", "accepted"} : job'.phase = ph => job.phase = ph
<1>1. CASE Reconciled(graceOver) = job
  BY <1>1
<1>2. CASE \E ph \in {"needs_attention", "interrupted"} :
             Reconciled(graceOver) = [job EXCEPT !.phase = ph]
  BY <1>2 DEF TypeOK, JobRecords
<1> QED
  BY <1>1, <1>2, ReconciledKeeps

LEMMA StatusSeal ==
  ASSUME IInv, SealInv, NEW graceOver \in BOOLEAN, cmd_status(graceOver)
  PROVE  SealInv'
<1>1. TypeOK /\ job.phase # ABSENT /\ job' = Reconciled(graceOver)
      /\ UNCHANGED <<worker, handled, cli, command, unowned>>
  BY DEF IInv, cmd_status, Exists
<1>2. SameRounds
  BY <1>1, ReconciledFlags
<1> QED
  BY <1>1, <1>2, ReconciledPhase, RetreatsRefl, CommandsRest, SameRoundsSeal

LEMMA ScopeChangedSeal ==
  ASSUME IInv, SealInv, NEW c \in Command, ScopeChanged(c)
  PROVE  SealInv'
<1> DEFINE s == [IdleCommand EXCEPT !.at = "refreshing", !.does = "revise",
                                    !.expected = job.current_round]
<1>1. s.at = "refreshing"
  BY DEF IdleCommand
<1>2. command' = [command EXCEPT ![c] = s] /\ UNCHANGED <<job, worker, handled, cli, unowned>>
  BY DEF ScopeChanged
<1> HIDE DEF s
<1>3. \A d \in Command : CommandGoesOn(d)
  BY <1>1, <1>2, OneCommandGoesOn DEF IInv, TypeOK
<1> QED
  BY <1>2, <1>3, RetreatsRefl, SameRoundsSeal DEF SameRounds

LEMMA RequestStopSeal ==
  ASSUME IInv, SealInv, NEW c \in Command, RequestStop(c)
  PROVE  SealInv'
<1> DEFINE targets == {t \in Target : \E i \in Round : t.id = job.rounds[i][t.process]}
           s == [IdleCommand EXCEPT !.at = "stopping", !.targets = targets]
<1>1. s.at = "stopping"
  BY DEF IdleCommand
<1>2. /\ command' = [command EXCEPT ![c] = s]
      /\ UNCHANGED <<worker, handled, cli, unowned>>
      /\ job' = [job EXCEPT !.stop_requested = TRUE]
  BY DEF RequestStop
<1> HIDE DEF s
<1>3. \A d \in Command : CommandGoesOn(d)
  BY <1>1, <1>2, OneCommandGoesOn DEF IInv, TypeOK
<1>4. SameRounds /\ job'.phase = job.phase
  BY <1>2 DEF IInv, TypeOK, JobRecords, SameRounds
<1> QED
  BY <1>2, <1>3, <1>4, RetreatsRefl, SameRoundsSeal

LEMMA SignalSeal ==
  ASSUME IInv, SealInv, NEW c \in Command, Signal(c)
  PROVE  SealInv'
<1>1. TypeOK /\ command[c].at = "stopping" /\ UNCHANGED <<job, handled, unowned>>
  BY DEF IInv, Signal
<1>2. PICK t \in command[c].targets :
        /\ command' = [command EXCEPT ![c].targets = @ \ {t}]
        /\ \/ t.process = "worker" /\ TerminateWorker(t.id) /\ UNCHANGED cli
           \/ /\ t.process = "claude" /\ cli[t.id] = "live"
              /\ cli' = [cli EXCEPT ![t.id] = "gone"] /\ UNCHANGED worker
           \/ UNCHANGED <<worker, cli>>
  BY DEF Signal
<1>3. command[c] \in CommandState /\ t.id \in Round
  <2>1. command[c].targets \subseteq Target /\ command[c] \in CommandState
    BY <1>1, CommandType DEF CommandState
  <2> QED
    BY <2>1 DEF Target
<1>4. \A d \in Command : CommandGoesOn(d)
  <2> DEFINE s == [command[c] EXCEPT !.targets = @ \ {t}]
  <2>1. command' = [command EXCEPT ![c] = s] /\ s.at = "stopping"
    BY <1>1, <1>2, <1>3 DEF TypeOK, CommandState
  <2> HIDE DEF s
  <2> QED
    BY <1>1, <2>1, OneCommandGoesOn DEF TypeOK
<1>5. /\ \A v \in Round : Retreats(worker[v], worker'[v])
      /\ \A w \in Round : cli'[w] = "live" => cli[w] = "live"
  <2>1. CASE TerminateWorker(t.id) /\ UNCHANGED cli
    BY <1>1, <1>3, <2>1, TerminateRetreats
  <2>2. CASE UNCHANGED worker /\ (cli' = [cli EXCEPT ![t.id] = "gone"] \/ cli' = cli)
    BY <1>1, <2>2, RetreatsRefl DEF TypeOK
  <2> QED
    BY <1>2, <2>1, <2>2
<1> QED
  BY <1>1, <1>4, <1>5, SameRoundsSeal DEF SameRounds

LEMMA WaitingSeal ==
  ASSUME IInv, SealInv, NEW c \in Command,
         SeesItGone(c) \/ CommandDies(c) \/ GivesUpWaiting(c)
  PROVE  SealInv'
<1>1. TypeOK /\ command[c] \in CommandState
  BY CommandType DEF IInv
<1>2. UNCHANGED <<job, handled, cli, unowned>>
  BY DEF SeesItGone, CommandDies, GivesUpWaiting
<1>3. \A d \in Command : CommandGoesOn(d)
  <2>1. CASE command' = [command EXCEPT ![c] = IdleCommand]
    BY <1>1, <2>1, OneCommandGoesOn DEF TypeOK, IdleCommand
  <2>2. CASE command[c].at = "waiting" /\ command' = [command EXCEPT ![c].at = "confirming"]
    <3> DEFINE s == [command[c] EXCEPT !.at = "confirming"]
    <3>1. /\ command' = [command EXCEPT ![c] = s]
          /\ s.at = "confirming" /\ s.expected = command[c].expected
      BY <1>1, <2>2 DEF TypeOK, CommandState
    <3> HIDE DEF s
    <3> QED
      BY <1>1, <2>2, <3>1, OneCommandGoesOn DEF TypeOK
  <2> QED
    BY <2>1, <2>2 DEF SeesItGone, CommandDies, GivesUpWaiting, Goes
<1>4. \A v \in Round : Retreats(worker[v], worker'[v])
  <2>1. CASE worker' = worker
    BY <2>1, RetreatsRefl
  <2>2. CASE GivesUpWaiting(c)
    <3>1. TerminateWorker(command[c].worker) /\ command[c].worker \in Round
      BY <1>1, <2>2 DEF GivesUpWaiting, WorkerAlive, CommandState, Process
    <3> QED
      BY <1>1, <3>1, TerminateRetreats
  <2> QED
    BY <2>1, <2>2 DEF SeesItGone, CommandDies
<1> QED
  BY <1>2, <1>3, <1>4, SameRoundsSeal DEF SameRounds

LEMMA SystemSeal ==
  ASSUME IInv, SealInv, NEW w \in Round, CloseClient(w) \/ WorkerDies(w) \/ CliExits(w)
  PROVE  SealInv'
<1>1. TypeOK /\ UNCHANGED <<job, handled, command, unowned>>
  BY DEF IInv, CloseClient, WorkerDies, CliExits
<1>2. \A v \in Round : Retreats(worker[v], worker'[v])
  <2>1. CASE CloseClient(w)
    BY <1>1, <2>1, StateType DEF TypeOK, CloseClient, Becomes, Retreats
  <2>2. CASE WorkerDies(w)
    BY <1>1, <2>2 DEF TypeOK, WorkerDies, Becomes, Retreats
  <2>3. CASE CliExits(w)
    BY <2>3 DEF CliExits, Retreats
  <2> QED
    BY <2>1, <2>2, <2>3
<1>3. \A v \in Round : cli'[v] = "live" => cli[v] = "live"
  BY <1>1 DEF TypeOK, CloseClient, WorkerDies, CliExits
<1> QED
  BY <1>1, <1>2, <1>3, CommandsRest, SameRoundsSeal DEF SameRounds

\* The record that a command or a worker that only leaves saves: the current
\* round keeps its processes and its claim.
LEMMA SavedKeeps ==
  ASSUME IInv, NEW ph \in Phase, NEW sc \in Process, NEW r \in RoundRecord,
         job' = Saved(ph, sc, r), r.worker = Current.worker,
         Current.claim_consumed => r.claim_consumed
  PROVE  /\ KeepsClaims /\ job'.phase = ph /\ job'.current_round = job.current_round
         /\ Current' = r /\ job'.rounds[job.current_round] = r
         /\ \A i \in Round \ {job.current_round} : job'.rounds[i] = job.rounds[i]
         /\ r.claude = Current.claude =>
              \A i \in Round : job'.rounds[i].claude = job.rounds[i].claude
<1>1. TypeOK
  BY DEF IInv
<1>2. /\ job'.phase = ph
      /\ job'.current_round = job.current_round
      /\ Current' = r
      /\ \A k \in Round \ {job.current_round} : job'.rounds[k] = job.rounds[k]
      /\ job'.rounds[job.current_round] = r
  BY <1>1, SavedFields
<1> QED
  BY <1>2, RecordTypes DEF KeepsClaims

LEMMA FinishStopSeal ==
  ASSUME IInv, SealInv, NEW c \in Command, FinishStop(c)
  PROVE  SealInv'
<1> DEFINE i == job.current_round
           ph == IF job.phase = "accepted" THEN job.phase ELSE "stopped"
           r == [Current EXCEPT !.finalized = TRUE]
<1>1. /\ TypeOK /\ job.phase # ABSENT /\ UNCHANGED <<worker, handled, cli, unowned>>
      /\ command' = [command EXCEPT ![c] = IdleCommand]
  BY BegunExists DEF IInv, FinishStop
<1>2. \A d \in Command : CommandGoesOn(d)
  BY <1>1, OneCommandGoesOn DEF TypeOK, IdleCommand
<1>3. CASE live_blockers(FALSE)
  <2>1. job' = [job EXCEPT !.phase = IF job.phase \in TERMINAL_DECISION_PHASES
                                     THEN job.phase ELSE "needs_attention"]
    BY <1>1, <1>3 DEF FinishStop, stop_transition, TypeOK, JobRecords
  <2>2. /\ SameRounds
        /\ \A p \in {"awaiting_review", "accepted"} : job'.phase = p => job.phase = p
    BY <1>1, <2>1 DEF TypeOK, JobRecords, SameRounds
  <2> QED
    BY <1>1, <1>2, <2>2, RetreatsRefl, SameRoundsSeal
<1>4. CASE ~live_blockers(FALSE)
  <2>1. /\ i \in Round /\ Current \in RoundRecord /\ job.sdk_claude \in Process
        /\ Current = job.rounds[i] /\ job.phase \in Phase
    BY <1>1, CurrentType DEF Current, TypeOK, JobRecords
  <2>2. ph \in {"accepted", "stopped"} /\ ph \in Phase /\ (ph = "accepted" => job.phase = "accepted")
    BY DEF Phase, TERMINAL_DECISION_PHASES
  <2>3. job' = Saved(ph, job.sdk_claude, r)
    <3>1. job' = [job EXCEPT !.phase = ph, !.rounds[i].finalized = TRUE]
      BY <1>1, <1>4 DEF FinishStop, stop_transition, TypeOK, JobRecords
    <3> HIDE DEF ph
    <3> QED
      BY <1>1, <2>1, <2>2, <3>1 DEF Saved, TypeOK, JobRecords, RoundRecord
  <2>4. /\ r \in RoundRecord /\ r.worker = Current.worker /\ r.claude = Current.claude
        /\ r.claim_consumed = Current.claim_consumed
    BY <2>1 DEF RoundRecord
  <2> HIDE DEF r, ph
  <2>5. /\ KeepsClaims /\ job'.phase = ph
        /\ \A k \in Round : job'.rounds[k].claude = job.rounds[k].claude
    BY <2>1, <2>2, <2>3, <2>4, SavedKeeps
  <2>6. NobodyStarts
    BY <1>1, RetreatsRefl, RetreatsStartNobody
  <2>7. NobodyIsLeft => NobodyIsLeft'
    BY <1>1, <2>5, <2>6, RecordTypes, NobodyComesBack
  <2>8. \A p \in {"awaiting_review", "accepted"} : job'.phase = p => job.phase = p
    BY <2>2, <2>5
  <2> QED
    BY <1>1, <1>2, <2>5, <2>6, <2>7, <2>8, SealKept
<1> QED
  BY <1>3, <1>4

\* The fence is raised round a reviewed, so a claimed, round.
LEMMA FenceSeal ==
  ASSUME IInv, SealInv, NEW c \in Command, NEW does \in {"accept", "revise"}, Fence(c, does)
  PROVE  SealInv'
<1> DEFINE s == [at |-> "waiting", does |-> does, expected |-> job.current_round,
                 worker |-> job.sdk_worker, targets |-> {}]
<1>1. /\ TypeOK /\ job.phase = "awaiting_review" /\ job' = [job EXCEPT !.sdk_closing = TRUE]
      /\ command' = [command EXCEPT ![c] = s]
      /\ UNCHANGED <<worker, handled, cli, unowned>>
  BY DEF IInv, Fence
<1>2. SameRounds /\ KeepsClaims /\ Current' = Current /\ job'.phase = job.phase
  BY <1>1 DEF TypeOK, JobRecords, SameRounds, KeepsClaims, Current
<1>3. NobodyIsLeft' <=> NobodyIsLeft
  BY <1>1, <1>2 DEF NobodyIsLeft, SameRounds, CliAlive
<1>4. Current.claim_consumed
  BY <1>1 DEF SealInv, ReviewedIsClaimed
<1>5. /\ \A d \in Command \ {c} : command'[d] = command[d]
      /\ command'[c] = s /\ s.at = "waiting" /\ s.expected = job.current_round
  BY <1>1 DEF TypeOK
<1> HIDE DEF s
<1>6. ClosedForGood'
  <2> SUFFICES ASSUME NEW d \in Command, command'[d].at \in {"waiting", "confirming", "closed"}
               PROVE  /\ command'[d].expected <= job.current_round
                      /\ command'[d].expected = job.current_round =>
                           /\ Current.claim_consumed
                           /\ command'[d].at = "closed" => NobodyIsLeft
    BY <1>2, <1>3 DEF ClosedForGood, SameRounds
  <2>1. CASE d = c
    BY <1>4, <1>5, <2>1, RecordTypes, RoundType
  <2>2. CASE d # c
    BY <1>5, <2>2 DEF SealInv, ClosedForGood
  <2> QED
    BY <2>1, <2>2
<1>7. ClaimsAreRecorded' /\ ReviewedIsClaimed' /\ UnownedIsOver' /\ AcceptedIsSealed'
  BY <1>1, <1>2, <1>3
     DEF SealInv, ClaimsAreRecorded, ReviewedIsClaimed, UnownedIsOver, AcceptedIsSealed, SameRounds
<1> QED
  BY <1>6, <1>7 DEF SealInv

\* live_blockers sees every worker past its claim and every recorded CLI.
LEMMA NoBlockers ==
  ASSUME IInv, SealInv, ~live_blockers(FALSE)
  PROVE  NobodyIsLeft
<1>1. ASSUME NEW i \in Round
      PROVE  ~WorkerAlive(job.rounds[i].worker) /\ ~CliAlive(job.rounds[i].claude)
  BY DEF live_blockers
<1>2. ASSUME NEW w \in Round, worker[w] \in Session
      PROVE  FALSE
  <2>1. handled[w] \in Round /\ job.rounds[handled[w]].worker = w
    BY <1>2 DEF IInv, SessionIsRecorded, SealInv, ClaimsAreRecorded
  <2>2. WorkerAlive(job.rounds[handled[w]].worker)
    BY <1>2, <2>1, RoundType, StateType DEF WorkerAlive, NoProcess, Round
  <2> QED
    BY <1>1, <2>1, <2>2
<1> QED
  BY <1>1, <1>2 DEF NobodyIsLeft

LEMMA ConfirmSeal ==
  ASSUME IInv, SealInv, NEW c \in Command, Confirm(c)
  PROVE  SealInv'
<1>1. TypeOK /\ UNCHANGED <<job, worker, handled, cli, unowned>> /\ command[c].at = "confirming"
      /\ command[c] \in CommandState
  BY CommandType DEF IInv, Confirm
<1>2. CASE command' = [command EXCEPT ![c] = IdleCommand]
  <2>1. \A d \in Command : CommandGoesOn(d)
    BY <1>1, <1>2, OneCommandGoesOn DEF TypeOK, IdleCommand
  <2> QED
    BY <1>1, <2>1, RetreatsRefl, SameRoundsSeal DEF SameRounds
<1>3. CASE ~live_blockers(FALSE) /\ command' = [command EXCEPT ![c].at = "closed"]
  <2>1. /\ \A d \in Command \ {c} : command'[d] = command[d]
        /\ command'[c].at = "closed" /\ command'[c].expected = command[c].expected
    BY <1>1, <1>3 DEF TypeOK, CommandState
  <2>2. NobodyIsLeft
    BY <1>3, NoBlockers
  <2>3. Current' = Current /\ (NobodyIsLeft' <=> NobodyIsLeft)
    BY <1>1 DEF Current, NobodyIsLeft, CliAlive
  <2>4. ClosedForGood'
    BY <1>1, <2>1, <2>2, <2>3 DEF SealInv, ClosedForGood
  <2>5. ClaimsAreRecorded' /\ ReviewedIsClaimed' /\ UnownedIsOver' /\ AcceptedIsSealed'
    BY <1>1, <2>3
       DEF SealInv, ClaimsAreRecorded, ReviewedIsClaimed, UnownedIsOver, AcceptedIsSealed
  <2> QED
    BY <2>4, <2>5 DEF SealInv
<1> QED
  BY <1>2, <1>3 DEF Confirm, Goes

LEMMA AcceptSeal ==
  ASSUME IInv, SealInv, NEW c \in Command, Accept(c)
  PROVE  SealInv'
<1>1. /\ TypeOK /\ job.phase # ABSENT /\ UNCHANGED <<worker, handled, cli, unowned>>
      /\ command[c].at = "closed" /\ command' = [command EXCEPT ![c] = IdleCommand]
  BY BegunExists DEF IInv, Accept
<1>2. \A d \in Command : CommandGoesOn(d)
  BY <1>1, OneCommandGoesOn DEF TypeOK, IdleCommand
<1>3. CASE job' = job
  BY <1>1, <1>2, <1>3, RetreatsRefl, SameRoundsSeal DEF SameRounds
<1>4. CASE \E graceOver \in BOOLEAN : job' = Reconciled(graceOver)
  BY <1>1, <1>2, <1>4, ReconciledFlags, ReconciledPhase, RetreatsRefl, SameRoundsSeal
<1>5. CASE MayAccept(command[c].expected) /\ job' = [job EXCEPT !.phase = "accepted"]
  <2>1. /\ command[c].expected = job.current_round /\ job.phase = "awaiting_review"
        /\ NobodyIsLeft /\ job.current_round \notin unowned
    BY <1>1, <1>5 DEF MayAccept, SealInv, ClosedForGood, UnownedIsOver
  <2>2. SameRounds /\ job'.phase = "accepted" /\ KeepsClaims /\ Current' = Current
    BY <1>1, <1>5 DEF TypeOK, JobRecords, SameRounds, KeepsClaims, Current
  <2>3. NobodyIsLeft' <=> NobodyIsLeft
    BY <1>1, <2>2 DEF NobodyIsLeft, SameRounds, CliAlive
  <2>4. AcceptedIsSealed'
    BY <1>1, <2>1, <2>2, <2>3 DEF AcceptedIsSealed, SameRounds
  <2>5. ClosedForGood'
    BY <1>2, <2>2, <2>3 DEF SealInv, ClosedForGood, CommandGoesOn, SameRounds
  <2>6. ClaimsAreRecorded' /\ ReviewedIsClaimed' /\ UnownedIsOver'
    BY <1>1, <2>2
       DEF SealInv, ClaimsAreRecorded, ReviewedIsClaimed, UnownedIsOver, SameRounds
  <2> QED
    BY <2>4, <2>5, <2>6 DEF SealInv
<1> QED
  BY <1>3, <1>4, <1>5 DEF Accept

\* Where a worker is at work, nothing is accepted, sealed or closed.
LEMMA WorkIsOpen ==
  ASSUME IInv, SealInv, NEW w \in Round, worker[w] \in Working
  PROVE  /\ Current.claim_consumed /\ ~NobodyIsLeft /\ job.phase # "accepted"
         /\ job.current_round \notin unowned
<1>1. Current.claim_consumed /\ worker[w] \in Session
  BY WorkingFacts, StateType
<1> QED
  BY <1>1 DEF SealInv, NobodyIsLeft, UnownedIsOver, AcceptedIsSealed

\* A step of the worker at work, on the current round.
LEMMA WorkSeal ==
  ASSUME IInv, SealInv, NEW w \in Round, worker[w] \in Working,
         NEW s \in WorkerState, worker' = [worker EXCEPT ![w] = s], s \notin {"none", "boot"},
         NEW ph \in Phase, ph # "accepted", NEW sc \in Process, NEW r \in RoundRecord,
         job' = Saved(ph, sc, r), r.worker = Current.worker, r.claim_consumed,
         UNCHANGED <<handled, command, unowned>>
  PROVE  SealInv'
<1>1. /\ Current.claim_consumed /\ ~NobodyIsLeft /\ job.phase # "accepted"
      /\ job.current_round \notin unowned
  BY WorkIsOpen
<1>2. KeepsClaims /\ job'.phase = ph /\ Current' = r /\ job'.current_round = job.current_round
  BY SavedKeeps
<1>3. \A v \in Round : worker'[v] \in Session => worker[v] \in Session
  BY StateType DEF IInv, TypeOK
<1>4. ClaimsAreRecorded'
  <2> SUFFICES ASSUME NEW v \in Round
               PROVE  /\ handled[v] <= job.current_round
                      /\ worker'[v] \in Session => job'.rounds[handled[v]].worker = v
    BY <1>2 DEF ClaimsAreRecorded
  <2>1. worker'[v] \in Session => handled[v] \in Round /\ job.rounds[handled[v]].worker = v
    BY <1>3 DEF IInv, SessionIsRecorded, SealInv, ClaimsAreRecorded
  <2> QED
    BY <1>2, <2>1 DEF SealInv, ClaimsAreRecorded, KeepsClaims
<1>5. ReviewedIsClaimed' /\ UnownedIsOver' /\ AcceptedIsSealed'
  BY <1>1, <1>2 DEF SealInv, ReviewedIsClaimed, UnownedIsOver, AcceptedIsSealed
<1>6. ClosedForGood'
  BY <1>1, <1>2 DEF SealInv, ClosedForGood
<1> QED
  BY <1>4, <1>5, <1>6 DEF SealInv

LEMMA LaunchingSeal ==
  ASSUME IInv, SealInv, NEW w \in Round, PendLaunch(w) \/ SpawnCli(w) \/ RegisterCli(w)
  PROVE  SealInv'
<1>1. worker[w] \in Working /\ UNCHANGED <<handled, command, unowned>>
  BY StateType DEF PendLaunch, SpawnCli, RegisterCli
<1>2. /\ TypeOK /\ job.phase \in Phase /\ handled[w] = job.current_round
      /\ Current.claim_consumed /\ Current.worker = w
      /\ job.sdk_claude \in Process /\ Current \in RoundRecord /\ w \in Process
  BY <1>1, WorkingFacts
<1>3. job.phase # "accepted"
  BY <1>1, WorkIsOpen
<1>4. PICK s \in {"launching", "spawned", "aborting", "working"} : worker' = [worker EXCEPT ![w] = s]
  BY DEF PendLaunch, SpawnCli, RegisterCli, Becomes
<1>5. s \in WorkerState /\ s \notin {"none", "boot"}
  BY StateType
<1>6. CASE job' = job
  <2>1. job' = Saved(job.phase, job.sdk_claude, Current)
    BY <1>2, <1>6, SavedForms
  <2> QED
    BY <1>1, <1>2, <1>3, <1>4, <1>5, <2>1, WorkSeal
<1>7. ASSUME NEW b \in BOOLEAN,
             job' = [job EXCEPT !.rounds[handled[w]].claude_launch_pending = b]
      PROVE  SealInv'
  <2> DEFINE r == [Current EXCEPT !.claude_launch_pending = b]
  <2>1. job' = Saved(job.phase, job.sdk_claude, r)
    BY <1>2, <1>7, SavedForms
  <2>2. r \in RoundRecord /\ r.worker = Current.worker /\ r.claim_consumed
    BY <1>2 DEF RoundRecord
  <2> HIDE DEF r
  <2> QED
    BY <1>1, <1>2, <1>3, <1>4, <1>5, <2>1, <2>2, WorkSeal
<1>8. CASE job' = Registered(w)
  <2> DEFINE r == [Current EXCEPT !.claude = w, !.claude_launch_pending = FALSE]
  <2>1. job' = Saved(job.phase, w, r)
    <3>1. job' = [job EXCEPT !.sdk_claude = w, !.rounds[job.current_round].claude = w,
                             !.rounds[job.current_round].claude_launch_pending = FALSE]
      BY <1>2, <1>8 DEF Registered
    <3>2. [job EXCEPT !.sdk_claude = w, !.rounds[job.current_round].claude = w,
                      !.rounds[job.current_round].claude_launch_pending = FALSE]
            = Saved(job.phase, w, r)
      BY <1>2, RegisteredForm
    <3> QED
      BY <3>1, <3>2, Zenon
  <2>2. r \in RoundRecord /\ r.worker = Current.worker /\ r.claim_consumed
    BY <1>2 DEF RoundRecord
  <2> HIDE DEF r
  <2> QED
    BY <1>1, <1>2, <1>3, <1>4, <1>5, <2>1, <2>2, WorkSeal
<1> QED
  BY <1>6, <1>7, <1>8 DEF PendLaunch, SpawnCli, RegisterCli

LEMMA FinalizeSeal ==
  ASSUME IInv, SealInv, NEW w \in Round, worker[w] \in Working,
         NEW s \in {"idle", "closing", "gone"}, worker' = [worker EXCEPT ![w] = s],
         NEW verdict \in Verdict, job' = Finalized(w, verdict),
         UNCHANGED <<handled, command, unowned>>
  PROVE  SealInv'
<1> DEFINE r == [Current EXCEPT !.finalized = TRUE, !.verification = verdict]
           ph == IF Decided THEN job.phase
                 ELSE IF verdict = "ok" THEN "awaiting_review" ELSE "needs_attention"
<1>1. /\ TypeOK /\ job.phase \in Phase /\ handled[w] = job.current_round
      /\ Current.claim_consumed /\ Current.worker = w
      /\ job.sdk_claude \in Process /\ Current \in RoundRecord
  BY WorkingFacts
<1>2. ph \in Phase /\ ph # "accepted"
  BY <1>1, WorkIsOpen DEF Phase, RESERVING_PHASES
<1>3. job' = Saved(ph, job.sdk_claude, r)
  <2>1. job' = [job EXCEPT !.phase = ph, !.rounds[job.current_round].finalized = TRUE,
                           !.rounds[job.current_round].verification = verdict]
    BY <1>1 DEF Finalized
  <2> HIDE DEF ph
  <2>2. [job EXCEPT !.phase = ph, !.rounds[job.current_round].finalized = TRUE,
                    !.rounds[job.current_round].verification = verdict]
          = Saved(ph, job.sdk_claude, r)
    BY <1>1, <1>2, FinalizedForm
  <2> QED
    BY <2>1, <2>2, Zenon
<1>4. r \in RoundRecord /\ r.worker = Current.worker /\ r.claim_consumed
  BY <1>1 DEF RoundRecord
<1>5. s \in WorkerState /\ s \notin {"none", "boot"}
  BY StateType
<1> HIDE DEF r, ph
<1> QED
  BY <1>1, <1>2, <1>3, <1>4, <1>5, WorkSeal

LEMMA EndOfRoundSeal ==
  ASSUME IInv, SealInv, NEW w \in Round,
         FailRound(w) \/ \E verdict \in Verdict : FinishRound(w, verdict)
  PROVE  SealInv'
<1>1. CASE FailRound(w)
  <2>1. worker[w] \in Working /\ "failed" \in Verdict
    BY <1>1, StateType DEF FailRound, Verdict
  <2> QED
    BY <1>1, <2>1, FinalizeSeal DEF FailRound, Becomes
<1>2. ASSUME NEW verdict \in Verdict, FinishRound(w, verdict)
      PROVE  SealInv'
  <2>1. worker[w] \in Working
    BY <1>2, StateType DEF FinishRound
  <2> QED
    BY <1>2, <2>1, FinalizeSeal DEF FinishRound, Becomes
<1> QED
  BY <1>1, <1>2

\* A worker that leaves after it saved the current round as it found it claimed.
LEMMA LeavingSeal ==
  ASSUME IInv, SealInv, \A v \in Round : Retreats(worker[v], worker'[v]),
         NEW ph \in Phase, ph \notin {"awaiting_review", "accepted"}, NEW r \in RoundRecord,
         job' = Saved(ph, job.sdk_claude, r), r.worker = Current.worker,
         r.claude = Current.claude, Current.claim_consumed => r.claim_consumed,
         UNCHANGED <<handled, cli, command, unowned>>
  PROVE  SealInv'
<1>1. job.sdk_claude \in Process
  BY CurrentType DEF IInv
<1>2. /\ KeepsClaims /\ job'.phase = ph
      /\ \A i \in Round : job'.rounds[i].claude = job.rounds[i].claude
  BY <1>1, SavedKeeps
<1>3. NobodyStarts
  BY RetreatsStartNobody
<1>4. NobodyIsLeft => NobodyIsLeft'
  BY <1>2, <1>3, RecordTypes, NobodyComesBack
<1> QED
  BY <1>2, <1>3, <1>4, CommandsRest, SealKept

LEMMA BootFailsSeal ==
  ASSUME IInv, SealInv, NEW w \in Round, BootFails(w)
  PROVE  SealInv'
<1>1. /\ TypeOK /\ worker[w] = "boot" /\ worker' = [worker EXCEPT ![w] = "gone"]
      /\ UNCHANGED <<handled, cli, command, unowned>> /\ worker[w] \in WorkerLive
  BY StateType DEF BootFails, IInv, Becomes
<1>2. \A v \in Round : Retreats(worker[v], worker'[v])
  BY <1>1 DEF TypeOK, Retreats
<1>3. CASE job' = job
  BY <1>1, <1>2, <1>3, CommandsRest, SameRoundsSeal DEF SameRounds
<1>4. CASE /\ job.current_round = w
           /\ job' = [job EXCEPT !.phase = "needs_attention", !.rounds[w].finalized = TRUE,
                                 !.rounds[w].verification = "failed"]
  <2> DEFINE r == [Current EXCEPT !.finalized = TRUE, !.verification = "failed"]
             ph == "needs_attention"
  <2>1. Current \in RoundRecord
    BY <1>1, CurrentType
  <2>2. ph \in Phase /\ ph \notin {"awaiting_review", "accepted"} /\ "failed" \in Verdict
    BY DEF Phase, RESERVING_PHASES, Verdict
  <2>3. job' = Saved(ph, job.sdk_claude, r)
    BY <1>1, <1>4, <2>2, FinalizedForm
  <2>4. /\ r \in RoundRecord /\ r.worker = Current.worker /\ r.claude = Current.claude
        /\ r.claim_consumed = Current.claim_consumed
    BY <2>1, <2>2 DEF RoundRecord
  <2> HIDE DEF r, ph
  <2> QED
    BY <1>1, <1>2, <2>2, <2>3, <2>4, LeavingSeal
<1> QED
  BY <1>3, <1>4 DEF BootFails

\* An unclaimed round is neither reviewed nor sealed, and no fence is about it.
LEMMA ClaimSeal ==
  ASSUME IInv, SealInv, NEW w \in Round, worker[w] \in {"boot", "idle"},
         ~Current.claim_consumed, ~Decided, Current.worker = w,
         NEW s \in Working, worker' = [worker EXCEPT ![w] = s],
         NEW r \in RoundRecord, r.worker = Current.worker, r.claim_consumed,
         job' = Saved("running", job.sdk_claude, r),
         handled' = [handled EXCEPT ![w] = job.current_round], UNCHANGED <<command, unowned>>
  PROVE  SealInv'
<1>1. /\ job.current_round \notin unowned
      /\ \A c \in Command : command[c].at \in {"waiting", "confirming", "closed"} =>
           command[c].expected <= job.current_round /\ command[c].expected # job.current_round
  BY DEF SealInv, UnownedIsOver, ClosedForGood
<1>2. "running" \in Phase /\ job.sdk_claude \in Process
  BY CurrentType DEF IInv, Phase, RESERVING_PHASES
<1>3. /\ KeepsClaims /\ job'.phase = "running" /\ Current' = r
      /\ job'.current_round = job.current_round /\ job'.rounds[job.current_round] = r
  BY <1>2, SavedKeeps
<1>4. ClaimsAreRecorded'
  <2> SUFFICES ASSUME NEW v \in Round
               PROVE  /\ handled'[v] <= job.current_round
                      /\ worker'[v] \in Session => job'.rounds[handled'[v]].worker = v
    BY <1>3 DEF ClaimsAreRecorded
  <2>1. CASE v = w
    <3>1. handled'[v] = job.current_round
      BY <2>1 DEF IInv, TypeOK
    <3> QED
      BY <1>3, <2>1, <3>1, RecordTypes, RoundType
  <2>2. CASE v # w
    <3>1. handled'[v] = handled[v] /\ worker'[v] = worker[v]
      BY <2>2 DEF IInv, TypeOK
    <3>2. worker[v] \in Session => handled[v] \in Round /\ job.rounds[handled[v]].worker = v
      BY DEF IInv, SessionIsRecorded, SealInv, ClaimsAreRecorded
    <3> QED
      BY <1>3, <3>1, <3>2 DEF SealInv, ClaimsAreRecorded, KeepsClaims
  <2> QED
    BY <2>1, <2>2
<1>5. ReviewedIsClaimed' /\ UnownedIsOver' /\ AcceptedIsSealed'
  BY <1>1, <1>3 DEF SealInv, ReviewedIsClaimed, UnownedIsOver, AcceptedIsSealed
<1>6. ClosedForGood'
  BY <1>1, <1>3 DEF ClosedForGood
<1> QED
  BY <1>4, <1>5, <1>6 DEF SealInv

LEMMA ClaimRoundSeal ==
  ASSUME IInv, SealInv, NEW w \in Round, ClaimRound(w)
  PROVE  SealInv'
<1> DEFINE i == job.current_round
<1>1. /\ TypeOK /\ worker[w] \in {"boot", "idle"} /\ worker[w] \in WorkerLive
      /\ UNCHANGED <<cli, command, unowned>>
  BY StateType DEF ClaimRound, IInv
<1>2. /\ i \in Round /\ job.sdk_claude \in Process /\ Current \in RoundRecord
      /\ Current = job.rounds[i]
  BY <1>1, RecordTypes, CurrentType
<1>3. CASE job' = job /\ handled' = handled /\ Leaves(w)
  <2>1. \A v \in Round : Retreats(worker[v], worker'[v])
    BY <1>1, <1>3 DEF TypeOK, Leaves, Becomes, Retreats
  <2> QED
    BY <1>1, <1>3, <2>1, CommandsRest, SameRoundsSeal DEF SameRounds
<1>4. CASE /\ job' = [job EXCEPT !.phase = "needs_attention",
                                 !.rounds[i].claim_consumed = TRUE, !.rounds[i].finalized = TRUE]
           /\ Leaves(w) /\ handled' = handled
  <2> DEFINE r == [Current EXCEPT !.claim_consumed = TRUE, !.finalized = TRUE]
             ph == "needs_attention"
  <2>1. ph \in Phase /\ ph \notin {"awaiting_review", "accepted"}
    BY DEF Phase, RESERVING_PHASES
  <2>2. job' = Saved(ph, job.sdk_claude, r)
    BY <1>1, <1>4, <2>1, RefusedForm
  <2>3. /\ r \in RoundRecord /\ r.worker = Current.worker /\ r.claude = Current.claude
        /\ r.claim_consumed
    BY <1>2 DEF RoundRecord
  <2>4. \A v \in Round : Retreats(worker[v], worker'[v])
    BY <1>1, <1>4 DEF TypeOK, Leaves, Becomes, Retreats
  <2> HIDE DEF r, ph
  <2> QED
    BY <1>1, <1>4, <2>1, <2>2, <2>3, <2>4, LeavingSeal
<1>5. CASE /\ ~MustStop /\ handled[w] < i /\ Claimable(w)
           /\ job' = [job EXCEPT !.phase = "running", !.rounds[i].claim_consumed = TRUE,
                                 !.rounds[i].claude =
                                    IF job.sdk_claude # NoProcess THEN job.sdk_claude ELSE @]
           /\ handled' = [handled EXCEPT ![w] = i]
           /\ Becomes(w, IF worker[w] = "boot" THEN "claimed" ELSE "working")
  <2> DEFINE q == IF job.sdk_claude # NoProcess THEN job.sdk_claude ELSE Current.claude
             r == [Current EXCEPT !.claim_consumed = TRUE, !.claude = q]
             s == IF worker[w] = "boot" THEN "claimed" ELSE "working"
             ph == "running"
  <2>1. job' = Saved(ph, job.sdk_claude, r)
    <3>1. job' = [job EXCEPT !.phase = ph, !.rounds[i].claim_consumed = TRUE, !.rounds[i].claude = q]
      BY <1>1, <1>2, <1>5 DEF TypeOK, JobRecords, RoundRecord, Current
    <3>2. q \in Process /\ ph \in Phase
      BY <1>2 DEF RoundRecord, Phase, RESERVING_PHASES
    <3> HIDE DEF q, ph
    <3>3. [job EXCEPT !.phase = ph, !.rounds[i].claim_consumed = TRUE, !.rounds[i].claude = q]
            = Saved(ph, job.sdk_claude, r)
      BY <1>1, <3>2, ClaimedForm
    <3> QED
      BY <3>1, <3>3, Zenon
  <2>2. /\ r \in RoundRecord /\ r.worker = Current.worker /\ r.claim_consumed
    BY <1>2 DEF RoundRecord
  <2>3. s \in Working /\ worker' = [worker EXCEPT ![w] = s]
    BY <1>5, StateType DEF Becomes
  <2>4. ~Current.claim_consumed /\ ~Decided /\ Current.worker = w
    BY <1>5 DEF Claimable, MustStop
  <2> HIDE DEF r, s
  <2> QED
    BY <1>1, <1>5, <2>1, <2>2, <2>3, <2>4, ClaimSeal
<1> QED
  BY <1>3, <1>4, <1>5 DEF ClaimRound

\* Output after the seal takes the round back from review.
LEMMA IdleOutputSeal ==
  ASSUME IInv, SealInv, NEW w \in Round, IdleOutput(w)
  PROVE  SealInv'
<1>1. /\ TypeOK /\ worker[w] \in {"idle", "closing"} /\ UNCHANGED <<handled, cli, command>>
      /\ worker[w] \in Session /\ unowned' = unowned \cup {handled[w]}
  BY StateType DEF IdleOutput, IInv
<1>2. \A v \in Round : Retreats(worker[v], worker'[v])
  BY <1>1 DEF TypeOK, IdleOutput, Becomes, Retreats
<1>3. /\ SameRounds /\ Current' = Current /\ job'.phase # "awaiting_review"
      /\ job'.phase # "accepted"
  <2>1. job.phase # "accepted"
    BY <1>1 DEF SealInv, AcceptedIsSealed, NobodyIsLeft
  <2>2. CASE job' = job /\ ~Sealed
    BY <2>1, <2>2 DEF SameRounds, Current, Sealed
  <2>3. CASE job' = [job EXCEPT !.phase = "needs_attention"]
    BY <1>1, <2>3 DEF TypeOK, JobRecords, SameRounds, Current
  <2> QED
    BY <2>2, <2>3 DEF IdleOutput
<1>4. /\ handled[w] \in Round /\ handled[w] <= job.current_round
      /\ handled[w] = job.current_round => Current.claim_consumed
  BY <1>1 DEF IInv, SessionIsRecorded, SealInv, ClaimsAreRecorded
<1>5. NobodyStarts
  BY <1>2, RetreatsStartNobody
<1>6. \A v \in Round : worker'[v] \notin Working
  <2>1. job.sdk_worker = w /\ worker'[w] \notin Working
    BY <1>1, StateType DEF IInv, TypeOK, SessionIsRecorded, IdleOutput, Becomes
  <2> QED
    BY <1>5, <2>1, OthersAreQuiet DEF NobodyStarts
<1>7. ~NobodyIsLeft
  BY <1>1 DEF NobodyIsLeft
<1>8. ClaimsAreRecorded'
  BY <1>1, <1>3, <1>5 DEF SealInv, ClaimsAreRecorded, SameRounds, NobodyStarts
<1>9. ReviewedIsClaimed' /\ UnownedIsOver' /\ AcceptedIsSealed'
  BY <1>1, <1>3, <1>4, <1>6
     DEF SealInv, ReviewedIsClaimed, UnownedIsOver, AcceptedIsSealed, SameRounds
<1>10. ClosedForGood'
  BY <1>1, <1>3, <1>7 DEF SealInv, ClosedForGood, SameRounds
<1> QED
  BY <1>8, <1>9, <1>10 DEF SealInv

LEMMA NotReached ==
  ASSUME NEW a \in Int, NEW b \in Int, b = a \/ b = a + 1,
         NEW n \in Int, n <= a, b = a => n # b
  PROVE  n <= b /\ n # b
OBVIOUS

\* A round that is opened has not been claimed: nothing known so far is of it.
LEMMA OpensSeal ==
  ASSUME IInv, SealInv, NEW i \in Round, Opens(i),
         i = job.current_round + 1 \/ (i = job.current_round /\ ~Current.claim_consumed),
         \A c \in Command : CommandGoesOn(c), UNCHANGED <<handled, unowned>>
  PROVE  SealInv'
<1>1. /\ job'.current_round = i /\ job'.phase \notin {"awaiting_review", "accepted"}
      /\ \A k \in Round \ {i} : job'.rounds[k] = job.rounds[k]
      /\ \A w \in Round : worker'[w] \in Session => worker[w] \in Session
  BY StateType DEF Opens, IInv, TypeOK
<1>2. job.current_round \in Int /\ i \in Int /\ job.current_round <= i
  BY RecordTypes, RoundType
<1>3. /\ \A w \in Round : handled[w] \in Int /\ handled[w] <= i /\ handled[w] # i
      /\ \A k \in unowned : k \in Int /\ k <= i /\ k # i
  <2>1. \A w \in Round : handled[w] \in Int /\ handled[w] <= job.current_round
    BY RoundType DEF IInv, TypeOK, SealInv, ClaimsAreRecorded
  <2>2. \A k \in unowned : k \in Int /\ k <= job.current_round
    BY RoundType DEF IInv, TypeOK, SealInv, UnownedIsOver
  <2>3. i = job.current_round => (\A w \in Round : handled[w] # i) /\ i \notin unowned
    <3>1. i = job.current_round => i # job.current_round + 1
      BY <1>2
    <3>2. i = job.current_round => ~Current.claim_consumed
      BY <3>1
    <3> QED
      BY <3>2 DEF SealInv, ClaimsAreRecorded, UnownedIsOver
  <2>4. ASSUME NEW n \in Int, n <= job.current_round, i = job.current_round => n # i
        PROVE  n <= i /\ n # i
    <3>1. i = job.current_round \/ i = job.current_round + 1
      OBVIOUS
    <3> QED
      BY ONLY <1>2, <2>4, <3>1, NotReached
  <2>5. ASSUME NEW w \in Round
        PROVE  handled[w] \in Int /\ handled[w] <= i /\ handled[w] # i
    BY <2>1, <2>3, <2>4
  <2>6. ASSUME NEW k \in unowned
        PROVE  k \in Int /\ k <= i /\ k # i
    BY <2>2, <2>3, <2>4
  <2> QED
    BY <2>5, <2>6
<1>4. ClaimsAreRecorded'
  <2> SUFFICES ASSUME NEW w \in Round
               PROVE  worker'[w] \in Session => job'.rounds[handled[w]].worker = w
    BY <1>1, <1>3 DEF ClaimsAreRecorded
  <2>1. worker'[w] \in Session => handled[w] \in Round /\ job.rounds[handled[w]].worker = w
    BY <1>1 DEF IInv, SessionIsRecorded, SealInv, ClaimsAreRecorded
  <2> QED
    BY <1>1, <1>3, <2>1
<1>5. ReviewedIsClaimed' /\ UnownedIsOver' /\ AcceptedIsSealed'
  BY <1>1, <1>3 DEF ReviewedIsClaimed, UnownedIsOver, AcceptedIsSealed
<1>6. ClosedForGood'
  <2> SUFFICES ASSUME NEW c \in Command, command'[c].at \in {"waiting", "confirming", "closed"}
               PROVE  command'[c].expected <= i /\ command'[c].expected # i
    BY <1>1 DEF ClosedForGood
  <2>1. /\ command[c].at \in {"waiting", "confirming", "closed"}
        /\ command'[c].expected = command[c].expected
    BY DEF CommandGoesOn
  <2>2. /\ command[c].expected <= job.current_round
        /\ command[c].expected = job.current_round => Current.claim_consumed
    BY <2>1 DEF SealInv, ClosedForGood
  <2>3. command[c].expected \in Int
    BY CommandType, RoundType DEF IInv, CommandState
  <2> QED
    BY <1>2, <2>1, <2>2, <2>3
<1> QED
  BY <1>4, <1>5, <1>6 DEF SealInv

LEMMA StartSeal ==
  ASSUME IInv, SealInv, NEW outcome \in LaunchOutcome, cmd_start(outcome)
  PROVE  SealInv'
BY StartOpens, RecordTypes, CommandsRest, OpensSeal

LEMMA ReviseSeal ==
  ASSUME IInv, SealInv, NEW graceOver \in BOOLEAN, NEW outcome \in LaunchOutcome,
         NEW expected, MayRevise(Reconciled(graceOver), expected), NEW timeout \in Timeout,
         Relaunch(Reconciled(graceOver), timeout, outcome),
         \A c \in Command : CommandGoesOn(c), UNCHANGED <<handled, unowned>>
  PROVE  SealInv'
<1> DEFINE rec == Reconciled(graceOver)
<1>1. /\ rec \in JobRecords /\ rec.current_round = job.current_round
      /\ rec.rounds = job.rounds /\ rec.sdk_worker = job.sdk_worker
      /\ rec.sdk_claude = job.sdk_claude
  BY ReconciledType DEF IInv
<1>2. MayRevise(rec, expected) /\ Relaunch(rec, timeout, outcome)
  OBVIOUS
<1> HIDE DEF rec
<1>3. Opens(job.current_round + 1) /\ job.current_round + 1 \in Round
  BY <1>1, <1>2, RelaunchOpens
<1> QED
  BY <1>3, OpensSeal

LEMMA CmdReviseSeal ==
  ASSUME IInv, SealInv, NEW graceOver \in BOOLEAN, NEW outcome \in LaunchOutcome,
         cmd_revise(graceOver, outcome)
  PROVE  SealInv'
BY CommandsRest, ReviseSeal DEF cmd_revise

LEMMA ReviseClosedSeal ==
  ASSUME IInv, SealInv, NEW c \in Command, NEW outcome \in LaunchOutcome, ReviseClosed(c, outcome)
  PROVE  SealInv'
<1>1. /\ TypeOK /\ job.phase # ABSENT /\ UNCHANGED <<handled, cli, unowned>>
      /\ command' = [command EXCEPT ![c] = IdleCommand]
  BY BegunExists DEF IInv, ReviseClosed
<1>2. \A d \in Command : CommandGoesOn(d)
  BY <1>1, OneCommandGoesOn DEF TypeOK, IdleCommand
<1>3. PICK graceOver \in BOOLEAN, timeout \in Timeout :
        LET seen == Reconciled(graceOver)
        IN  IF MayRevise(seen, command[c].expected) THEN Relaunch(seen, timeout, outcome)
            ELSE job' = seen /\ UNCHANGED worker
  BY DEF ReviseClosed
<1>4. CASE MayRevise(Reconciled(graceOver), command[c].expected)
  BY <1>1, <1>2, <1>3, <1>4, ReviseSeal
<1>5. CASE ~MayRevise(Reconciled(graceOver), command[c].expected)
  BY <1>1, <1>2, <1>3, <1>5, ReconciledFlags, ReconciledPhase, RetreatsRefl, SameRoundsSeal
<1> QED
  BY <1>4, <1>5

LEMMA InitSeal == Init => SealInv
<1> SUFFICES ASSUME Init PROVE SealInv
  OBVIOUS
<1>1. /\ job.current_round = 0 /\ job.phase = ABSENT /\ unowned = {}
      /\ \A w \in Round : worker[w] = "none" /\ handled[w] = NoRound
      /\ \A c \in Command : command[c].at = "idle"
  BY DEF Init, IdleCommand
<1>2. ClaimsAreRecorded
  BY <1>1, StateType DEF ClaimsAreRecorded, NoRound
<1> QED
  BY <1>1, <1>2 DEF SealInv, ReviewedIsClaimed, UnownedIsOver, ClosedForGood, AcceptedIsSealed, ABSENT

LEMMA NextSeal == IInv /\ SealInv /\ [Next]_vars => SealInv'
<1> SUFFICES ASSUME IInv, SealInv, [Next]_vars PROVE SealInv'
  OBVIOUS
<1>1. CASE \E outcome \in LaunchOutcome : cmd_start(outcome)
  BY <1>1, StartSeal
<1>2. CASE \E graceOver \in BOOLEAN : cmd_status(graceOver)
  BY <1>2, StatusSeal
<1>3. CASE \E graceOver \in BOOLEAN, outcome \in LaunchOutcome : cmd_revise(graceOver, outcome)
  BY <1>3, CmdReviseSeal
<1>4. ASSUME NEW c \in Command,
             \/ ScopeChanged(c)
             \/ \E does \in {"accept", "revise"} : Fence(c, does)
             \/ CloseStep(c)
             \/ RequestStop(c) \/ Signal(c) \/ FinishStop(c) \/ CommandDies(c)
      PROVE  SealInv'
  BY <1>4, ScopeChangedSeal, FenceSeal, WaitingSeal, ConfirmSeal, AcceptSeal, ReviseClosedSeal,
     RequestStopSeal, SignalSeal, FinishStopSeal DEF CloseStep
<1>5. ASSUME NEW w \in Round,
             WorkerStep(w) \/ BootFails(w) \/ IdleOutput(w) \/ WorkerDies(w) \/ CliExits(w)
      PROVE  SealInv'
  BY <1>5, ClaimRoundSeal, LaunchingSeal, EndOfRoundSeal, SystemSeal, BootFailsSeal,
     IdleOutputSeal DEF WorkerStep, Proceeds, EndsRound
<1>6. CASE UNCHANGED vars
  BY <1>6, RetreatsRefl, CommandsRest, SameRoundsSeal DEF vars, SameRounds
<1> QED
  BY <1>1, <1>2, <1>3, <1>4, <1>5, <1>6 DEF Next

-----------------------------------------------------------------------------
(* The theorems.                                                           *)

LEMMA InitIInv == Init => IInv
<1> SUFFICES ASSUME Init PROVE IInv
  OBVIOUS
<1> DEFINE rounds == [i \in Round |-> NewRound]
<1>1. TypeOK
  <2>1. rounds \in [Round -> RoundRecord]
    BY NewRoundType
  <2>2. job = [phase |-> ABSENT, current_round |-> 0, stop_requested |-> FALSE,
               timeout |-> "unlimited",
               sdk_worker |-> NoProcess, sdk_claude |-> NoProcess, sdk_closing |-> FALSE,
               rounds |-> rounds]
    BY DEF Init
  <2> HIDE DEF rounds
  <2>3. job \in JobRecords
    BY <2>1, <2>2, RoundType DEF JobRecords, Process, Timeout
  <2>4. IdleCommand \in CommandState
    BY DEF IdleCommand, CommandState, Process
  <2> QED
    BY <2>3, <2>4, StateType DEF Init, TypeOK
<1>2. /\ job.current_round = 0 /\ \A i \in Round : job.rounds[i] = NewRound
      /\ \A w \in Round : worker[w] = "none"
      /\ \A c \in Command : command[c].at = "idle"
  BY DEF Init, IdleCommand
<1>3. /\ Current = NewRound /\ ~NewRound.finalized /\ NewRound.verification = "none"
  BY <1>2, RoundType DEF Current, NewRound
<1>4. NotStarted /\ SessionIsRecorded /\ LaterRoundsHaveNoWorker /\ BootedRoundIsItsOwn
  BY <1>2, <1>3, RoundType, StateType
     DEF NotStarted, SessionIsRecorded, LaterRoundsHaveNoWorker, BootedRoundIsItsOwn
<1>5. WorkIsClaimed /\ UnclaimedIsOver /\ CliIsRecorded
  BY <1>2, <1>3, StateType DEF WorkIsClaimed, UnclaimedIsOver, CliIsRecorded
<1>6. VerifiedIsFinalized /\ VerifiedRoundNamesItsSession
  BY <1>2, <1>3 DEF VerifiedIsFinalized, VerifiedRoundNamesItsSession
<1> QED
  BY <1>1, <1>4, <1>5, <1>6 DEF IInv

LEMMA NextIInv == IInv /\ [Next]_vars => IInv'
<1> SUFFICES ASSUME IInv, [Next]_vars PROVE IInv'
  OBVIOUS
<1>1. CASE \E outcome \in LaunchOutcome : cmd_start(outcome)
  BY <1>1, StartInv
<1>2. CASE \E graceOver \in BOOLEAN : cmd_status(graceOver)
  BY <1>2, StatusInv
<1>3. CASE \E graceOver \in BOOLEAN, outcome \in LaunchOutcome : cmd_revise(graceOver, outcome)
  BY <1>3, CmdReviseInv
<1>4. ASSUME NEW c \in Command,
             \/ ScopeChanged(c)
             \/ \E does \in {"accept", "revise"} : Fence(c, does)
             \/ CloseStep(c)
             \/ RequestStop(c) \/ Signal(c) \/ FinishStop(c) \/ CommandDies(c)
      PROVE  IInv'
  BY <1>4, ScopeChangedInv, FenceInv, CloseCommandInv, AcceptInv, ReviseClosedInv,
     RequestStopInv, SignalInv, FinishStopInv DEF CloseStep
<1>5. ASSUME NEW w \in Round,
             WorkerStep(w) \/ BootFails(w) \/ IdleOutput(w) \/ WorkerDies(w) \/ CliExits(w)
      PROVE  IInv'
  BY <1>5, ClaimRoundInv, PendLaunchInv, SpawnCliInv, RegisterCliInv, FinishRoundInv,
     FailRoundInv, SystemInv, BootFailsInv, IdleOutputInv DEF WorkerStep, Proceeds, EndsRound
<1>6. CASE UNCHANGED vars
  <2>1. /\ UNCHANGED <<job, worker, handled, cli, command, unowned>> /\ TypeOK
    BY <1>6 DEF vars, IInv
  <2>2. /\ unowned' \subseteq Round /\ cli' \in [Round -> {"none", "live", "gone"}]
        /\ worker' \in [Round -> WorkerState] /\ command' \in [Command -> CommandState]
    BY <2>1 DEF TypeOK
  <2> QED
    BY <2>1, <2>2, RetreatsRefl, QuietStep
<1> QED
  BY <1>1, <1>2, <1>3, <1>4, <1>5, <1>6 DEF Next

\* The inductive invariant of the session: who works, works on the claimed,
\* unfinalized current round of the job that names it.
THEOREM Inductive == Spec => []IInv
BY InitIInv, NextIInv, PTL DEF Spec

\* Every reachable state is well typed.
THEOREM TypeCorrect == Spec => []TypeOK
<1>1. IInv => TypeOK
  BY DEF IInv
<1> QED
  BY <1>1, Inductive, PTL

\* A job never has two workers past their claim (reuse_worker, claim_round).
THEOREM SessionsAreAlone == Spec => []OneSupervisedSession
<1>1. IInv => OneSupervisedSession
  BY DEF IInv, SessionIsRecorded, OneSupervisedSession
<1> QED
  BY <1>1, Inductive, PTL

\* A worker at work is on the current round, and that is not finalized.
THEOREM WorkIsCurrent == Spec => []WorkIsOnTheCurrentRound
<1>1. IInv => WorkIsOnTheCurrentRound
  BY DEF IInv, WorkIsClaimed, WorkIsOnTheCurrentRound
<1> QED
  BY <1>1, Inductive, PTL

\* A verified round names the worker and the CLI that did its work.
THEOREM VerifiedRoundsNameTheirSession == Spec => []VerifiedRoundNamesItsSession
<1>1. IInv => VerifiedRoundNamesItsSession
  BY DEF IInv
<1> QED
  BY <1>1, Inductive, PTL

\* An accepted round closed its session: no worker of the job is past its claim,
\* no recorded CLI lives, and the round's session said nothing after the seal.
THEOREM AcceptedRoundsAreSealed == Spec => []AcceptedIsSealed
<1>1. SealInv => AcceptedIsSealed
  BY DEF SealInv
<1> QED
  BY <1>1, InitSeal, NextSeal, Inductive, PTL DEF Spec
=============================================================================
