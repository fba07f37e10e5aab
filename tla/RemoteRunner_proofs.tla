-------------------------- MODULE RemoteRunner_proofs --------------------------
(***************************************************************************)
(* Safety of the Windows side of a remote task, for any set of requests,   *)
(* directories and receipt or reclaim commands.                            *)
(***************************************************************************)
EXTENDS RemoteRunner, TLAPS

-----------------------------------------------------------------------------
(* The shape of a step: one attempt of one request moves, one agent         *)
(* changes, one receipt is written.                                         *)

Moves(r, a, to) ==
  /\ runner' \in [Request -> [Attempt -> RunnerPc]]
  /\ \A q \in Request, b \in Attempt :
       runner'[q][b] = IF q = r /\ b = a THEN to ELSE runner[q][b]

Becomes(r, a, state) ==
  /\ agent' \in [Request -> [Attempt -> AgentState]]
  /\ \A q \in Request, b \in Attempt :
       agent'[q][b] = IF q = r /\ b = a THEN state ELSE agent[q][b]

LEMMA NestedUpdate ==
  ASSUME NEW S, NEW T, NEW U, NEW f \in [S -> [T -> U]], NEW x \in S, NEW y \in T, NEW v \in U,
         NEW g, g = [f EXCEPT ![x][y] = v]
  PROVE  /\ g \in [S -> [T -> U]]
         /\ \A p \in S, q \in T : g[p][q] = IF p = x /\ q = y THEN v ELSE f[p][q]
OBVIOUS

LEMMA RunnerMoves ==
  ASSUME TypeOK, NEW r \in Request, NEW a \in Attempt, NEW to \in RunnerPc,
         runner' = [runner EXCEPT ![r][a] = to]
  PROVE  Moves(r, a, to)
<1>1. runner \in [Request -> [Attempt -> RunnerPc]]
  BY DEF TypeOK
<1> QED
  BY ONLY <1>1, NestedUpdate, runner' = [runner EXCEPT ![r][a] = to] DEF Moves

LEMMA AgentBecomes ==
  ASSUME TypeOK, NEW r \in Request, NEW a \in Attempt, NEW state \in AgentState,
         agent' = [agent EXCEPT ![r][a] = state]
  PROVE  Becomes(r, a, state)
<1>1. agent \in [Request -> [Attempt -> AgentState]]
  BY DEF TypeOK, AgentState
<1> QED
  BY ONLY <1>1, NestedUpdate, agent' = [agent EXCEPT ![r][a] = state] DEF Becomes

-----------------------------------------------------------------------------
(* Typing.                                                                 *)

LEMMA InitType == Init => TypeOK
BY CwdAssumption DEF Init, TypeOK, Status, NoLock, LockRecord, RunnerPc, AgentState, Idle, CommandPc, CommandRecord

\* The runner's own writes: to receipt.json and to the lock of its directory.
LEMMA DispatchEffect ==
  ASSUME TypeOK, NEW r \in Request, NEW a \in Attempt, Dispatch(r, a)
  PROVE  /\ \E to \in RunnerPc : Moves(r, a, to)
         /\ \E state \in AgentState : Becomes(r, a, state)
         /\ \E status \in Status : receipt' = [receipt EXCEPT ![r] = status]
         /\ \E record \in LockRecord : lock' = [lock EXCEPT ![cwd[r]] = record]
         /\ UNCHANGED <<silent, command, snatched>>
<1>1. \E to \in RunnerPc : runner' = [runner EXCEPT ![r][a] = to]
  <2>1. CASE Heartbeat(r, a)
    <3>1. runner' = [runner EXCEPT ![r][a] = runner[r][a]] /\ runner[r][a] \in RunnerPc
      BY <2>1 DEF Heartbeat, TypeOK
    <3> QED
      BY <3>1
  <2>2. CASE ~Heartbeat(r, a)
    BY <2>2 DEF Dispatch, MakeJob, WriteAccepted, TakeLock, WriteOwner, PrepareFails, Spawn,
                SpawnUnverified, WriteStarting, NameProcess, StreamFails, Finish, UnlinkOwn,
                RemoveOwn, Goes, RunnerPc
  <2> QED
    BY <2>1, <2>2
<1>2. \E state \in AgentState : agent' = [agent EXCEPT ![r][a] = state]
  <2>1. agent = [agent EXCEPT ![r][a] = agent[r][a]] /\ agent[r][a] \in AgentState
    BY DEF TypeOK, AgentState
  <2>2. \/ agent' = agent
        \/ agent' = [agent EXCEPT ![r][a] = "live"]
        \/ agent' = [agent EXCEPT ![r][a] = "gone"]
        \/ agent' = [agent EXCEPT ![r][a] = "astray"]
    BY DEF Dispatch, MakeJob, WriteAccepted, TakeLock, WriteOwner, PrepareFails, Spawn,
           SpawnUnverified, WriteStarting, NameProcess, Heartbeat, StreamFails, Finish,
           UnlinkOwn, RemoveOwn
  <2> QED
    BY <2>1, <2>2 DEF AgentState
<1>3. \E status \in Status : receipt' = [receipt EXCEPT ![r] = status]
  <2>1. receipt = [receipt EXCEPT ![r] = receipt[r]] /\ receipt[r] \in Status
    BY DEF TypeOK
  <2>2. receipt' = receipt \/ \E status \in Status : Writes(r, status)
    BY DEF Dispatch, MakeJob, WriteAccepted, TakeLock, WriteOwner, PrepareFails, Spawn,
           SpawnUnverified, WriteStarting, NameProcess, Heartbeat, StreamFails, Finish,
           UnlinkOwn, RemoveOwn, Status, Outcome
  <2> QED
    BY <2>1, <2>2 DEF Writes
<1>4. \E record \in LockRecord : lock' = [lock EXCEPT ![cwd[r]] = record]
  <2> DEFINE d == cwd[r]
  <2>1. d \in Directory
    BY CwdAssumption
  <2>2. lock = [lock EXCEPT ![d] = lock[d]] /\ lock[d] \in LockRecord
    BY <2>1 DEF TypeOK
  <2>3. \/ lock' = lock
        \/ \E record \in {NoLock, EmptyLock, [held |-> TRUE, owner |-> r, process |-> FALSE],
                           [held |-> TRUE, owner |-> r, process |-> TRUE]} :
             lock' = [lock EXCEPT ![d] = record]
    BY DEF Dispatch, MakeJob, WriteAccepted, TakeLock, WriteOwner, PrepareFails, Spawn,
           SpawnUnverified, WriteStarting, NameProcess, Heartbeat, StreamFails, Finish,
           UnlinkOwn, RemoveOwn, Owned, Removed
  <2>4. {NoLock, EmptyLock, [held |-> TRUE, owner |-> r, process |-> FALSE],
         [held |-> TRUE, owner |-> r, process |-> TRUE]} \subseteq LockRecord
    BY DEF LockRecord, NoLock, EmptyLock
  <2> HIDE DEF d
  <2> QED
    BY <2>2, <2>3, <2>4 DEF d
<1>5. UNCHANGED <<silent, command, snatched>>
  BY DEF Dispatch, MakeJob, WriteAccepted, TakeLock, WriteOwner, PrepareFails, Spawn,
         SpawnUnverified, WriteStarting, NameProcess, Heartbeat, StreamFails, Finish,
         UnlinkOwn, RemoveOwn
<1> QED
  BY <1>1, <1>2, <1>3, <1>4, <1>5, RunnerMoves, AgentBecomes
LEMMA DispatchType ==
  ASSUME TypeOK, NEW r \in Request, NEW a \in Attempt, Dispatch(r, a)
  PROVE  TypeOK'
<1>1. PICK to \in RunnerPc, state \in AgentState, status \in Status, record \in LockRecord :
        /\ Moves(r, a, to) /\ Becomes(r, a, state)
        /\ receipt' = [receipt EXCEPT ![r] = status]
        /\ lock' = [lock EXCEPT ![cwd[r]] = record]
        /\ UNCHANGED <<silent, command, snatched>>
  BY DispatchEffect
<1> QED
  BY <1>1 DEF TypeOK, Moves, Becomes, AgentState

LEMMA EnvironmentType ==
  ASSUME TypeOK, NEW r \in Request, NEW a \in Attempt,
         CarrierLost(r, a) \/ AgentExits(r, a) \/ WindowPasses(r)
  PROVE  TypeOK'
<1>1. CASE CarrierLost(r, a)
  BY <1>1, RunnerMoves DEF CarrierLost, TypeOK, Moves, RunnerPc
<1>2. CASE AgentExits(r, a)
  BY <1>2, AgentBecomes DEF AgentExits, TypeOK, Becomes, AgentState
<1>3. CASE WindowPasses(r)
  BY <1>3 DEF WindowPasses, TypeOK
<1> QED
  BY <1>1, <1>2, <1>3

CommandStep(c) ==
  \/ \E r \in Request : QueryReceipt(c, r) \/ ReclaimLock(c, r)
  \/ Classify(c) \/ UnlinkReclaimed(c) \/ RemoveReclaimed(c)
  \/ RecordReclaim(c) \/ CommandDies(c)

LEMMA CommandType ==
  ASSUME TypeOK, CommandsStayRight, NEW c \in Command, CommandStep(c)
  PROVE  TypeOK'
<1> USE DEF Doing, Done, Idle, CommandPc
<1>0. command[c].pc # "idle" => command[c].request \in Request
  BY DEF CommandsStayRight, MayAct
<1>1. UNCHANGED <<runner, agent, silent>> /\ snatched' \subseteq Directory
  BY <1>0, CwdAssumption
     DEF TypeOK, CommandStep, QueryReceipt, ReclaimLock, Classify, UnlinkReclaimed, RemoveReclaimed,
         RecordReclaim, CommandDies
<1>2. command' \in [Command -> CommandRecord]
  <2>0. \A r \in Request : lock[cwd[r]].owner \in Request \cup {NoRequest}
    BY CwdAssumption DEF TypeOK, LockRecord
  <2>1. \E record \in CommandRecord : command' = [command EXCEPT ![c] = record]
    BY <1>0, <2>0 DEF CommandRecord, CommandStep, QueryReceipt, ReclaimLock, Classify, UnlinkReclaimed,
                RemoveReclaimed, RecordReclaim, CommandDies
  <2> QED
    BY <2>1 DEF TypeOK
<1>3. receipt' \in [Request -> Status]
  <2>1. receipt' = receipt \/ receipt' = [receipt EXCEPT ![command[c].request] = "killed_by_carrier_loss"]
    BY DEF CommandStep, QueryReceipt, ReclaimLock, Classify, UnlinkReclaimed,
           RemoveReclaimed, RecordReclaim, CommandDies, Writes
  <2> QED
    BY <2>1 DEF TypeOK, Status, Outcome
<1>4. lock' \in [Directory -> LockRecord]
  <2>1. \/ lock' = lock
        \/ lock' = [lock EXCEPT ![cwd[command[c].request]] = NoLock]
        \/ lock' = [lock EXCEPT ![cwd[command[c].request]] = EmptyLock]
    BY DEF CommandStep, QueryReceipt, ReclaimLock, Classify, UnlinkReclaimed,
           RemoveReclaimed, RecordReclaim, CommandDies, Removed
  <2>2. NoLock \in LockRecord /\ EmptyLock \in LockRecord
    BY DEF LockRecord, NoLock, EmptyLock
  <2>3. lock \in [Directory -> LockRecord]
    BY DEF TypeOK
  <2> QED
    BY ONLY <2>1, <2>2, <2>3
<1> QED
  BY <1>1, <1>2, <1>3, <1>4 DEF TypeOK

-----------------------------------------------------------------------------
(* What the receipts say (ReceiptInv).                                     *)

LEMMA InitReceiptInv == Init => ReceiptInv
<1> SUFFICES ASSUME Init PROVE ReceiptInv
  OBVIOUS
<1> QED
  BY InitType DEF Init, ReceiptInv, OneAttemptStarts, Started, RunnerLive, AgentFollowsRunner, AgentMayBe, AstrayMeansFailed,
     ReceiptFollowsRunner, ReceiptMayBe, SilentRunnersAreGone, CommandsStayRight, Idle, KilledIsSilent,
     OutcomeMeansOver, AgentGone

ReceiptParts ==
  /\ OneAttemptStarts
  /\ AgentFollowsRunner
  /\ AstrayMeansFailed
  /\ ReceiptFollowsRunner
  /\ SilentRunnersAreGone
  /\ CommandsStayRight
  /\ KilledIsSilent
  /\ OutcomeMeansOver

\* A step of the attempt that has the job: other attempts never started, so
\* the receipt and the agent are its own, and no command works on the request.
Advances(r, a, to, state, status) ==
  /\ runner[r][a] \in RunnerLive \/ (runner[r][a] = "unborn" /\ receipt[r] = "absent")
  /\ Moves(r, a, to) /\ Becomes(r, a, state)
  /\ receipt' = [receipt EXCEPT ![r] = status]
  /\ UNCHANGED <<silent, command>>
  /\ to # "unborn" /\ ReceiptMayBe(to, status) /\ AgentMayBe(to, state)
  /\ status \notin {"absent", "killed_by_carrier_loss"}
  /\ status = "completed_claimed" => state # "live"
  /\ state = "astray" => status = "failed"

LEMMA AdvanceReceipt ==
  ASSUME ReceiptInv, NEW r \in Request, NEW a \in Attempt,
         NEW to \in RunnerPc, NEW state \in AgentState, NEW status \in Status,
         Advances(r, a, to, state, status)
  PROVE  ReceiptParts'
<1> USE DEF ReceiptInv, Advances
<1>1. TypeOK /\ \A b \in Attempt : b # a => ~Started(r, b)
  BY DEF OneAttemptStarts, Started
<1>2. ~silent[r]
  BY DEF SilentRunnersAreGone
<1>3. \A q \in Request : q # r => receipt'[q] = receipt[q]
  BY <1>1 DEF TypeOK
<1>4. receipt'[r] = status
  BY <1>1 DEF TypeOK
<1>5. OneAttemptStarts'
  <2>1. \A q \in Request, b \in Attempt : q # r => Started(q, b)' = Started(q, b)
    BY DEF Started, Moves, Becomes
  <2>2. \A b \in Attempt : b # a => ~Started(r, b)'
    BY <1>1 DEF Started, Moves, Becomes
  <2> QED
    BY <1>3, <1>4, <2>1, <2>2 DEF OneAttemptStarts
<1>6. AgentFollowsRunner'
  BY DEF AgentFollowsRunner, AgentMayBe, Moves, Becomes
<1>7. ReceiptFollowsRunner'
  <2> SUFFICES ASSUME NEW q \in Request, NEW b \in Attempt
               PROVE  ReceiptMayBe(runner'[q][b], receipt'[q])
    BY DEF ReceiptFollowsRunner
  <2>1. CASE q # r
    BY <1>3, <2>1 DEF ReceiptFollowsRunner, Moves
  <2>2. CASE q = r /\ b = a
    BY <1>4, <2>2 DEF Moves
  <2>3. CASE q = r /\ b # a
    <3>1. runner'[q][b] = runner[r][b] /\ runner[r][b] \notin RunnerLive
      BY <1>1, <2>3 DEF Moves, Started
    <3> QED
      BY <3>1 DEF ReceiptMayBe, RunnerLive, RunnerPc
  <2> QED
    BY <2>1, <2>2, <2>3
<1>8. SilentRunnersAreGone'
  BY <1>2, <1>3 DEF SilentRunnersAreGone, Moves
<1>9. CommandsStayRight'
  BY <1>2, <1>3 DEF CommandsStayRight, MayAct, AgentGone, Becomes
<1>10. KilledIsSilent'
  BY <1>3, <1>4 DEF KilledIsSilent
<1>11. OutcomeMeansOver'
  BY <1>1, <1>3, <1>4 DEF OutcomeMeansOver, AgentGone, Started, Becomes
<1>12. AstrayMeansFailed'
  BY <1>1, <1>3, <1>4 DEF AstrayMeansFailed, Started, Becomes
<1> QED
  BY <1>12, <1>5, <1>6, <1>7, <1>8, <1>9, <1>10, <1>11 DEF ReceiptParts
LEMMA AgentStays ==
  ASSUME TypeOK, NEW r \in Request, NEW a \in Attempt, agent' = agent
  PROVE  agent[r][a] \in AgentState /\ Becomes(r, a, agent[r][a])
BY DEF TypeOK, AgentState, Becomes

LEMMA RunnerStays ==
  ASSUME TypeOK, NEW r \in Request, NEW a \in Attempt, runner' = runner
  PROVE  runner[r][a] \in RunnerPc /\ Moves(r, a, runner[r][a])
BY DEF TypeOK, Moves

LEMMA ReceiptStays ==
  ASSUME TypeOK, NEW r \in Request, receipt' = receipt
  PROVE  receipt[r] \in Status /\ receipt' = [receipt EXCEPT ![r] = receipt[r]]
BY DEF TypeOK

\* What is known of the attempt before its step.
Before(r, a) ==
  /\ TypeOK
  /\ runner[r][a] \in RunnerPc /\ agent[r][a] \in AgentState /\ receipt[r] \in Status
  /\ ReceiptMayBe(runner[r][a], receipt[r]) /\ AgentMayBe(runner[r][a], agent[r][a])
  /\ agent[r][a] = "astray" => receipt[r] = "failed"

LEMMA BeforeStep ==
  ASSUME ReceiptInv, NEW r \in Request, NEW a \in Attempt
  PROVE  Before(r, a)
BY DEF ReceiptInv, TypeOK, AgentState, AgentFollowsRunner, AstrayMeansFailed, ReceiptFollowsRunner, Before

\* Every step of dispatch but two is such an advance: an attempt that finds the
\* job directory made just leaves.
LEMMA DispatchAdvances ==
  ASSUME NEW r \in Request, NEW a \in Attempt, Before(r, a), Dispatch(r, a),
         ~(MakeJob(r, a) /\ receipt[r] # "absent")
  PROVE  \E to \in RunnerPc, state \in AgentState, status \in Status :
           Advances(r, a, to, state, status)
<1> USE DEF Before, ReceiptMayBe, AgentMayBe
<1>0. UNCHANGED <<silent, command>>
  BY DispatchEffect
<1>1. CASE MakeJob(r, a)
  <2>1. Moves(r, a, "made")
    BY <1>1, RunnerMoves DEF MakeJob, JobIsNew, Goes, RunnerPc
  <2>2. Advances(r, a, "made", agent[r][a], "unwritten")
    BY <1>0, <1>1, <2>1, AgentStays DEF MakeJob, JobIsNew, Writes, Advances
  <2> QED
    BY <1>1, <2>2 DEF RunnerPc, Status
<1>2. CASE WriteAccepted(r, a)
  <2>1. Moves(r, a, "accepted")
    BY <1>2, RunnerMoves DEF WriteAccepted, Goes, RunnerPc
  <2>2. Advances(r, a, "accepted", agent[r][a], "accepted")
    BY <1>0, <1>2, <2>1, AgentStays
       DEF WriteAccepted, Goes, Writes, Advances, RunnerLive, RunnerPc
  <2> QED
    BY <2>2 DEF RunnerPc, AgentState, Status, Outcome
<1>3. CASE TakeLock(r, a) /\ LockIsFree(cwd[r])
  <2>1. Moves(r, a, "locked")
    BY <1>3, RunnerMoves DEF TakeLock, Goes, LockIsFree, RunnerPc
  <2>2. Advances(r, a, "locked", agent[r][a], receipt[r])
    BY <1>0, <1>3, <2>1, AgentStays, ReceiptStays
       DEF TakeLock, Goes, LockIsFree, Writes, Advances, RunnerLive, RunnerPc
  <2> QED
    BY <2>2 DEF RunnerPc, AgentState, Status, Outcome
<1>4. CASE TakeLock(r, a) /\ ~LockIsFree(cwd[r])
  <2>1. Moves(r, a, "gone")
    BY <1>4, RunnerMoves DEF TakeLock, Goes, LockIsFree, RunnerPc
  <2>2. Advances(r, a, "gone", agent[r][a], "cwd_busy")
    BY <1>0, <1>4, <2>1, AgentStays
       DEF TakeLock, Goes, LockIsFree, Writes, Advances, RunnerLive, RunnerPc
  <2> QED
    BY <2>2 DEF RunnerPc, AgentState, Status, Outcome
<1>5. CASE WriteOwner(r, a)
  <2>1. Moves(r, a, "owner")
    BY <1>5, RunnerMoves DEF WriteOwner, Goes, RunnerPc
  <2>2. Advances(r, a, "owner", agent[r][a], receipt[r])
    BY <1>0, <1>5, <2>1, AgentStays, ReceiptStays
       DEF WriteOwner, Goes, Writes, Advances, RunnerLive, RunnerPc
  <2> QED
    BY <2>2 DEF RunnerPc, AgentState, Status, Outcome
<1>6. CASE PrepareFails(r, a)
  <2>1. Moves(r, a, "releasing")
    BY <1>6, RunnerMoves DEF PrepareFails, Goes, RunnerPc
  <2>2. Advances(r, a, "releasing", agent[r][a], "failed")
    BY <1>0, <1>6, <2>1, AgentStays
       DEF PrepareFails, Goes, Writes, Advances, RunnerLive, RunnerPc
  <2> QED
    BY <2>2 DEF RunnerPc, AgentState, Status, Outcome
<1>7. CASE Spawn(r, a)
  <2>1. Moves(r, a, "spawned")
    BY <1>7, RunnerMoves DEF Spawn, Goes, RunnerPc
  <2>2. Becomes(r, a, "live")
    BY <1>7, AgentBecomes DEF Spawn, AgentState
  <2>3. Advances(r, a, "spawned", "live", receipt[r])
    BY <1>0, <1>7, <2>1, <2>2, ReceiptStays
       DEF Spawn, Goes, Writes, Advances, RunnerLive, RunnerPc
  <2> QED
    BY <2>3 DEF RunnerPc, AgentState, Status, Outcome
<1>8. CASE SpawnUnverified(r, a)
  <2>1. Moves(r, a, "releasing")
    BY <1>8, RunnerMoves DEF SpawnUnverified, Goes, RunnerPc
  <2>2. PICK state \in {"gone", "astray"} : Becomes(r, a, state)
    BY <1>8, AgentBecomes DEF SpawnUnverified, AgentState
  <2>3. Advances(r, a, "releasing", state, "failed")
    BY <1>0, <1>8, <2>1, <2>2
       DEF SpawnUnverified, Goes, Writes, Advances, RunnerLive, RunnerPc
  <2> QED
    BY <2>3 DEF RunnerPc, AgentState, Status, Outcome
<1>9. CASE WriteStarting(r, a)
  <2>1. Moves(r, a, "started")
    BY <1>9, RunnerMoves DEF WriteStarting, Goes, RunnerPc
  <2>2. Advances(r, a, "started", agent[r][a], "starting")
    BY <1>0, <1>9, <2>1, AgentStays
       DEF WriteStarting, Goes, Writes, Advances, RunnerLive, RunnerPc
  <2> QED
    BY <2>2 DEF RunnerPc, AgentState, Status, Outcome
<1>10. CASE NameProcess(r, a)
  <2>1. Moves(r, a, "running")
    BY <1>10, RunnerMoves DEF NameProcess, Goes, RunnerPc
  <2>2. Advances(r, a, "running", agent[r][a], receipt[r])
    BY <1>0, <1>10, <2>1, AgentStays, ReceiptStays
       DEF NameProcess, Goes, Writes, Advances, RunnerLive, RunnerPc
  <2> QED
    BY <2>2 DEF RunnerPc, AgentState, Status, Outcome
<1>11. CASE Heartbeat(r, a)
  <2>1. Moves(r, a, runner[r][a])
    BY <1>11, RunnerStays DEF Heartbeat, Goes, RunnerPc
  <2>2. Advances(r, a, runner[r][a], agent[r][a], "running")
    BY <1>0, <1>11, <2>1, AgentStays
       DEF Heartbeat, Goes, Writes, Advances, RunnerLive, RunnerPc
  <2> QED
    BY <2>2 DEF RunnerPc, AgentState, Status, Outcome
<1>12. CASE StreamFails(r, a)
  <2>1. Moves(r, a, "failing")
    BY <1>12, RunnerMoves DEF StreamFails, Goes, RunnerPc
  <2>2. Advances(r, a, "failing", agent[r][a], "failed")
    BY <1>0, <1>12, <2>1, AgentStays
       DEF StreamFails, Goes, Writes, Advances, RunnerLive, RunnerPc
  <2> QED
    BY <2>2 DEF RunnerPc, AgentState, Status, Outcome
<1>13. CASE Finish(r, a)
  <2>1. Moves(r, a, "releasing")
    BY <1>13, RunnerMoves DEF Finish, RunnerPc
  <2>2. PICK status \in {"completed_claimed", "failed", "timed_out"} : Writes(r, status)
    BY <1>13 DEF Finish
  <2>3. Advances(r, a, "releasing", agent[r][a], status)
    BY <1>0, <1>13, <2>1, <2>2, AgentStays DEF Finish, Writes, Advances, RunnerLive, RunnerPc
  <2> QED
    BY <2>3 DEF RunnerPc, Status, Outcome
<1>14. CASE UnlinkOwn(r, a) /\ lock[cwd[r]].owner = r
  <2>1. Moves(r, a, "removing")
    BY <1>14, RunnerMoves DEF UnlinkOwn, Goes, RunnerPc
  <2>2. Advances(r, a, "removing", agent[r][a], receipt[r])
    BY <1>0, <1>14, <2>1, AgentStays, ReceiptStays
       DEF UnlinkOwn, Goes, Writes, Advances, RunnerLive, RunnerPc
  <2> QED
    BY <2>2 DEF RunnerPc, AgentState, Status, Outcome
<1>15. CASE UnlinkOwn(r, a) /\ lock[cwd[r]].owner # r
  <2>1. Moves(r, a, "gone")
    BY <1>15, RunnerMoves DEF UnlinkOwn, Goes, RunnerPc
  <2>2. Advances(r, a, "gone", agent[r][a], receipt[r])
    BY <1>0, <1>15, <2>1, AgentStays, ReceiptStays
       DEF UnlinkOwn, Goes, Writes, Advances, RunnerLive, RunnerPc
  <2> QED
    BY <2>2 DEF RunnerPc, AgentState, Status, Outcome
<1>16. CASE RemoveOwn(r, a)
  <2>1. Moves(r, a, "gone")
    BY <1>16, RunnerMoves DEF RemoveOwn, Goes, RunnerPc
  <2>2. Advances(r, a, "gone", agent[r][a], receipt[r])
    BY <1>0, <1>16, <2>1, AgentStays, ReceiptStays
       DEF RemoveOwn, Goes, Writes, Advances, RunnerLive, RunnerPc
  <2> QED
    BY <2>2 DEF RunnerPc, AgentState, Status, Outcome
<1> QED
  BY <1>1, <1>2, <1>3, <1>4, <1>5, <1>6, <1>7, <1>8, <1>9, <1>10, <1>11, <1>12, <1>13, <1>14, <1>15, <1>16 DEF Dispatch, MakeJob
LEMMA DispatchReceipt ==
  ASSUME ReceiptInv, NEW r \in Request, NEW a \in Attempt, Dispatch(r, a)
  PROVE  ReceiptInv'
<1>1. TypeOK'
  BY DispatchType DEF ReceiptInv
<1>2. ReceiptParts'
  <2>1. CASE MakeJob(r, a) /\ receipt[r] # "absent"
    <3>1. Moves(r, a, "gone") /\ UNCHANGED <<receipt, agent, silent, command>>
      BY <2>1, RunnerMoves DEF MakeJob, JobIsNew, Goes, RunnerPc, ReceiptInv
    <3>2. \A q \in Request, b \in Attempt :
            runner'[q][b] = runner[q][b] \/ runner'[q][b] = "gone"
      BY <3>1 DEF Moves
    <3> USE <3>1, <3>2 DEF ReceiptInv
    <3>3. OneAttemptStarts'
      BY DEF OneAttemptStarts, Started, RunnerLive
    <3>4. AgentFollowsRunner' /\ AstrayMeansFailed' /\ ReceiptFollowsRunner'
      BY DEF AgentFollowsRunner, AgentMayBe, AstrayMeansFailed, ReceiptFollowsRunner, ReceiptMayBe
    <3>5. SilentRunnersAreGone'
      BY DEF SilentRunnersAreGone, RunnerLive
    <3>6. CommandsStayRight' /\ KilledIsSilent' /\ OutcomeMeansOver'
      BY DEF CommandsStayRight, MayAct, KilledIsSilent, OutcomeMeansOver, AgentGone
    <3> QED
      BY <3>3, <3>4, <3>5, <3>6 DEF ReceiptParts
  <2>2. CASE ~(MakeJob(r, a) /\ receipt[r] # "absent")
    BY <2>2, BeforeStep, DispatchAdvances, AdvanceReceipt
  <2> QED
    BY <2>1, <2>2
<1> QED
  BY <1>1, <1>2 DEF ReceiptInv, ReceiptParts

LEMMA EnvironmentReceipt ==
  ASSUME ReceiptInv, NEW r \in Request, NEW a \in Attempt,
         CarrierLost(r, a) \/ AgentExits(r, a) \/ WindowPasses(r)
  PROVE  ReceiptInv'
<1> USE DEF ReceiptInv
<1>0. TypeOK'
  BY EnvironmentType
<1>1. CASE CarrierLost(r, a)
  <2>1. Moves(r, a, "gone") /\ UNCHANGED <<receipt, agent, silent, command>>
    BY <1>1, RunnerMoves DEF CarrierLost, RunnerPc
  <2>2. \A q \in Request, b \in Attempt :
          runner'[q][b] = runner[q][b] \/ runner'[q][b] = "gone"
    BY <2>1 DEF Moves
  <2> USE <2>1, <2>2
  <2>3. OneAttemptStarts'
    BY DEF OneAttemptStarts, Started, RunnerLive
  <2>4. AgentFollowsRunner' /\ AstrayMeansFailed' /\ ReceiptFollowsRunner'
    BY DEF AgentFollowsRunner, AgentMayBe, AstrayMeansFailed, ReceiptFollowsRunner, ReceiptMayBe
  <2>5. SilentRunnersAreGone'
    BY DEF SilentRunnersAreGone, RunnerLive
  <2>6. CommandsStayRight' /\ KilledIsSilent' /\ OutcomeMeansOver'
    BY DEF CommandsStayRight, MayAct, KilledIsSilent, OutcomeMeansOver, AgentGone
  <2> QED
    BY <1>0, <2>3, <2>4, <2>5, <2>6
<1>2. CASE AgentExits(r, a)
  <2>1. Becomes(r, a, "gone") /\ agent[r][a] \in {"live", "astray"} /\ UNCHANGED <<receipt, runner, silent, command>>
    BY <1>2, AgentBecomes DEF AgentExits, AgentState
  <2>2. \A q \in Request, b \in Attempt :
          \/ agent'[q][b] = agent[q][b]
          \/ agent[q][b] \in {"live", "astray"} /\ agent'[q][b] = "gone"
    BY <2>1 DEF Becomes
  <2> USE <2>1, <2>2
  <2>3. OneAttemptStarts'
    BY DEF OneAttemptStarts, Started
  <2>4. AgentFollowsRunner' /\ AstrayMeansFailed' /\ ReceiptFollowsRunner'
    BY DEF AgentFollowsRunner, AgentMayBe, AstrayMeansFailed, ReceiptFollowsRunner
  <2>5. SilentRunnersAreGone' /\ KilledIsSilent'
    BY DEF SilentRunnersAreGone, KilledIsSilent
  <2>6. CommandsStayRight' /\ OutcomeMeansOver'
    BY DEF CommandsStayRight, MayAct, OutcomeMeansOver, AgentGone
  <2> QED
    BY <1>0, <2>3, <2>4, <2>5, <2>6
<1>3. CASE WindowPasses(r)
  <2> USE <1>3 DEF WindowPasses
  <2>1. /\ OneAttemptStarts' /\ AgentFollowsRunner' /\ AstrayMeansFailed'
        /\ ReceiptFollowsRunner' /\ OutcomeMeansOver'
    BY DEF AstrayMeansFailed, OneAttemptStarts, Started, AgentFollowsRunner, ReceiptFollowsRunner, OutcomeMeansOver,
           AgentGone
  <2>2. silent' \in [Request -> BOOLEAN] /\ \A q \in Request : silent'[q] = (silent[q] \/ q = r)
    BY DEF TypeOK
  <2>3. SilentRunnersAreGone'
    BY <2>2 DEF SilentRunnersAreGone
  <2>4. CommandsStayRight' /\ KilledIsSilent'
    BY <2>2 DEF CommandsStayRight, MayAct, KilledIsSilent, AgentGone
  <2> QED
    BY <1>0, <2>1, <2>3, <2>4
<1> QED
  BY <1>1, <1>2, <1>3

LEMMA CommandReceipt ==
  ASSUME ReceiptInv, NEW c \in Command, CommandStep(c)
  PROVE  ReceiptInv'
<1> USE DEF ReceiptInv
<1>0. TypeOK'
  BY CommandType
<1>1. UNCHANGED <<runner, agent, silent>>
  BY DEF CommandStep, QueryReceipt, ReclaimLock, Classify, UnlinkReclaimed, RemoveReclaimed,
         RecordReclaim, CommandDies
<1>2. \/ receipt' = receipt
      \/ /\ command[c].pc # "idle"
         /\ receipt' = [receipt EXCEPT ![command[c].request] = "killed_by_carrier_loss"]
         /\ command' = [command EXCEPT ![c] = Idle]
  BY DEF CommandStep, QueryReceipt, ReclaimLock, Classify, UnlinkReclaimed,
         RemoveReclaimed, RecordReclaim, CommandDies, Writes, Done
<1>3. \A r \in Request :
        \/ receipt'[r] = receipt[r]
        \/ /\ receipt'[r] = "killed_by_carrier_loss" /\ silent[r] /\ AgentGone(r)
  BY <1>2 DEF CommandsStayRight, MayAct, TypeOK
<1>4. /\ \A other \in Command : other # c => command'[other] = command[other]
      /\ command'[c].pc # "idle" =>
           receipt' = receipt /\ MayAct(command'[c].request, command'[c].pc)
  <2> USE DEF Doing, Done, Idle
  <2>0. command[c].pc # "idle" => MayAct(command[c].request, command[c].pc)
    BY DEF CommandsStayRight
  <2>1. ASSUME NEW r \in Request, QueryReceipt(c, r)
        PROVE  <1>4!:
    BY <2>1 DEF QueryReceipt, Lost, MayAct, TypeOK
  <2>2. ASSUME NEW r \in Request, ReclaimLock(c, r)
        PROVE  <1>4!:
    BY <2>2 DEF ReclaimLock, Reclaimable, MayAct, TypeOK
  <2>3. CASE Classify(c) \/ RecordReclaim(c) \/ CommandDies(c)
    BY <2>3 DEF Classify, RecordReclaim, CommandDies, TypeOK
  <2>4. CASE UnlinkReclaimed(c)
    BY <2>0, <2>4 DEF UnlinkReclaimed, MayAct, TypeOK
  <2>5. CASE RemoveReclaimed(c)
    BY <2>0, <2>5 DEF RemoveReclaimed, MayAct, TypeOK
  <2> QED
    BY <2>1, <2>2, <2>3, <2>4, <2>5 DEF CommandStep
<1>5. CommandsStayRight'
  BY <1>1, <1>3, <1>4 DEF CommandsStayRight, MayAct, AgentGone
<1>6. OneAttemptStarts' /\ AgentFollowsRunner' /\ AstrayMeansFailed'
  BY <1>1, <1>3 DEF OneAttemptStarts, Started, AgentFollowsRunner, AstrayMeansFailed, AgentGone
<1>7. ReceiptFollowsRunner'
  BY <1>1, <1>3 DEF ReceiptFollowsRunner, ReceiptMayBe, SilentRunnersAreGone, RunnerLive, RunnerPc
<1>8. SilentRunnersAreGone' /\ KilledIsSilent' /\ OutcomeMeansOver'
  BY <1>1, <1>3 DEF SilentRunnersAreGone, KilledIsSilent, OutcomeMeansOver, AgentGone
<1> QED
  BY <1>0, <1>5, <1>6, <1>7, <1>8
LEMMA NextSteps ==
  ASSUME Next
  PROVE  \/ \E r \in Request, a \in Attempt :
              Dispatch(r, a) \/ CarrierLost(r, a) \/ AgentExits(r, a) \/ WindowPasses(r)
         \/ \E c \in Command : CommandStep(c)
BY DEF Next, CommandStep, Attempt

LEMMA ReceiptStep == ReceiptInv /\ [Next]_vars => ReceiptInv'
<1> SUFFICES ASSUME ReceiptInv, [Next]_vars PROVE ReceiptInv'
  OBVIOUS
<1>1. CASE Next
  BY <1>1, NextSteps, DispatchReceipt, EnvironmentReceipt, CommandReceipt
<1>2. CASE UNCHANGED vars
  BY <1>2 DEF vars, ReceiptInv, TypeOK, OneAttemptStarts, Started, AgentFollowsRunner, AstrayMeansFailed,
              ReceiptFollowsRunner, SilentRunnersAreGone, CommandsStayRight, MayAct,
              KilledIsSilent, OutcomeMeansOver, AgentGone
<1> QED
  BY <1>1, <1>2

-----------------------------------------------------------------------------
(* Who has the lock of a directory that was not snatched (LockInv).        *)

LEMMA InitLockInv == Init => LockInv
<1> SUFFICES ASSUME Init PROVE LockInv
  OBVIOUS
<1>1. TypeOK /\ \A r \in Request : cwd[r] \in Directory
  BY InitType, CwdAssumption
<1> QED
  BY <1>1 DEF Init, LockInv, HoldersAreSingle, HolderIsOwner, OwnedLocksAreHeld, InLock, LockPc,
     ReclaimsValidateTheirOwn, ReclaimOwnsTheLock, Unlinked, Idle, NoLock, LiveAgentKeepsLock, Working

\* A step of an attempt writes the lock only while it has it, or to take a free
\* one, and its own agent only lives under its own name.
Locks(r, a, to, state, record) ==
  /\ Moves(r, a, to) /\ Becomes(r, a, state)
  /\ lock' = [lock EXCEPT ![cwd[r]] = record]
  /\ UNCHANGED <<silent, command, snatched>>
  /\ cwd[r] \notin snatched
  /\ record # lock[cwd[r]] =>
       /\ InLock(r, a) \/ ~lock[cwd[r]].held
       /\ runner[r][a] \in RunnerLive
       /\ record.owner # NoRequest => record.held
  /\ to \in LockPc =>
       /\ InLock(r, a) \/ ~lock[cwd[r]].held
       /\ record.held /\ record.owner = OwnerAt(r, to)
  /\ state = "live" => record.owner = r

LEMMA LocksKeepLock ==
  ASSUME ReceiptInv, LockInv, NEW r \in Request, NEW a \in Attempt,
         NEW to \in RunnerPc, NEW state \in AgentState, NEW record \in LockRecord,
         Locks(r, a, to, state, record)
  PROVE  LockInv'
<1> USE DEF Locks
<1>1. /\ TypeOK /\ cwd[r] \in Directory
      /\ \A d \in Directory : lock'[d] = IF d = cwd[r] THEN record ELSE lock[d]
  BY CwdAssumption DEF ReceiptInv, TypeOK
<1>2. \A q \in Request : cwd[q] \in Directory
  BY CwdAssumption
<1>3. /\ InLock(r, a)' <=> to \in LockPc
      /\ \A q \in Request, b \in Attempt :
           ~(q = r /\ b = a) => (InLock(q, b)' <=> InLock(q, b))
  BY DEF InLock, Moves
\* Whoever else is in this directory's lock keeps this step out of it.
<1>4. ASSUME NEW q \in Request, NEW b \in Attempt, InLock(q, b), cwd[q] = cwd[r], ~(q = r /\ b = a)
      PROVE  lock[cwd[r]].held /\ ~InLock(r, a) /\ record = lock[cwd[r]] /\ to \notin LockPc
  BY <1>4 DEF LockInv, HoldersAreSingle, HolderIsOwner
<1>5. HoldersAreSingle'
  <2> SUFFICES ASSUME NEW p \in Request, NEW q \in Request, NEW b \in Attempt, NEW d \in Attempt,
                      InLock(p, b)', InLock(q, d)', cwd[p] = cwd[q]
               PROVE  p = q /\ b = d
    BY DEF HoldersAreSingle
  <2> QED
    BY <1>3, <1>4 DEF LockInv, HoldersAreSingle
<1>6. HolderIsOwner'
  <2> SUFFICES ASSUME NEW q \in Request, NEW b \in Attempt, InLock(q, b)'
               PROVE  lock'[cwd[q]].held /\ lock'[cwd[q]].owner = OwnerAt(q, runner'[q][b])
    BY DEF HolderIsOwner
  <2>1. CASE q = r /\ b = a
    BY <1>1, <1>3, <2>1 DEF Moves
  <2>2. CASE ~(q = r /\ b = a)
    <3>1. runner'[q][b] = runner[q][b] /\ InLock(q, b)
      BY <1>3, <2>2 DEF Moves
    <3>2. lock'[cwd[q]] = lock[cwd[q]]
      BY <1>1, <1>2, <1>4, <2>2, <3>1
    <3> QED
      BY <3>1, <3>2 DEF LockInv, HolderIsOwner
  <2> QED
    BY <2>1, <2>2
<1>7. OwnedLocksAreHeld'
  BY <1>1 DEF LockInv, OwnedLocksAreHeld
<1>8. ReclaimsValidateTheirOwn' /\ ReclaimOwnsTheLock'
  <2>1. ASSUME NEW c \in Command, Unlinked(c, cwd[r])
        PROVE  record = lock[cwd[r]] /\ to \notin LockPc
    BY <1>1, <2>1 DEF LockInv, ReclaimOwnsTheLock
  <2>2. \A c \in Command, d \in Directory : Unlinked(c, d)' <=> Unlinked(c, d)
    BY DEF Unlinked
  <2>3. ASSUME NEW c \in Command, NEW d \in Directory \ snatched, Unlinked(c, d)
        PROVE  /\ lock'[d].held /\ lock'[d].owner = NoRequest
               /\ \A q \in Request, b \in Attempt : cwd[q] = d => ~InLock(q, b)'
               /\ \A other \in Command : Unlinked(other, d) => other = c
    <3>1. lock'[d] = lock[d]
      BY <1>1, <2>1, <2>3
    <3>2. \A q \in Request, b \in Attempt : cwd[q] = d => ~InLock(q, b)'
      BY <1>3, <2>1, <2>3 DEF LockInv, ReclaimOwnsTheLock
    <3> QED
      BY <2>3, <3>1, <3>2 DEF LockInv, ReclaimOwnsTheLock
  <2> QED
    BY <2>2, <2>3 DEF LockInv, ReclaimsValidateTheirOwn, ReclaimOwnsTheLock
<1>9. LiveAgentKeepsLock'
  <2> SUFFICES ASSUME NEW q \in Request, NEW b \in Attempt, Working(q, b)'
               PROVE  lock'[cwd[q]].owner = q
    BY DEF LiveAgentKeepsLock
  <2>1. CASE q = r /\ b = a
    BY <1>1, <2>1 DEF Working, Becomes
  <2>2. CASE ~(q = r /\ b = a)
    <3>1. Working(q, b) /\ lock[cwd[q]].owner = q /\ lock[cwd[q]].held
      BY <1>2, <2>2, NoRequestAssumption
         DEF Working, Becomes, LockInv, LiveAgentKeepsLock, OwnedLocksAreHeld
    <3>2. ASSUME record # lock[cwd[r]], cwd[q] = cwd[r]
          PROVE  FALSE
      <4>1. InLock(r, a) /\ runner[r][a] \in RunnerLive
        BY <3>1, <3>2
      <4>2. q = r
        BY <3>1, <3>2, <4>1, NoRequestAssumption DEF LockInv, HolderIsOwner, OwnerAt
      <4> QED
        BY <2>2, <3>1, <4>1, <4>2 DEF ReceiptInv, OneAttemptStarts, Started, Working
    <3> QED
      BY <1>1, <1>2, <3>1, <3>2
  <2> QED
    BY <2>1, <2>2
<1> QED
  BY <1>5, <1>6, <1>7, <1>8, <1>9 DEF LockInv
LEMMA LockStays ==
  ASSUME TypeOK, NEW r \in Request, lock' = lock
  PROVE  lock[cwd[r]] \in LockRecord /\ lock' = [lock EXCEPT ![cwd[r]] = lock[cwd[r]]]
BY CwdAssumption DEF TypeOK

\* Every step of dispatch is such a step, unless its directory was snatched.
LEMMA DispatchLocks ==
  ASSUME NEW r \in Request, NEW a \in Attempt, Before(r, a), Dispatch(r, a),
         cwd[r] \notin snatched,
         InLock(r, a) => lock[cwd[r]].held /\ lock[cwd[r]].owner = OwnerAt(r, runner[r][a])
  PROVE  \E to \in RunnerPc, state \in AgentState, record \in LockRecord :
           Locks(r, a, to, state, record)
<1> USE DEF Before, AgentMayBe
<1>0. UNCHANGED <<silent, command, snatched>>
  BY DispatchEffect
<1>1. CASE MakeJob(r, a) /\ JobIsNew(r)
  <2>1. Moves(r, a, "made")
    BY <1>1, RunnerMoves DEF MakeJob, Goes, JobIsNew, RunnerPc
  <2>2. agent[r][a] \in AgentState /\ Becomes(r, a, agent[r][a])
    BY <1>1, AgentStays DEF MakeJob, Goes, JobIsNew
  <2>3. lock[cwd[r]] \in LockRecord /\ lock' = [lock EXCEPT ![cwd[r]] = lock[cwd[r]]]
    BY <1>1, LockStays DEF MakeJob, Goes, JobIsNew
  <2>4. Locks(r, a, "made", agent[r][a], lock[cwd[r]])
    BY <1>0, <1>1, <2>1, <2>2, <2>3
       DEF MakeJob, Goes, JobIsNew, Locks, InLock, LockPc, OwnerAt, RunnerLive, RunnerPc
  <2> QED
    BY <2>1, <2>2, <2>3, <2>4 DEF RunnerPc
<1>2. CASE MakeJob(r, a) /\ ~JobIsNew(r)
  <2>1. Moves(r, a, "gone")
    BY <1>2, RunnerMoves DEF MakeJob, Goes, JobIsNew, RunnerPc
  <2>2. agent[r][a] \in AgentState /\ Becomes(r, a, agent[r][a])
    BY <1>2, AgentStays DEF MakeJob, Goes, JobIsNew
  <2>3. lock[cwd[r]] \in LockRecord /\ lock' = [lock EXCEPT ![cwd[r]] = lock[cwd[r]]]
    BY <1>2, LockStays DEF MakeJob, Goes, JobIsNew
  <2>4. Locks(r, a, "gone", agent[r][a], lock[cwd[r]])
    BY <1>0, <1>2, <2>1, <2>2, <2>3
       DEF MakeJob, Goes, JobIsNew, Locks, InLock, LockPc, OwnerAt, RunnerLive, RunnerPc
  <2> QED
    BY <2>1, <2>2, <2>3, <2>4 DEF RunnerPc
<1>3. CASE WriteAccepted(r, a)
  <2>1. Moves(r, a, "accepted")
    BY <1>3, RunnerMoves DEF WriteAccepted, Goes, RunnerPc
  <2>2. agent[r][a] \in AgentState /\ Becomes(r, a, agent[r][a])
    BY <1>3, AgentStays DEF WriteAccepted, Goes
  <2>3. lock[cwd[r]] \in LockRecord /\ lock' = [lock EXCEPT ![cwd[r]] = lock[cwd[r]]]
    BY <1>3, LockStays DEF WriteAccepted, Goes
  <2>4. Locks(r, a, "accepted", agent[r][a], lock[cwd[r]])
    BY <1>0, <1>3, <2>1, <2>2, <2>3
       DEF WriteAccepted, Goes, Locks, InLock, LockPc, OwnerAt, RunnerLive, RunnerPc
  <2> QED
    BY <2>1, <2>2, <2>3, <2>4 DEF RunnerPc
<1>4. CASE TakeLock(r, a) /\ LockIsFree(cwd[r])
  <2>1. Moves(r, a, "locked")
    BY <1>4, RunnerMoves DEF TakeLock, Goes, LockIsFree, RunnerPc
  <2>2. agent[r][a] \in AgentState /\ Becomes(r, a, agent[r][a])
    BY <1>4, AgentStays DEF TakeLock, Goes, LockIsFree
  <2>3. EmptyLock \in LockRecord /\ lock' = [lock EXCEPT ![cwd[r]] = EmptyLock]
    BY <1>4 DEF TakeLock, Goes, LockIsFree, LockRecord, EmptyLock
  <2>4. Locks(r, a, "locked", agent[r][a], EmptyLock)
    BY <1>0, <1>4, <2>1, <2>2, <2>3
       DEF TakeLock, Goes, LockIsFree, Locks, InLock, LockPc, OwnerAt, RunnerLive, RunnerPc, EmptyLock
  <2> QED
    BY <2>1, <2>2, <2>3, <2>4 DEF RunnerPc
<1>5. CASE TakeLock(r, a) /\ ~LockIsFree(cwd[r])
  <2>1. Moves(r, a, "gone")
    BY <1>5, RunnerMoves DEF TakeLock, Goes, LockIsFree, RunnerPc
  <2>2. agent[r][a] \in AgentState /\ Becomes(r, a, agent[r][a])
    BY <1>5, AgentStays DEF TakeLock, Goes, LockIsFree
  <2>3. lock[cwd[r]] \in LockRecord /\ lock' = [lock EXCEPT ![cwd[r]] = lock[cwd[r]]]
    BY <1>5, LockStays DEF TakeLock, Goes, LockIsFree
  <2>4. Locks(r, a, "gone", agent[r][a], lock[cwd[r]])
    BY <1>0, <1>5, <2>1, <2>2, <2>3
       DEF TakeLock, Goes, LockIsFree, Locks, InLock, LockPc, OwnerAt, RunnerLive, RunnerPc
  <2> QED
    BY <2>1, <2>2, <2>3, <2>4 DEF RunnerPc
<1>6. CASE WriteOwner(r, a)
  <2>1. Moves(r, a, "owner")
    BY <1>6, RunnerMoves DEF WriteOwner, Goes, RunnerPc
  <2>2. agent[r][a] \in AgentState /\ Becomes(r, a, agent[r][a])
    BY <1>6, AgentStays DEF WriteOwner, Goes
  <2>3. [held |-> TRUE, owner |-> r, process |-> FALSE] \in LockRecord /\ lock' = [lock EXCEPT ![cwd[r]] = [held |-> TRUE, owner |-> r, process |-> FALSE]]
    BY <1>6 DEF WriteOwner, Goes, LockRecord, Owned
  <2>4. Locks(r, a, "owner", agent[r][a], [held |-> TRUE, owner |-> r, process |-> FALSE])
    BY <1>0, <1>6, <2>1, <2>2, <2>3
       DEF WriteOwner, Goes, Locks, InLock, LockPc, OwnerAt, RunnerLive, RunnerPc
  <2> QED
    BY <2>1, <2>2, <2>3, <2>4 DEF RunnerPc
<1>7. CASE PrepareFails(r, a)
  <2>1. Moves(r, a, "releasing")
    BY <1>7, RunnerMoves DEF PrepareFails, Goes, RunnerPc
  <2>2. agent[r][a] \in AgentState /\ Becomes(r, a, agent[r][a])
    BY <1>7, AgentStays DEF PrepareFails, Goes
  <2>3. lock[cwd[r]] \in LockRecord /\ lock' = [lock EXCEPT ![cwd[r]] = lock[cwd[r]]]
    BY <1>7, LockStays DEF PrepareFails, Goes
  <2>4. Locks(r, a, "releasing", agent[r][a], lock[cwd[r]])
    BY <1>0, <1>7, <2>1, <2>2, <2>3
       DEF PrepareFails, Goes, Locks, InLock, LockPc, OwnerAt, RunnerLive, RunnerPc
  <2> QED
    BY <2>1, <2>2, <2>3, <2>4 DEF RunnerPc
<1>8. CASE Spawn(r, a)
  <2>1. Moves(r, a, "spawned")
    BY <1>8, RunnerMoves DEF Spawn, Goes, RunnerPc
  <2>2. "live" \in AgentState /\ Becomes(r, a, "live")
    BY <1>8, AgentBecomes DEF Spawn, Goes, AgentState
  <2>3. lock[cwd[r]] \in LockRecord /\ lock' = [lock EXCEPT ![cwd[r]] = lock[cwd[r]]]
    BY <1>8, LockStays DEF Spawn, Goes
  <2>4. Locks(r, a, "spawned", "live", lock[cwd[r]])
    BY <1>0, <1>8, <2>1, <2>2, <2>3
       DEF Spawn, Goes, Locks, InLock, LockPc, OwnerAt, RunnerLive, RunnerPc
  <2> QED
    BY <2>1, <2>2, <2>3, <2>4 DEF RunnerPc
<1>9. CASE SpawnUnverified(r, a)
  <2>1. Moves(r, a, "releasing")
    BY <1>9, RunnerMoves DEF SpawnUnverified, Goes, RunnerPc
  <2>2. PICK state \in {"gone", "astray"} : Becomes(r, a, state)
    BY <1>9, AgentBecomes DEF SpawnUnverified, Goes, AgentState
  <2>3. lock[cwd[r]] \in LockRecord /\ lock' = [lock EXCEPT ![cwd[r]] = lock[cwd[r]]]
    BY <1>9, LockStays DEF SpawnUnverified, Goes
  <2>4. Locks(r, a, "releasing", state, lock[cwd[r]])
    BY <1>0, <1>9, <2>1, <2>2, <2>3
       DEF SpawnUnverified, Goes, Locks, InLock, LockPc, OwnerAt, RunnerLive, RunnerPc
  <2> QED
    BY <2>1, <2>2, <2>3, <2>4 DEF RunnerPc, AgentState
<1>10. CASE WriteStarting(r, a)
  <2>1. Moves(r, a, "started")
    BY <1>10, RunnerMoves DEF WriteStarting, Goes, RunnerPc
  <2>2. agent[r][a] \in AgentState /\ Becomes(r, a, agent[r][a])
    BY <1>10, AgentStays DEF WriteStarting, Goes
  <2>3. lock[cwd[r]] \in LockRecord /\ lock' = [lock EXCEPT ![cwd[r]] = lock[cwd[r]]]
    BY <1>10, LockStays DEF WriteStarting, Goes
  <2>4. Locks(r, a, "started", agent[r][a], lock[cwd[r]])
    BY <1>0, <1>10, <2>1, <2>2, <2>3
       DEF WriteStarting, Goes, Locks, InLock, LockPc, OwnerAt, RunnerLive, RunnerPc
  <2> QED
    BY <2>1, <2>2, <2>3, <2>4 DEF RunnerPc
<1>11. CASE NameProcess(r, a)
  <2>1. Moves(r, a, "running")
    BY <1>11, RunnerMoves DEF NameProcess, Goes, RunnerPc
  <2>2. agent[r][a] \in AgentState /\ Becomes(r, a, agent[r][a])
    BY <1>11, AgentStays DEF NameProcess, Goes
  <2>3. [held |-> TRUE, owner |-> r, process |-> TRUE] \in LockRecord /\ lock' = [lock EXCEPT ![cwd[r]] = [held |-> TRUE, owner |-> r, process |-> TRUE]]
    BY <1>11 DEF NameProcess, Goes, LockRecord, Owned
  <2>4. Locks(r, a, "running", agent[r][a], [held |-> TRUE, owner |-> r, process |-> TRUE])
    BY <1>0, <1>11, <2>1, <2>2, <2>3
       DEF NameProcess, Goes, Locks, InLock, LockPc, OwnerAt, RunnerLive, RunnerPc
  <2> QED
    BY <2>1, <2>2, <2>3, <2>4 DEF RunnerPc
<1>12. CASE Heartbeat(r, a)
  <2>0. lock[cwd[r]].held
    BY <1>12 DEF Heartbeat, InLock, LockPc
  <2>1. Moves(r, a, runner[r][a])
    BY <1>12, RunnerStays DEF Heartbeat, Goes, RunnerPc
  <2>2. agent[r][a] \in AgentState /\ Becomes(r, a, agent[r][a])
    BY <1>12, AgentStays DEF Heartbeat, Goes
  <2>3. [held |-> TRUE, owner |-> r, process |-> TRUE] \in LockRecord /\ lock' = [lock EXCEPT ![cwd[r]] = [held |-> TRUE, owner |-> r, process |-> TRUE]]
    BY <1>12, <2>0 DEF Heartbeat, Goes, LockRecord, Owned
  <2>4. Locks(r, a, runner[r][a], agent[r][a], [held |-> TRUE, owner |-> r, process |-> TRUE])
    BY <1>0, <1>12, <2>1, <2>2, <2>3
       DEF Heartbeat, Goes, Locks, InLock, LockPc, OwnerAt, RunnerLive, RunnerPc
  <2> QED
    BY <2>1, <2>2, <2>3, <2>4 DEF RunnerPc
<1>13. CASE StreamFails(r, a)
  <2>1. Moves(r, a, "failing")
    BY <1>13, RunnerMoves DEF StreamFails, Goes, RunnerPc
  <2>2. agent[r][a] \in AgentState /\ Becomes(r, a, agent[r][a])
    BY <1>13, AgentStays DEF StreamFails, Goes
  <2>3. lock[cwd[r]] \in LockRecord /\ lock' = [lock EXCEPT ![cwd[r]] = lock[cwd[r]]]
    BY <1>13, LockStays DEF StreamFails, Goes
  <2>4. Locks(r, a, "failing", agent[r][a], lock[cwd[r]])
    BY <1>0, <1>13, <2>1, <2>2, <2>3
       DEF StreamFails, Goes, Locks, InLock, LockPc, OwnerAt, RunnerLive, RunnerPc
  <2> QED
    BY <2>1, <2>2, <2>3, <2>4 DEF RunnerPc
<1>14. CASE Finish(r, a)
  <2>1. Moves(r, a, "releasing")
    BY <1>14, RunnerMoves DEF Finish, Goes, RunnerPc
  <2>2. agent[r][a] \in AgentState /\ Becomes(r, a, agent[r][a])
    BY <1>14, AgentStays DEF Finish, Goes
  <2>3. lock[cwd[r]] \in LockRecord /\ lock' = [lock EXCEPT ![cwd[r]] = lock[cwd[r]]]
    BY <1>14, LockStays DEF Finish, Goes
  <2>4. Locks(r, a, "releasing", agent[r][a], lock[cwd[r]])
    BY <1>0, <1>14, <2>1, <2>2, <2>3
       DEF Finish, Goes, Locks, InLock, LockPc, OwnerAt, RunnerLive, RunnerPc
  <2> QED
    BY <2>1, <2>2, <2>3, <2>4 DEF RunnerPc
<1>15. CASE UnlinkOwn(r, a) /\ lock[cwd[r]].owner = r
  <2>1. Moves(r, a, "removing")
    BY <1>15, RunnerMoves DEF UnlinkOwn, Goes, RunnerPc
  <2>2. agent[r][a] \in AgentState /\ Becomes(r, a, agent[r][a])
    BY <1>15, AgentStays DEF UnlinkOwn, Goes
  <2>3. EmptyLock \in LockRecord /\ lock' = [lock EXCEPT ![cwd[r]] = EmptyLock]
    BY <1>15 DEF UnlinkOwn, Goes, LockRecord, EmptyLock
  <2>4. Locks(r, a, "removing", agent[r][a], EmptyLock)
    BY <1>0, <1>15, <2>1, <2>2, <2>3
       DEF UnlinkOwn, Goes, Locks, InLock, LockPc, OwnerAt, RunnerLive, RunnerPc, EmptyLock
  <2> QED
    BY <2>1, <2>2, <2>3, <2>4 DEF RunnerPc
<1>16. CASE UnlinkOwn(r, a) /\ lock[cwd[r]].owner # r
  <2>1. Moves(r, a, "gone")
    BY <1>16, RunnerMoves DEF UnlinkOwn, Goes, RunnerPc
  <2>2. agent[r][a] \in AgentState /\ Becomes(r, a, agent[r][a])
    BY <1>16, AgentStays DEF UnlinkOwn, Goes
  <2>3. lock[cwd[r]] \in LockRecord /\ lock' = [lock EXCEPT ![cwd[r]] = lock[cwd[r]]]
    BY <1>16, LockStays DEF UnlinkOwn, Goes
  <2>4. Locks(r, a, "gone", agent[r][a], lock[cwd[r]])
    BY <1>0, <1>16, <2>1, <2>2, <2>3
       DEF UnlinkOwn, Goes, Locks, InLock, LockPc, OwnerAt, RunnerLive, RunnerPc
  <2> QED
    BY <2>1, <2>2, <2>3, <2>4 DEF RunnerPc
<1>17. CASE RemoveOwn(r, a)
  <2>1. Moves(r, a, "gone")
    BY <1>17, RunnerMoves DEF RemoveOwn, Goes, RunnerPc
  <2>2. agent[r][a] \in AgentState /\ Becomes(r, a, agent[r][a])
    BY <1>17, AgentStays DEF RemoveOwn, Goes
  <2>3. NoLock \in LockRecord /\ lock' = [lock EXCEPT ![cwd[r]] = NoLock]
    BY <1>17 DEF RemoveOwn, Goes, LockRecord, Removed, NoLock, InLock, LockPc, OwnerAt
  <2>4. Locks(r, a, "gone", agent[r][a], NoLock)
    BY <1>0, <1>17, <2>1, <2>2, <2>3
       DEF RemoveOwn, Goes, Locks, InLock, LockPc, OwnerAt, RunnerLive, RunnerPc, NoLock
  <2> QED
    BY <2>1, <2>2, <2>3, <2>4 DEF RunnerPc
<1> QED
  BY <1>1, <1>2, <1>3, <1>4, <1>5, <1>6, <1>7, <1>8, <1>9, <1>10, <1>11, <1>12, <1>13, <1>14, <1>15, <1>16, <1>17 DEF Dispatch
\* What happens in a snatched directory is no matter to the others.
LEMMA SnatchedLock ==
  ASSUME ReceiptInv, LockInv, NEW r \in Request, NEW a \in Attempt, Dispatch(r, a),
         cwd[r] \in snatched
  PROVE  HoldersAreSingle' /\ HolderIsOwner' /\ ReclaimOwnsTheLock' /\ LiveAgentKeepsLock'
<1>1. PICK to \in RunnerPc, state \in AgentState, record \in LockRecord :
        /\ Moves(r, a, to) /\ Becomes(r, a, state)
        /\ lock' = [lock EXCEPT ![cwd[r]] = record]
        /\ UNCHANGED <<silent, command, snatched>>
  BY DispatchEffect DEF ReceiptInv
<1>2. \A d \in Directory \ snatched : lock'[d] = lock[d]
  BY <1>1 DEF ReceiptInv, TypeOK
<1>3. \A q \in Request, b \in Attempt :
        /\ cwd[q] \in Directory
        /\ InLock(q, b)' <=> InLock(q, b)
        /\ InLock(q, b) => runner'[q][b] = runner[q][b]
        /\ Working(q, b)' <=> Working(q, b)
        /\ InLock(q, b) \/ Working(q, b) => cwd[q] \notin snatched
  BY <1>1, CwdAssumption DEF InLock, Working, Moves, Becomes
<1>4. HoldersAreSingle' /\ HolderIsOwner' /\ LiveAgentKeepsLock'
  BY <1>2, <1>3 DEF LockInv, HoldersAreSingle, HolderIsOwner, LiveAgentKeepsLock
<1>5. ReclaimOwnsTheLock'
  <2>1. \A c \in Command, d \in Directory : Unlinked(c, d)' <=> Unlinked(c, d)
    BY <1>1 DEF Unlinked
  <2> QED
    BY <1>1, <1>2, <1>3, <2>1 DEF LockInv, ReclaimOwnsTheLock
<1> QED
  BY <1>4, <1>5

\* A lock with an owner.json is there, in a snatched directory too: whoever writes
\* the file finds the directory.
LEMMA DispatchHeld ==
  ASSUME ReceiptInv, LockInv, NEW r \in Request, NEW a \in Attempt, Dispatch(r, a)
  PROVE  OwnedLocksAreHeld' /\ ReclaimsValidateTheirOwn'
<1> DEFINE d == cwd[r]
<1>1. d \in Directory /\ TypeOK /\ UNCHANGED command
  BY CwdAssumption, DispatchEffect DEF ReceiptInv
<1>2. \/ lock' = lock
      \/ \E record \in {NoLock, EmptyLock, [held |-> TRUE, owner |-> r, process |-> FALSE],
                         [held |-> TRUE, owner |-> r, process |-> TRUE]} :
           lock' = [lock EXCEPT ![d] = record]
  BY DEF Dispatch, MakeJob, WriteAccepted, TakeLock, WriteOwner, PrepareFails, Spawn,
         SpawnUnverified, WriteStarting, NameProcess, Heartbeat, StreamFails, Finish,
         UnlinkOwn, RemoveOwn, Owned, Removed
<1>3. \A record \in {NoLock, EmptyLock, [held |-> TRUE, owner |-> r, process |-> FALSE],
                     [held |-> TRUE, owner |-> r, process |-> TRUE]} :
        record.owner # NoRequest => record.held
  BY DEF NoLock, EmptyLock
<1> HIDE DEF d
<1>4. OwnedLocksAreHeld'
  <2>1. CASE lock' = lock
    BY <2>1 DEF LockInv, OwnedLocksAreHeld
  <2>2. ASSUME NEW record, record.owner # NoRequest => record.held,
               lock' = [lock EXCEPT ![d] = record]
        PROVE  OwnedLocksAreHeld'
    <3>1. \A e \in Directory : lock'[e] = record \/ lock'[e] = lock[e]
      BY <1>1, <2>2 DEF TypeOK
    <3> QED
      BY <2>2, <3>1 DEF LockInv, OwnedLocksAreHeld
  <2> QED
    BY <1>2, <1>3, <2>1, <2>2
<1> QED
  BY <1>1, <1>4 DEF LockInv, ReclaimsValidateTheirOwn

LEMMA DispatchLock ==
  ASSUME ReceiptInv, LockInv, NEW r \in Request, NEW a \in Attempt, Dispatch(r, a)
  PROVE  LockInv'
<1>1. CASE cwd[r] \in snatched
  BY <1>1, SnatchedLock, DispatchHeld DEF LockInv
<1>2. CASE cwd[r] \notin snatched
  <2>1. Before(r, a)
    BY BeforeStep
  <2>2. InLock(r, a) => lock[cwd[r]].held /\ lock[cwd[r]].owner = OwnerAt(r, runner[r][a])
    BY DEF LockInv, HolderIsOwner
  <2> QED
    BY <1>2, <2>1, <2>2, DispatchLocks, LocksKeepLock
<1> QED
  BY <1>1, <1>2

LEMMA EnvironmentLock ==
  ASSUME ReceiptInv, LockInv, NEW r \in Request, NEW a \in Attempt,
         CarrierLost(r, a) \/ AgentExits(r, a) \/ WindowPasses(r)
  PROVE  LockInv'
<1>0. TypeOK /\ UNCHANGED <<lock, command, snatched>>
  BY DEF ReceiptInv, CarrierLost, AgentExits, WindowPasses
<1>1. \A q \in Request, b \in Attempt :
        runner'[q][b] = runner[q][b] \/ runner'[q][b] = "gone"
  <2>1. CASE CarrierLost(r, a)
    BY <1>0, <2>1, RunnerMoves DEF CarrierLost, Moves, RunnerPc
  <2> QED
    BY <2>1 DEF AgentExits, WindowPasses
<1>2. \A q \in Request, b \in Attempt : Working(q, b)' => Working(q, b)
  <2>1. CASE AgentExits(r, a)
    BY <1>0, <2>1, AgentBecomes DEF AgentExits, Becomes, AgentState, Working
  <2> QED
    BY <2>1 DEF CarrierLost, WindowPasses, Working
<1>3. \A q \in Request, b \in Attempt :
        InLock(q, b)' => InLock(q, b) /\ runner'[q][b] = runner[q][b]
  BY <1>0, <1>1 DEF InLock, LockPc
<1>4. HoldersAreSingle' /\ HolderIsOwner'
  BY <1>0, <1>3 DEF LockInv, HoldersAreSingle, HolderIsOwner
<1>5. OwnedLocksAreHeld' /\ LiveAgentKeepsLock'
  BY <1>0, <1>2 DEF LockInv, OwnedLocksAreHeld, LiveAgentKeepsLock
<1>6. ReclaimsValidateTheirOwn' /\ ReclaimOwnsTheLock'
  BY <1>0, <1>3 DEF LockInv, ReclaimsValidateTheirOwn, ReclaimOwnsTheLock, Unlinked
<1> QED
  BY <1>4, <1>5, <1>6 DEF LockInv

\* A command writes the lock of a directory in which nobody is any more, or snatches
\* it.
LEMMA NobodyInReclaimed ==
  ASSUME ReceiptInv, LockInv, NEW c \in Command,
         \/ command[c].pc = "validated" /\ lock[cwd[command[c].request]].owner = command[c].owner
         \/ command[c].pc = "unlinked",
         NEW q \in Request, NEW b \in Attempt, cwd[q] = cwd[command[c].request]
  PROVE  ~InLock(q, b) /\ ~Working(q, b)
<1> DEFINE r == command[c].request
<1>1. r \in Request /\ silent[r] /\ AgentGone(r) /\ cwd[r] \in Directory
  BY CwdAssumption DEF ReceiptInv, CommandsStayRight, MayAct
<1>2. CASE command[c].pc = "validated" /\ lock[cwd[r]].owner = command[c].owner
  <2>1. lock[cwd[r]].owner = r
    BY <1>2 DEF LockInv, ReclaimsValidateTheirOwn
  <2>2. InLock(q, b) => q = r
    BY <1>1, <2>1, NoRequestAssumption DEF LockInv, HolderIsOwner, OwnerAt
  <2>3. Working(q, b) => q = r
    BY <1>1, <2>1 DEF LockInv, LiveAgentKeepsLock
  <2> QED
    BY <1>1, <2>2, <2>3 DEF ReceiptInv, SilentRunnersAreGone, InLock, LockPc, RunnerLive, RunnerPc,
                            AgentGone, Working
<1>3. CASE command[c].pc = "unlinked"
  <2>1. CASE cwd[r] \in snatched
    BY <2>1 DEF InLock, Working
  <2>2. CASE cwd[r] \notin snatched
    <3>1. Unlinked(c, cwd[r])
      BY <1>3 DEF Unlinked
    <3>2. lock[cwd[r]].owner = NoRequest /\ ~InLock(q, b)
      BY <1>1, <2>2, <3>1 DEF LockInv, ReclaimOwnsTheLock
    <3> QED
      BY <3>2, NoRequestAssumption DEF LockInv, LiveAgentKeepsLock
  <2> QED
    BY <2>1, <2>2
<1> QED
  BY <1>2, <1>3

LEMMA CommandLock ==
  ASSUME ReceiptInv, LockInv, NEW c \in Command, CommandStep(c)
  PROVE  LockInv'
<1> DEFINE r == command[c].request
<1>0. /\ TypeOK /\ UNCHANGED <<runner, agent>>
      /\ \A q \in Request : cwd[q] \in Directory
      /\ command[c].pc # "idle" => r \in Request
      /\ snatched \subseteq snatched'
  BY CwdAssumption
     DEF ReceiptInv, CommandsStayRight, MayAct, CommandStep, QueryReceipt, ReclaimLock, Classify,
         UnlinkReclaimed, RemoveReclaimed, RecordReclaim, CommandDies
\* The lock changes only under a command that has it or snatches it, and becomes an
\* unowned one.
<1>1. \/ lock' = lock
      \/ /\ \/ command[c].pc = "validated" /\ lock[cwd[r]].owner = command[c].owner
            \/ command[c].pc = "unlinked"
            \/ cwd[r] \in snatched'
         /\ command[c].pc \in {"validated", "unlinked"}
         /\ \E record \in {NoLock, EmptyLock} : lock' = [lock EXCEPT ![cwd[r]] = record]
  BY DEF CommandStep, QueryReceipt, ReclaimLock, Classify, UnlinkReclaimed, RemoveReclaimed,
         RecordReclaim, CommandDies, Removed
<1>2. \A q \in Request, b \in Attempt :
        (InLock(q, b) \/ Working(q, b)) /\ cwd[q] \notin snatched' =>
          lock'[cwd[q]] = lock[cwd[q]]
  BY <1>0, <1>1, NobodyInReclaimed DEF TypeOK
<1>3. HoldersAreSingle' /\ HolderIsOwner' /\ LiveAgentKeepsLock'
  BY <1>0, <1>2 DEF LockInv, HoldersAreSingle, HolderIsOwner, LiveAgentKeepsLock, InLock, Working
<1>4. OwnedLocksAreHeld'
  <2>1. CASE lock' = lock
    BY <2>1 DEF LockInv, OwnedLocksAreHeld
  <2>2. ASSUME NEW record \in {NoLock, EmptyLock}, lock' = [lock EXCEPT ![cwd[r]] = record]
        PROVE  OwnedLocksAreHeld'
    <3>1. record.owner = NoRequest
      BY <2>2 DEF NoLock, EmptyLock
    <3>2. \A d \in Directory : lock'[d] = record \/ lock'[d] = lock[d]
      BY <1>0, <2>2 DEF TypeOK
    <3> QED
      BY <3>1, <3>2 DEF LockInv, OwnedLocksAreHeld
  <2> QED
    BY <1>1, <2>1, <2>2
<1>5. \A other \in Command : other # c => command'[other] = command[other]
  BY <1>0 DEF TypeOK, CommandStep, QueryReceipt, ReclaimLock, Classify, UnlinkReclaimed,
              RemoveReclaimed, RecordReclaim, CommandDies, Doing, Done
<1>6. ReclaimsValidateTheirOwn'
  <2>1. command'[c].pc = "validated" => command'[c].owner = command'[c].request
    BY <1>0 DEF TypeOK, CommandStep, QueryReceipt, ReclaimLock, Reclaimable, Classify,
                UnlinkReclaimed, RemoveReclaimed, RecordReclaim, CommandDies, Doing, Done, Idle
  <2> QED
    BY <1>5, <2>1 DEF LockInv, ReclaimsValidateTheirOwn
<1>7. ReclaimOwnsTheLock'
  <2>1. ASSUME command'[c].pc = "unlinked"
        PROVE  /\ command[c].pc = "validated" /\ command'[c].request = r
               /\ lock[cwd[r]].owner # NoRequest
               /\ lock' = [lock EXCEPT ![cwd[r]] = EmptyLock]
               /\ cwd[r] \in snatched' \/ lock[cwd[r]].owner = command[c].owner
    BY <1>0, <2>1
       DEF TypeOK, CommandStep, QueryReceipt, ReclaimLock, Classify,
           UnlinkReclaimed, RemoveReclaimed, RecordReclaim, CommandDies, Doing, Done, Idle
  <2>2. \A q \in Request, b \in Attempt : InLock(q, b)' => InLock(q, b)
    BY <1>0 DEF InLock
  <2> SUFFICES ASSUME NEW e \in Command, NEW d \in Directory \ snatched', Unlinked(e, d)'
               PROVE  /\ lock'[d].held /\ lock'[d].owner = NoRequest
                      /\ \A q \in Request, b \in Attempt : cwd[q] = d => ~InLock(q, b)'
                      /\ \A other \in Command : Unlinked(other, d)' => other = e
    BY DEF ReclaimOwnsTheLock
  <2>3. d \in Directory \ snatched
    BY <1>0
  \* Another unlinked directory has no owner, and the lock of this one had.
  <2>4. ASSUME NEW x \in Command, NEW y \in Command, Unlinked(x, d)', Unlinked(y, d)', x # c, y = c
        PROVE  FALSE
    <3>1. Unlinked(x, d) /\ cwd[r] = d /\ lock[d].owner # NoRequest
      BY <1>5, <2>1, <2>4 DEF Unlinked
    <3> QED
      BY <2>3, <3>1 DEF LockInv, ReclaimOwnsTheLock
  <2>5. \A other \in Command : Unlinked(other, d)' => other = e
    <3> SUFFICES ASSUME NEW other \in Command, Unlinked(other, d)', other # e PROVE FALSE
      OBVIOUS
    <3>1. other # c /\ e # c
      BY <2>4
    <3> QED
      BY <1>5, <2>3, <3>1 DEF LockInv, ReclaimOwnsTheLock, Unlinked
  <2>6. CASE e = c
    <3>1. /\ command[c].pc = "validated" /\ cwd[r] = d /\ lock'[d] = EmptyLock
          /\ lock[cwd[r]].owner = command[c].owner
      BY <1>0, <2>1, <2>6 DEF Unlinked, TypeOK
    <3>2. \A q \in Request, b \in Attempt : cwd[q] = d => ~InLock(q, b)
      BY <3>1, NobodyInReclaimed
    <3> QED
      BY <2>2, <2>5, <3>1, <3>2 DEF EmptyLock
  <2>7. CASE e # c
    <3>1. Unlinked(e, d)
      BY <1>5, <2>7 DEF Unlinked
    <3>2. /\ lock[d].held /\ lock[d].owner = NoRequest
          /\ \A q \in Request, b \in Attempt : cwd[q] = d => ~InLock(q, b)
          /\ \A other \in Command : Unlinked(other, d) => other = e
      BY <2>3, <3>1 DEF LockInv, ReclaimOwnsTheLock
    <3>3. lock'[d] = lock[d]
      <4>1. SUFFICES ASSUME lock' # lock, cwd[r] = d PROVE FALSE
        BY <1>0, <1>1 DEF TypeOK
      <4>2. CASE command[c].pc = "unlinked"
        BY <2>7, <3>2, <4>1, <4>2 DEF Unlinked
      <4>3. CASE command[c].pc = "validated"
        <5>1. UnlinkReclaimed(c)
          BY <4>1, <4>3 DEF CommandStep, QueryReceipt, ReclaimLock, Classify, RemoveReclaimed,
                            RecordReclaim, CommandDies, Idle
        <5> QED
          BY <3>2, <4>1, <5>1 DEF UnlinkReclaimed
      <4> QED
        BY <1>1, <4>1, <4>2, <4>3
    <3> QED
      BY <2>2, <2>5, <3>2, <3>3
  <2> QED
    BY <2>6, <2>7
<1> QED
  BY <1>3, <1>4, <1>6, <1>7 DEF LockInv

LEMMA LockStep ==
  ASSUME ReceiptInv, LockInv, [Next]_vars
  PROVE  LockInv'
<1>1. CASE Next
  BY <1>1, NextSteps, DispatchLock, EnvironmentLock, CommandLock
<1>2. CASE UNCHANGED vars
  BY <1>2 DEF vars, LockInv, HoldersAreSingle, HolderIsOwner, InLock, OwnedLocksAreHeld,
              ReclaimsValidateTheirOwn, ReclaimOwnsTheLock, Unlinked, LiveAgentKeepsLock, Working
<1> QED
  BY <1>1, <1>2

-----------------------------------------------------------------------------
(* The theorems.                                                           *)

\* The invariant is inductive, however many commands are under way.
THEOREM Inductive == Spec => []IInv
<1>1. Init => IInv
  BY InitReceiptInv, InitLockInv DEF IInv
<1>2. IInv /\ [Next]_vars => IInv'
  <2> SUFFICES ASSUME IInv, [Next]_vars PROVE IInv'
    OBVIOUS
  <2>1. ReceiptInv'
    BY ReceiptStep DEF IInv
  <2>2. LockInv'
    BY LockStep DEF IInv
  <2> QED
    BY <2>1, <2>2 DEF IInv
<1> QED
  BY <1>1, <1>2, PTL DEF Spec

\* Every variable has its type in every reachable state.
THEOREM TypeCorrect == Spec => []TypeOK
<1>1. IInv => TypeOK
  BY DEF IInv, ReceiptInv
<1> QED
  BY <1>1, Inductive, PTL

\* A request id runs one agent ever, however often its dispatch is retried and
\* whichever carriers break: mkdir of the job directory succeeds once.
THEOREM RequestsLaunchOnce == Spec => []LaunchedOnce
<1>1. IInv => LaunchedOnce
  BY DEF IInv, ReceiptInv, OneAttemptStarts, Started, LaunchedOnce
<1> QED
  BY <1>1, Inductive, PTL

\* What receipt.json reports as completed or as killed has no agent left.
THEOREM OutcomesAreOver == Spec => []OutcomeMeansOver
<1>1. IInv => OutcomeMeansOver
  BY DEF IInv, ReceiptInv
<1> QED
  BY <1>1, Inductive, PTL

\* No lock is released or reclaimed under a running agent, whatever carriers break
\* and however many reclaims are under way, but for an agent that its runner could
\* neither identify nor kill and for a directory whose lock was snatched.
THEOREM LiveAgentsKeepTheirLock == Spec => []LiveAgentKeepsLock
<1>1. IInv => LiveAgentKeepsLock
  BY DEF IInv, LockInv
<1> QED
  BY <1>1, Inductive, PTL

\* And so, but for the same two cases, two agents never work in one directory.
THEOREM DirectoriesAreExclusive == Spec => []CwdExclusive
<1>1. IInv => CwdExclusive
  <2> SUFFICES ASSUME IInv, NEW r \in Request, NEW q \in Request, NEW a \in Attempt,
                      NEW b \in Attempt, Working(r, a), Working(q, b), cwd[r] = cwd[q]
               PROVE  r = q /\ a = b
    BY DEF CwdExclusive
  <2>1. r = q
    BY DEF IInv, LockInv, LiveAgentKeepsLock
  <2> QED
    BY <2>1 DEF IInv, ReceiptInv, OneAttemptStarts, Started, Working
<1> QED
  BY <1>1, Inductive, PTL

-----------------------------------------------------------------------------
(* How a lock comes to be snatched.                                        *)

\* The lock that a reclaim validated is still the one it will unlink.
ValidatedLocksStay ==
  \A c \in Command :
    command[c].pc = "validated" => lock[cwd[command[c].request]].owner = command[c].owner

NothingSnatched == snatched = {} /\ ValidatedLocksStay

\* No runner touches a validated lock: the one it names is gone.
LEMMA DispatchSnatchesNothing ==
  ASSUME IInv, NothingSnatched, NEW r \in Request, NEW a \in Attempt, Dispatch(r, a)
  PROVE  NothingSnatched'
<1> USE DEF NothingSnatched, IInv
<1>0. UNCHANGED <<command, snatched>> /\ TypeOK /\ \A q \in Request : cwd[q] \in Directory
  BY DispatchEffect, CwdAssumption DEF ReceiptInv
<1>1. PICK to \in RunnerPc, state \in AgentState, record \in LockRecord :
        Locks(r, a, to, state, record)
  BY BeforeStep, DispatchLocks DEF LockInv, HolderIsOwner
<1> SUFFICES ASSUME NEW c \in Command, command[c].pc = "validated"
             PROVE  lock'[cwd[command[c].request]].owner = command[c].owner
  BY <1>0 DEF ValidatedLocksStay
<1> DEFINE q == command[c].request
<1>2. q \in Request /\ silent[q] /\ lock[cwd[q]].owner = q /\ command[c].owner = q
  BY DEF ReceiptInv, CommandsStayRight, MayAct, LockInv, ReclaimsValidateTheirOwn,
         ValidatedLocksStay
<1>3. CASE cwd[q] # cwd[r]
  BY <1>0, <1>1, <1>2, <1>3 DEF Locks, TypeOK
<1>4. CASE cwd[q] = cwd[r]
  <2>1. lock[cwd[r]].held
    BY <1>0, <1>2, <1>4, NoRequestAssumption DEF LockInv, OwnedLocksAreHeld
  <2>2. ~InLock(r, a)
    <3>1. SUFFICES ASSUME InLock(r, a) PROVE FALSE
      OBVIOUS
    <3>2. q = r
      BY <1>2, <1>4, <3>1, NoRequestAssumption DEF LockInv, HolderIsOwner, OwnerAt
    <3> QED
      BY <1>2, <3>1, <3>2
         DEF ReceiptInv, SilentRunnersAreGone, InLock, LockPc, RunnerLive, RunnerPc
  <2>3. lock'[cwd[q]] = lock[cwd[q]]
    BY <1>0, <1>1, <1>4, <2>1, <2>2 DEF Locks, TypeOK
  <2> QED
    BY <1>2, <2>3
<1> QED
  BY <1>3, <1>4

\* A lone command unlinks what it validated.
LEMMA LoneCommandSnatchesNothing ==
  ASSUME IInv, NothingSnatched, NEW c \in Command, Command = {c}, CommandStep(c)
  PROVE  NothingSnatched'
<1> USE DEF NothingSnatched
<1>1. TypeOK
  BY DEF IInv, ReceiptInv
<1>2. snatched' = {}
  BY DEF ValidatedLocksStay, CommandStep, QueryReceipt, ReclaimLock, Classify, UnlinkReclaimed,
         RemoveReclaimed, RecordReclaim, CommandDies
<1>3. command'[c].pc = "validated" =>
        lock'[cwd[command'[c].request]].owner = command'[c].owner
  BY <1>1 DEF TypeOK, CommandStep, QueryReceipt, ReclaimLock, Classify, UnlinkReclaimed,
              RemoveReclaimed, RecordReclaim, CommandDies, Doing, Done, Idle
<1> QED
  BY <1>2, <1>3 DEF ValidatedLocksStay

\* A lock is snatched only when reclaims overlap: where one command runs at a time,
\* the two properties above hold for every directory.  This is the whole of what
\* ReclaimTakesItsOwnLock is violated by.
THEOREM LoneReclaimsSnatchNothing ==
  ASSUME NEW c \in Command, Command = {c}
  PROVE  Spec => [](snatched = {})
<1>1. Init => NothingSnatched
  BY DEF Init, NothingSnatched, ValidatedLocksStay, Idle
<1>2. IInv /\ NothingSnatched /\ [Next]_vars => NothingSnatched'
  <2> SUFFICES ASSUME IInv, NothingSnatched, [Next]_vars PROVE NothingSnatched'
    OBVIOUS
  <2>1. ASSUME NEW r \in Request, NEW a \in Attempt,
               CarrierLost(r, a) \/ AgentExits(r, a) \/ WindowPasses(r)
        PROVE  NothingSnatched'
    BY <2>1 DEF CarrierLost, AgentExits, WindowPasses, NothingSnatched, ValidatedLocksStay
  <2>2. CASE UNCHANGED vars
    BY <2>2 DEF vars, NothingSnatched, ValidatedLocksStay
  <2> QED
    BY <2>1, <2>2, NextSteps, DispatchSnatchesNothing, LoneCommandSnatchesNothing
<1>3. NothingSnatched => snatched = {}
  BY DEF NothingSnatched
<1> QED
  BY <1>1, <1>2, <1>3, Inductive, PTL DEF Spec

-----------------------------------------------------------------------------
(* The runner keeps the order that the Mac side relies on.                 *)

Shown(status) == IF status = "unwritten" THEN "absent" ELSE status

LEMMA ShownInOrder ==
  ASSUME ReceiptInv, Next
  PROVE  \/ receipt' = receipt
         \/ \E r \in Request, status \in Status :
              /\ receipt' = [receipt EXCEPT ![r] = status]
              /\ \/ Shown(receipt[r]) = Shown(status)
                 \/ <<Shown(receipt[r]), Shown(status)>> \in Promise!Order
<1> USE DEF Shown, Promise!Order, Status, Outcome
<1>1. ASSUME NEW r \in Request, NEW a \in Attempt, Dispatch(r, a), receipt' # receipt
      PROVE  \E status \in Status :
               /\ receipt' = [receipt EXCEPT ![r] = status]
               /\ \/ Shown(receipt[r]) = Shown(status)
                  \/ <<Shown(receipt[r]), Shown(status)>> \in Promise!Order
  <2>1. ReceiptMayBe(runner[r][a], receipt[r])
    BY DEF ReceiptInv, ReceiptFollowsRunner
  <2> USE <1>1, <2>1 DEF ReceiptMayBe, Goes, Writes
  <2>2. CASE MakeJob(r, a)
    BY <2>2 DEF MakeJob, JobIsNew
  <2>3. CASE WriteAccepted(r, a)
    BY <2>3 DEF WriteAccepted
  <2>4. CASE TakeLock(r, a)
    BY <2>4 DEF TakeLock
  <2>5. CASE PrepareFails(r, a) \/ SpawnUnverified(r, a)
    BY <2>5 DEF PrepareFails, SpawnUnverified
  <2>6. CASE WriteStarting(r, a)
    BY <2>6 DEF WriteStarting
  <2>7. CASE Heartbeat(r, a) \/ StreamFails(r, a)
    BY <2>7 DEF Heartbeat, StreamFails
  <2>8. CASE Finish(r, a)
    BY <2>8 DEF Finish
  <2> QED
    BY <2>2, <2>3, <2>4, <2>5, <2>6, <2>7, <2>8
       DEF Dispatch, WriteOwner, Spawn, NameProcess, UnlinkOwn, RemoveOwn
<1>2. ASSUME NEW c \in Command, CommandStep(c), receipt' # receipt
      PROVE  \E r \in Request, status \in Status :
               /\ receipt' = [receipt EXCEPT ![r] = status]
               /\ \/ Shown(receipt[r]) = Shown(status)
                  \/ <<Shown(receipt[r]), Shown(status)>> \in Promise!Order
  <2>1. /\ command[c].pc # "idle"
        /\ receipt' = [receipt EXCEPT ![command[c].request] = "killed_by_carrier_loss"]
    BY <1>2 DEF CommandStep, QueryReceipt, ReclaimLock, Classify, UnlinkReclaimed,
                RemoveReclaimed, RecordReclaim, CommandDies, Writes
  <2>2. MayAct(command[c].request, command[c].pc)
    BY <2>1 DEF ReceiptInv, CommandsStayRight
  <2> QED
    BY <2>1, <2>2 DEF MayAct
<1>3. ASSUME NEW r \in Request, NEW a \in Attempt,
             CarrierLost(r, a) \/ AgentExits(r, a) \/ WindowPasses(r)
      PROVE  receipt' = receipt
  BY <1>3 DEF CarrierLost, AgentExits, WindowPasses
<1> QED
  BY <1>1, <1>2, <1>3, NextSteps

\* The receipts move in the order of RemoteReceipt, the one the Mac side's model
\* is built on: each step of the runner and of the commands is a step of it or
\* shows nothing new.
THEOREM ReceiptsImplementTheOrder == Spec => ReceiptsFollowTheOrder
<1> DEFINE Bar == [r \in Request |-> IF receipt[r] = "unwritten" THEN "absent" ELSE receipt[r]]
<1>1. Init => Promise!Init
  BY DEF Init, Promise!Init
<1>2. IInv /\ [Next]_vars => [Promise!Next]_Bar
  <2> SUFFICES ASSUME IInv, [Next]_vars PROVE [Promise!Next]_Bar
    OBVIOUS
  <2>0. TypeOK
    BY DEF IInv, ReceiptInv
  <2>1. CASE receipt' = receipt
    BY <2>1
  <2>2. ASSUME NEW r \in Request, NEW status \in Status,
               receipt' = [receipt EXCEPT ![r] = status],
               \/ Shown(receipt[r]) = Shown(status)
               \/ <<Shown(receipt[r]), Shown(status)>> \in Promise!Order
        PROVE  [Promise!Next]_Bar
    <3>1. Bar' = [Bar EXCEPT ![r] = Shown(status)] /\ Bar[r] = Shown(receipt[r])
      BY <2>0, <2>2 DEF TypeOK, Shown
    <3>2. Shown(status) \in Promise!Status
      BY <2>2 DEF Shown, Status, Outcome, Promise!Status, Promise!Outcome
    <3>3. CASE Shown(receipt[r]) = Shown(status)
      BY <3>1, <3>3
    <3>4. CASE <<Shown(receipt[r]), Shown(status)>> \in Promise!Order
      <4>1. Promise!Next
        BY <3>1, <3>2, <3>4 DEF Promise!Next
      <4> QED
        BY <4>1
    <3> QED
      BY <2>2, <3>3, <3>4
  <2>3. CASE UNCHANGED vars
    BY <2>3 DEF vars
  <2> QED
    BY <2>1, <2>2, <2>3, ShownInOrder DEF IInv
<1> QED
  BY <1>1, <1>2, Inductive, PTL DEF Spec, ReceiptsFollowTheOrder, Promise!Spec
=============================================================================
