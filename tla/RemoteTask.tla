------------------------------ MODULE RemoteTask ------------------------------
(***************************************************************************)
(* The Mac side of one remote task (remote_codex_task.py): the dispatcher, *)
(* the worker that holds worker.lock while it reads the SSH carrier, and   *)
(* the commands status, receipt, reclaim, accept and revise.               *)
(*                                                                         *)
(* Only the worker and accept take worker.lock for writing state.json; the *)
(* other commands read it, talk to Windows, and write back what they read. *)
(* Every probe of the worker (carrier_active) takes worker.lock for a      *)
(* moment.  The Windows side is its receipt, in the order RemoteReceipt    *)
(* promises, and the frames it sends down the carrier.                     *)
(***************************************************************************)
EXTENDS Naturals, Sequences, FiniteSets

CONSTANTS
  Command,   \* processes of the owner
  MaxFrames  \* bound on the frames on the wire before the last one

ASSUME FramesAssumption == MaxFrames \in Nat

VARIABLES
  state,       \* the status in state.json; "absent": no task yet
  runtime,     \* whether job.json names the deployed runtime
  old,         \* more than five seconds since created_at
  dispatcher,  \* where create_and_launch is
  worker,      \* [pc, status]: the worker and the status it has in memory
  acceptance,  \* whether acceptance.json exists
  command,     \* command[c]: [pc, status]: a command and the status it will save
  receipt,     \* the status in receipt.json on Windows
  runner,      \* the runner process on Windows
  link,        \* the SSH carrier
  wire         \* frames on the carrier, each the status it leads to

mac == <<state, runtime, old, dispatcher, worker, acceptance, command>>
windows == <<receipt, runner, link, wire>>
vars == <<state, runtime, old, dispatcher, worker, acceptance, command,
          receipt, runner, link, wire>>

Promise == INSTANCE RemoteReceipt WITH
             Request <- {"task"}, receipt <- [r \in {"task"} |-> receipt]

Verdict == {"awaiting_review", "incomplete_evidence", "observer_error"}
TERMINAL == Verdict \cup {"failed", "timed_out", "cwd_busy", "killed_by_carrier_loss",
                          "interrupted", "superseded", "accepted"}
Busy == {"preparing", "connecting", "starting", "running"}
Waiting == {"completed_claimed", "carrier_lost_pending_recheck",
            "carrier_aborted_by_local_error", "unknown"}
LocalStatus == {"absent"} \cup Busy \cup Waiting \cup TERMINAL

WorkerLocked == {"dialing", "reading", "claimed", "ending"}
WorkerPc == {"unborn", "boot", "gone"} \cup WorkerLocked
CommandLocked == {"peeking", "peeked", "accepting"}
CommandPc == {"idle", "answered", "verifying", "probing", "saving", "reclaimed",
              "superseding"} \cup CommandLocked
Idle == [pc |-> "idle", status |-> "absent"]

Init ==
  /\ state = "absent" /\ runtime = FALSE /\ old = FALSE
  /\ dispatcher = "idle"
  /\ worker = [pc |-> "unborn", status |-> "absent"]
  /\ acceptance = FALSE
  /\ command = [c \in Command |-> Idle]
  /\ receipt = "absent" /\ runner = "unborn" /\ link = "unborn" /\ wire = <<>>

WorkerHoldsLock == worker.pc \in WorkerLocked
WorkerSaves(pc, status) ==
  /\ worker' = [pc |-> pc, status |-> status]
  /\ state' = status
WorkerKeeps(pc, status) ==
  /\ worker' = [pc |-> pc, status |-> status]
  /\ UNCHANGED state

LockFree == ~WorkerHoldsLock /\ \A c \in Command : command[c].pc \notin CommandLocked

-----------------------------------------------------------------------------
(* dispatch.                                                               *)

\* create_and_launch under registry.lock: job.json and state.json.
Create ==
  /\ dispatcher = "idle"
  /\ dispatcher' = "deploying"
  /\ state' = "preparing"
  /\ UNCHANGED <<runtime, old, worker, acceptance, command, windows>>

\* deploy_runner took up to 45 seconds, outside the lock.
Deploy ==
  /\ dispatcher = "deploying"
  /\ dispatcher' = "launching"
  /\ runtime' = TRUE
  /\ UNCHANGED <<state, old, worker, acceptance, command, windows>>

StartWorker ==
  /\ dispatcher = "launching"
  /\ dispatcher' = "done"
  /\ WorkerKeeps("boot", worker.status)
  /\ UNCHANGED <<runtime, old, acceptance, command, windows>>

\* The packet, the deployment or the spawn failed.
DispatchFails ==
  /\ dispatcher \in {"deploying", "launching"}
  /\ dispatcher' = "done"
  /\ state' = "failed"
  /\ UNCHANGED <<runtime, old, worker, acceptance, command, windows>>

DispatcherDies ==
  /\ dispatcher \in {"deploying", "launching"}
  /\ dispatcher' = "done"
  /\ UNCHANGED <<state, runtime, old, worker, acceptance, command, windows>>

-----------------------------------------------------------------------------
(* worker.                                                                 *)

\* A worker that finds worker.lock taken, if only by a probe, gives up.
WorkerBoots ==
  /\ worker.pc = "boot"
  /\ IF LockFree THEN WorkerSaves("dialing", "connecting")
                 ELSE WorkerKeeps("gone", worker.status)
  /\ UNCHANGED <<runtime, old, dispatcher, acceptance, command, windows>>

WorkerDials ==
  /\ worker.pc = "dialing"
  /\ WorkerKeeps("reading", worker.status)
  /\ link' = "up" /\ runner' = "up"
  /\ UNCHANGED <<runtime, old, dispatcher, acceptance, command, receipt, wire>>

\* ssh cannot be started or does not take the whole packet.
WorkerCannotDial ==
  /\ worker.pc = "dialing"
  /\ WorkerSaves("gone", "unknown")
  /\ UNCHANGED <<runtime, old, dispatcher, acceptance, command, windows>>

\* apply_frame on the next frame.
WorkerReads ==
  /\ worker.pc = "reading"
  /\ wire # <<>>
  /\ WorkerSaves("reading", Head(wire))
  /\ wire' = Tail(wire)
  /\ UNCHANGED <<runtime, old, dispatcher, acceptance, command, receipt, runner, link>>

\* A frame that is malformed, foreign or too large: the carrier is terminated.
WorkerAborts ==
  /\ worker.pc = "reading"
  /\ link = "up" \/ wire # <<>>
  /\ WorkerSaves("ending", "carrier_aborted_by_local_error")
  /\ link' = "cut" /\ wire' = <<>>
  /\ UNCHANGED <<runtime, old, dispatcher, acceptance, command, receipt, runner>>

StatusAtEof(status) ==
  IF status \in TERMINAL THEN status ELSE "carrier_lost_pending_recheck"

WorkerSeesEof ==
  /\ worker.pc = "reading"
  /\ wire = <<>>
  /\ link = "cut" \/ runner = "gone"
  /\ IF worker.status = "completed_claimed"
     THEN WorkerKeeps("claimed", worker.status)
     ELSE WorkerKeeps("ending", StatusAtEof(worker.status))
  /\ link' = "cut"
  /\ UNCHANGED <<runtime, old, dispatcher, acceptance, command, receipt, runner, wire>>

\* verify_completion asks Windows again; an exception is an observer_error.
WorkerVerifies ==
  /\ worker.pc = "claimed"
  /\ \E verdict \in Verdict : WorkerKeeps("ending", verdict)
  /\ UNCHANGED <<runtime, old, dispatcher, acceptance, command, windows>>

WorkerEnds ==
  /\ worker.pc = "ending"
  /\ WorkerSaves("gone", worker.status)
  /\ UNCHANGED <<runtime, old, dispatcher, acceptance, command, windows>>

WorkerDies ==
  /\ worker.pc \in {"boot"} \cup WorkerLocked
  /\ WorkerKeeps("gone", worker.status)
  /\ UNCHANGED <<runtime, old, dispatcher, acceptance, command, windows>>

-----------------------------------------------------------------------------
(* The commands of the owner.                                              *)

Doing(c, pc, status) == command' = [command EXCEPT ![c] = [pc |-> pc, status |-> status]]
Done(c) == command' = [command EXCEPT ![c] = Idle]

\* carrier_active in status, list, await-event and a repeated dispatch.
Peek(c) ==
  /\ command[c] = Idle
  /\ state # "absent"
  /\ LockFree
  /\ Doing(c, "peeking", "absent")
  /\ UNCHANGED <<state, runtime, old, dispatcher, worker, acceptance, windows>>

EndPeek(c) ==
  /\ command[c].pc = "peeking"
  /\ Done(c)
  /\ UNCHANGED <<state, runtime, old, dispatcher, worker, acceptance, windows>>

\* Mutant: silence alone is taken for the end of the runner.
GoneWhenSilent == receipt \in {"accepted", "starting", "running"}

\* reconcileRunningReceipt: the runner has been gone for a whole window and its
\* agent with it.
LostOnWindows == receipt \in {"starting", "running"} /\ runner = "gone"

\* query_remote_receipt up to the answer; without a receipt it fails.
AskReceipt(c) ==
  /\ command[c] = Idle
  /\ runtime /\ receipt # "absent"
  /\ \/ UNCHANGED receipt
     \/ LostOnWindows /\ receipt' = "killed_by_carrier_loss"
  /\ Doing(c, "answered", receipt')
  /\ UNCHANGED <<state, runtime, old, dispatcher, worker, acceptance, runner, link, wire>>

\* It reads state.json only now and applies the answer.
AfterAnswer(status) ==
  IF status = "completed_claimed" THEN "verifying"
  ELSE IF status \in {"accepted", "connecting", "starting", "running"} THEN "probing"
  ELSE "saving"

\* Mutant: the runner's "accepted" is taken over as it is.
LocalStatusAsIs(status) == status

\* apply_frame on a receipt: to the runner "accepted" means only received.
LocalStatusOf(status) == IF status = "accepted" THEN "connecting" ELSE status

ApplyReceipt(c) ==
  LET status == LocalStatusOf(command[c].status)
  IN  /\ command[c].pc = "answered"
      /\ Doing(c, AfterAnswer(status), status)
      /\ UNCHANGED <<state, runtime, old, dispatcher, worker, acceptance, windows>>

VerifyReceipt(c) ==
  /\ command[c].pc = "verifying"
  /\ \E verdict \in Verdict : Doing(c, "saving", verdict)
  /\ UNCHANGED <<state, runtime, old, dispatcher, worker, acceptance, windows>>

\* Mutant: the worker is not probed.
SupervisionUnknown == FALSE

Supervised == ~LockFree

\* carrier_active: a held lock is a live carrier, whoever holds it.
ProbeCarrier(c) ==
  /\ command[c].pc = "probing"
  /\ IF Supervised
     THEN Doing(c, "saving", command[c].status)
     ELSE Doing(c, "peeked", "carrier_lost_pending_recheck")
  /\ UNCHANGED <<state, runtime, old, dispatcher, worker, acceptance, windows>>

ReleaseProbe(c) ==
  /\ command[c].pc = "peeked"
  /\ Doing(c, "saving", command[c].status)
  /\ UNCHANGED <<state, runtime, old, dispatcher, worker, acceptance, windows>>

\* The state read before goes back with what the answer changed.
SaveReceipt(c) ==
  /\ command[c].pc = "saving"
  /\ state' = command[c].status
  /\ Done(c)
  /\ UNCHANGED <<runtime, old, dispatcher, worker, acceptance, windows>>

\* reclaim reads, has Windows remove the lock, and saves the same status.
AskReclaim(c) ==
  /\ command[c] = Idle
  /\ runtime /\ state = "killed_by_carrier_loss" /\ receipt = "killed_by_carrier_loss"
  /\ Doing(c, "reclaimed", "killed_by_carrier_loss")
  /\ UNCHANGED <<state, runtime, old, dispatcher, worker, acceptance, windows>>

SaveReclaim(c) ==
  /\ command[c].pc = "reclaimed"
  /\ state' = command[c].status
  /\ Done(c)
  /\ UNCHANGED <<runtime, old, dispatcher, worker, acceptance, windows>>

\* Mutant: accept does not take worker.lock.
AcceptAnyTime == state = "awaiting_review"

CanAccept == LockFree /\ state = "awaiting_review"

\* accept under worker.lock: acceptance.json, and then state.json.
WriteAcceptance(c) ==
  /\ command[c] = Idle
  /\ CanAccept
  /\ Doing(c, "accepting", "accepted")
  /\ acceptance' = TRUE
  /\ UNCHANGED <<state, runtime, old, dispatcher, worker, windows>>

SaveAccepted(c) ==
  /\ command[c].pc = "accepting"
  /\ state' = command[c].status
  /\ Done(c)
  /\ UNCHANGED <<runtime, old, dispatcher, worker, acceptance, windows>>

\* revise under registry.lock: supersede_parent reads, then saves.
ReadParent(c) ==
  /\ command[c] = Idle
  /\ \A other \in Command : command[other].pc # "superseding"
  /\ state = "awaiting_review"
  /\ Doing(c, "superseding", "superseded")
  /\ UNCHANGED <<state, runtime, old, dispatcher, worker, acceptance, windows>>

Supersede(c) ==
  /\ command[c].pc = "superseding"
  /\ state' = command[c].status
  /\ Done(c)
  /\ UNCHANGED <<runtime, old, dispatcher, worker, acceptance, windows>>

\* Interrupted, refused by SSH, or an exception on the way.
CommandDies(c) ==
  /\ command[c] # Idle
  /\ Done(c)
  /\ UNCHANGED <<state, runtime, old, dispatcher, worker, acceptance, windows>>

-----------------------------------------------------------------------------
(* The Windows side and the carrier.                                       *)

Sends(frame) == wire' = IF link = "up" THEN Append(wire, frame) ELSE wire
Silent == UNCHANGED wire

RunnerSteps(from, to) == runner = "up" /\ receipt \in from /\ receipt' = to

RunnerAccepts ==
  /\ RunnerSteps({"absent"}, "accepted")
  /\ Silent
  /\ UNCHANGED <<mac, runner, link>>

\* The request is refused, or a write throws: an error frame, and the receipt
\* stays as it is.
RunnerGivesUp ==
  /\ RunnerSteps({"absent", "accepted", "starting", "running", "failed"}, receipt)
  /\ Sends("unknown")
  /\ runner' = "gone"
  /\ UNCHANGED <<mac, link>>

RunnerStarts ==
  /\ RunnerSteps({"accepted"}, "starting")
  /\ Sends("starting")
  /\ UNCHANGED <<mac, runner, link>>

RunnerBeats ==
  /\ RunnerSteps({"starting", "running"}, "running")
  /\ Len(wire) < MaxFrames
  /\ Sends("running")
  /\ UNCHANGED <<mac, runner, link>>

\* A heartbeat that cannot be written to disk.
RunnerCannotBeat ==
  /\ RunnerSteps({"starting", "running"}, receipt)
  /\ Len(wire) < MaxFrames
  /\ Sends("unknown")
  /\ UNCHANGED <<mac, runner, link>>

\* terminateForFailure: the receipt fails while the agent is being killed.
StreamFails ==
  /\ RunnerSteps({"starting", "running"}, "failed")
  /\ Silent
  /\ UNCHANGED <<mac, runner, link>>

\* The last receipt is written, then sent unless releaseLock throws, and the
\* runner exits.
RunnerEnds ==
  /\ \/ \E outcome \in {"cwd_busy", "failed"} : RunnerSteps({"accepted"}, outcome)
     \/ \E outcome \in {"completed_claimed", "failed", "timed_out"} :
          RunnerSteps({"starting", "running"}, outcome)
     \/ \E outcome \in {"failed", "timed_out"} : RunnerSteps({"failed"}, outcome)
  /\ \E frame \in {receipt', "unknown"} : Sends(frame)
  /\ runner' = "gone"
  /\ UNCHANGED <<mac, link>>

\* Either end may notice first, and frames on the way may be lost.
CarrierBreaks ==
  /\ link = "up"
  /\ link' = "cut"
  /\ \E n \in 0..Len(wire) : wire' = SubSeq(wire, 1, n)
  /\ UNCHANGED <<mac, receipt, runner>>

\* Life support: a runner does not outlive its carrier for long.
RunnerKilled ==
  /\ runner = "up"
  /\ link = "cut"
  /\ runner' = "gone"
  /\ UNCHANGED <<mac, receipt, link, wire>>

GracePasses ==
  /\ ~old /\ state # "absent"
  /\ old' = TRUE
  /\ UNCHANGED <<state, runtime, dispatcher, worker, acceptance, command, windows>>

-----------------------------------------------------------------------------
Dispatch == Create \/ Deploy \/ StartWorker \/ DispatchFails

WorkerStep ==
  \/ WorkerBoots \/ WorkerDials \/ WorkerCannotDial \/ WorkerReads
  \/ WorkerSeesEof \/ WorkerVerifies \/ WorkerEnds

Receipt(c) == AskReceipt(c) \/ ApplyReceipt(c) \/ VerifyReceipt(c) \/ ProbeCarrier(c)
                \/ ReleaseProbe(c) \/ SaveReceipt(c)

Owner(c) == Peek(c) \/ EndPeek(c) \/ Receipt(c) \/ AskReclaim(c) \/ SaveReclaim(c)
              \/ WriteAcceptance(c) \/ SaveAccepted(c) \/ ReadParent(c) \/ Supersede(c)

Runner == RunnerAccepts \/ RunnerGivesUp \/ RunnerStarts \/ RunnerBeats
            \/ RunnerCannotBeat \/ StreamFails \/ RunnerEnds

Next ==
  \/ Dispatch \/ DispatcherDies
  \/ WorkerStep \/ WorkerAborts \/ WorkerDies
  \/ \E c \in Command : Owner(c) \/ CommandDies(c)
  \/ Runner \/ CarrierBreaks \/ RunnerKilled
  \/ GracePasses

Spec == Init /\ [][Next]_vars

\* The dispatcher and a live worker go on, five seconds pass, the lock of a
\* probe is closed with its file, and the runner's own timeout ends it or its
\* carrier's loss kills it.
FairSpec ==
  /\ Spec
  /\ WF_vars(Dispatch) /\ WF_vars(WorkerStep) /\ WF_vars(GracePasses)
  /\ \A c \in Command : WF_vars(EndPeek(c)) /\ WF_vars(ReleaseProbe(c)) /\ WF_vars(SaveAccepted(c))
  /\ WF_vars(RunnerAccepts) /\ WF_vars(RunnerEnds) /\ WF_vars(RunnerKilled)

-----------------------------------------------------------------------------
(* What public shows.                                                      *)

\* Mutant: a task that is still being prepared is never shown as lost.
ShownAsLostLater == state \in Busy \ {"preparing"}

ShownAsLost == state \in Busy

View == IF LockFree /\ old /\ ShownAsLost THEN "carrier_lost_pending_recheck" ELSE state

-----------------------------------------------------------------------------
(* Properties.                                                             *)

\* Every variable has its type.
TypeOK ==
  /\ state \in LocalStatus
  /\ runtime \in BOOLEAN /\ old \in BOOLEAN /\ acceptance \in BOOLEAN
  /\ dispatcher \in {"idle", "deploying", "launching", "done"}
  /\ worker \in [pc : WorkerPc, status : LocalStatus]
  /\ command \in [Command -> [pc : CommandPc, status : LocalStatus]]
  /\ receipt \in Promise!Status
  /\ runner \in {"unborn", "up", "gone"}
  /\ link \in {"unborn", "up", "cut"}
  /\ wire \in Seq({"starting", "running", "unknown"} \cup Promise!Outcome)

\* What state.json says of the outcome is what Windows says, although commands
\* save what they read long ago and the worker never reads again: a verdict, a
\* decision and a continuation rest on a completed run, and a loss is a loss.
OutcomeIsFromWindows ==
  /\ state \in Verdict \cup {"completed_claimed", "accepted", "superseded"} =>
       receipt = "completed_claimed"
  /\ state \in {"cwd_busy", "timed_out", "killed_by_carrier_loss"} => receipt = state
  /\ state = "failed" /\ worker.pc # "unborn" => receipt \in {"failed", "timed_out"}

\* An acceptance is only written when the worker is over, so that no save of
\* the worker can undo it.
AcceptanceOutlivesWorker == acceptance => worker.pc = "gone"

\* A task that state.json calls lost has no worker left that could still bring
\* its result: the owner may go on to inspect the remote worktree.
LostMeansUnsupervised ==
  state = "carrier_lost_pending_recheck" => worker.pc = "gone"

-----------------------------------------------------------------------------
(* The invariant the proofs are by induction on.                           *)

\* What a status says of the outcome is so on Windows.
Holds(status) ==
  /\ status \in Verdict \cup {"completed_claimed", "accepted", "superseded"} =>
       receipt = "completed_claimed"
  /\ status \in {"cwd_busy", "timed_out", "killed_by_carrier_loss"} => receipt = status
  /\ status = "failed" => receipt \in {"failed", "timed_out"}

\* Windows knows nothing of a task whose worker has not dialled.
CarrierComesFirst ==
  worker.pc \in {"unborn", "boot", "dialing"} =>
    receipt = "absent" /\ runner = "unborn" /\ wire = <<>>

\* A worker is born by a dispatcher that has not failed.
DispatchComesFirst ==
  /\ dispatcher = "idle" => state = "absent" /\ worker.pc = "unborn"
  /\ dispatcher \in {"deploying", "launching"} => state = "preparing" /\ worker.pc = "unborn"

OutcomesAreEverywhereTrue ==
  /\ worker.pc # "unborn" => Holds(state)
  /\ worker.pc = "unborn" => state \in {"absent", "preparing", "failed"}
  /\ Holds(worker.status)
  /\ worker.pc = "claimed" => worker.status = "completed_claimed"
  /\ \A n \in 1..Len(wire) : Holds(wire[n])

\* A command carries the receipt as answered, and later a status that holds.
CommandsCarryTruth ==
  \A c \in Command :
    LET status == command[c].status
    IN  /\ command[c].pc = "answered" =>
             status \in Promise!Status \ {"absent"} /\ (status # "accepted" => Holds(status))
        /\ command[c].pc = "verifying" => status = "completed_claimed"
        /\ command[c].pc \notin {"idle", "answered"} => Holds(status)
        /\ command[c].pc \notin {"idle", "peeking"} => receipt # "absent"
        /\ command[c].pc = "probing" => status \in {"connecting", "starting", "running"}

\* Nobody writes, or is about to write, that a supervised task is lost.
LossComesLast ==
  /\ LostMeansUnsupervised
  /\ worker.status = "carrier_lost_pending_recheck" => worker.pc \in {"ending", "gone"}
  /\ \A n \in 1..Len(wire) : wire[n] # "carrier_lost_pending_recheck"
  /\ \A c \in Command :
       command[c].status = "carrier_lost_pending_recheck" => worker.pc = "gone"

IInv ==
  /\ TypeOK
  /\ DispatchComesFirst
  /\ CarrierComesFirst
  /\ OutcomesAreEverywhereTrue
  /\ CommandsCarryTruth
  /\ LossComesLast
  /\ AcceptanceOutlivesWorker

-----------------------------------------------------------------------------
(* The Windows side as the Mac side relies on it, and liveness.            *)

\* The receipt moves in the order the runner promises.
ReceiptFollowsTheOrder == Promise!Spec

\* What the owner sees of a task stops being busy, whoever died or gave up.
BusyViewSettles == View \in Busy ~> View \notin Busy
=============================================================================
