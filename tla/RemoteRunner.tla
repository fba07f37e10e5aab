----------------------------- MODULE RemoteRunner -----------------------------
(***************************************************************************)
(* The Windows side of a remote task (remote_codex_runner.cjs): the runner *)
(* process that dispatches a request, the agent it spawns, the job and     *)
(* lock directories, and the receipt and reclaim commands.                 *)
(*                                                                         *)
(* A runner lives as long as its SSH carrier, so it may be killed between  *)
(* any two of its writes; each write that another process can see is a     *)
(* step.  The directories outlive it.  A runner that is alive beats every  *)
(* five seconds, so the keepalive window only passes after it is gone.     *)
(***************************************************************************)

CONSTANTS
  Request,         \* request ids, each with its fixed working directory
  Directory,       \* canonical working directories
  cwd,             \* cwd[r]: the directory of request r
  NoRequest,       \* the owner of a lock without owner.json
  Command          \* receipt and reclaim processes

ASSUME CwdAssumption == cwd \in [Request -> Directory]
ASSUME NoRequestAssumption == NoRequest \notin Request

\* A request may be dispatched twice: a carrier that was lost and retried, or
\* the same request from a second state root of the Mac.
Attempt == {"first", "again"}

VARIABLES
  receipt,  \* receipt[r]: status in receipt.json; "absent": no job directory
  lock,     \* lock[d]: the lock directory of d and its owner.json
  runner,   \* runner[r][a]: where that attempt's dispatch is
  agent,    \* agent[r][a]: the Codex or Kimi process it spawned
  silent,   \* silent[r]: the last heartbeat is older than the window
  command,  \* command[c]: where a receipt or reclaim process is
  snatched  \* history: directories whose lock a reclaim removed though it had
            \* validated an earlier one

vars == <<receipt, lock, runner, agent, silent, command, snatched>>

Outcome == {"cwd_busy", "completed_claimed", "failed", "timed_out", "killed_by_carrier_loss"}
Status == {"absent", "unwritten", "accepted", "starting", "running"} \cup Outcome

\* No lock directory; a lock directory without its owner.json.
NoLock == [held |-> FALSE, owner |-> NoRequest, process |-> FALSE]
EmptyLock == [held |-> TRUE, owner |-> NoRequest, process |-> FALSE]
LockRecord == [held : BOOLEAN, owner : Request \cup {NoRequest}, process : BOOLEAN]

\* "astray": running, but its runner could not identify it, failed to kill it and
\* let it go.
AgentState == {"none", "live", "astray", "gone"}

RunnerPc == {"unborn", "made", "accepted", "locked", "owner", "spawned", "started",
             "running", "failing", "releasing", "removing", "gone"}
RunnerLive == RunnerPc \ {"unborn", "gone"}

CommandPc == {"idle", "classifying", "validated", "unlinked", "removed"}
CommandRecord == [request : Request \cup {NoRequest}, pc : CommandPc, owner : Request \cup {NoRequest}]
Idle == [request |-> NoRequest, pc |-> "idle", owner |-> NoRequest]

Init ==
  /\ receipt = [r \in Request |-> "absent"]
  /\ lock = [d \in Directory |-> NoLock]
  /\ runner = [r \in Request |-> [a \in Attempt |-> "unborn"]]
  /\ agent = [r \in Request |-> [a \in Attempt |-> "none"]]
  /\ silent = [r \in Request |-> FALSE]
  /\ command = [c \in Command |-> Idle]
  /\ snatched = {}

Goes(r, a, from, to) ==
  /\ runner[r][a] = from
  /\ runner' = [runner EXCEPT ![r][a] = to]

Writes(r, status) == receipt' = [receipt EXCEPT ![r] = status]

-----------------------------------------------------------------------------
(* dispatch.                                                               *)

\* Mutant: the job directory is reused.
JobReused(r) == receipt[r] # "unwritten"

\* mkdir of the job directory succeeds.
JobIsNew(r) == receipt[r] = "absent"

\* Only the attempt that creates the job directory goes on; any other answers
\* with the stored receipt, or fails when there is none yet.
MakeJob(r, a) ==
  /\ runner[r][a] = "unborn"
  /\ IF JobIsNew(r)
     THEN Goes(r, a, "unborn", "made") /\ Writes(r, "unwritten")
     ELSE Goes(r, a, "unborn", "gone") /\ UNCHANGED receipt
  /\ UNCHANGED <<lock, agent, silent, command, snatched>>

\* request.json, then receipt.json; before both, receipt answers not found.
WriteAccepted(r, a) ==
  /\ Goes(r, a, "made", "accepted")
  /\ Writes(r, "accepted")
  /\ UNCHANGED <<lock, agent, silent, command, snatched>>

\* Mutant: an existing lock directory is taken over.
LockReusable(d) == TRUE

LockIsFree(d) == ~lock[d].held

TakeLock(r, a) ==
  /\ runner[r][a] = "accepted"
  /\ IF LockIsFree(cwd[r])
     THEN /\ lock' = [lock EXCEPT ![cwd[r]] = EmptyLock]
          /\ Goes(r, a, "accepted", "locked")
          /\ UNCHANGED receipt
     ELSE /\ Writes(r, "cwd_busy")
          /\ Goes(r, a, "accepted", "gone")
          /\ UNCHANGED lock
  /\ UNCHANGED <<agent, silent, command, snatched>>

Owned(r, process) ==
  lock' = [lock EXCEPT ![cwd[r]] = [held |-> TRUE, owner |-> r, process |-> process]]

\* atomicWrite opens a file of the directory: it throws once a reclaim removed it,
\* and the dispatch ends there as if its carrier had broken.
WriteOwner(r, a) ==
  /\ Goes(r, a, "locked", "owner")
  /\ lock[cwd[r]].held
  /\ Owned(r, FALSE)
  /\ UNCHANGED <<receipt, agent, silent, command, snatched>>

\* prepareCodex or prepareKimi throws.
PrepareFails(r, a) ==
  /\ Goes(r, a, "owner", "releasing")
  /\ Writes(r, "failed")
  /\ UNCHANGED <<lock, agent, silent, command, snatched>>

Spawn(r, a) ==
  /\ Goes(r, a, "owner", "spawned")
  /\ agent' = [agent EXCEPT ![r][a] = "live"]
  /\ UNCHANGED <<receipt, lock, silent, command, snatched>>

\* processIdentity cannot describe the new child: taskkill may kill it or fail,
\* its result is not looked at, the request fails and the lock is released.
SpawnUnverified(r, a) ==
  /\ Goes(r, a, "spawned", "releasing")
  /\ Writes(r, "failed")
  /\ \/ agent' = [agent EXCEPT ![r][a] = "gone"]
     \/ agent[r][a] = "live" /\ agent' = [agent EXCEPT ![r][a] = "astray"]
  /\ UNCHANGED <<lock, silent, command, snatched>>

WriteStarting(r, a) ==
  /\ Goes(r, a, "spawned", "started")
  /\ Writes(r, "starting")
  /\ UNCHANGED <<lock, agent, silent, command, snatched>>

\* owner.json now names the process too; from here the agent's events count.
NameProcess(r, a) ==
  /\ Goes(r, a, "started", "running")
  /\ lock[cwd[r]].held
  /\ Owned(r, TRUE)
  /\ UNCHANGED <<receipt, agent, silent, command, snatched>>

\* An owner.json that cannot be written is reported and the agent goes on.
Heartbeat(r, a) ==
  /\ runner[r][a] = "running"
  /\ Writes(r, "running")
  /\ IF lock[cwd[r]].held THEN Owned(r, TRUE) ELSE UNCHANGED lock
  /\ UNCHANGED <<runner, agent, silent, command, snatched>>

\* terminateForFailure: the receipt fails first, then the agent is killed.
StreamFails(r, a) ==
  /\ Goes(r, a, "running", "failing")
  /\ Writes(r, "failed")
  /\ UNCHANGED <<lock, agent, silent, command, snatched>>

\* finish: exit code, evidence and timeout decide; a timeout that fired before
\* the agent was gone also replaces the failure of its stream.
Finish(r, a) ==
  /\ runner[r][a] \in {"running", "failing"}
  /\ agent[r][a] = "gone"
  /\ \E status \in {"completed_claimed", "failed", "timed_out"} :
       /\ runner[r][a] = "failing" => status # "completed_claimed"
       /\ Writes(r, status)
  /\ runner' = [runner EXCEPT ![r][a] = "releasing"]
  /\ UNCHANGED <<lock, agent, silent, command, snatched>>

\* releaseLock: only a lock whose owner.json names this request, owner.json
\* first and then the directory.
UnlinkOwn(r, a) ==
  /\ runner[r][a] = "releasing"
  /\ IF lock[cwd[r]].owner = r
     THEN /\ lock' = [lock EXCEPT ![cwd[r]] = EmptyLock]
          /\ Goes(r, a, "releasing", "removing")
     ELSE /\ Goes(r, a, "releasing", "gone")
          /\ UNCHANGED lock
  /\ UNCHANGED <<receipt, agent, silent, command, snatched>>

\* rmdir removes an empty directory only.
Removed(d) == IF lock[d].owner = NoRequest THEN [lock EXCEPT ![d] = NoLock] ELSE lock

RemoveOwn(r, a) ==
  /\ Goes(r, a, "removing", "gone")
  /\ lock' = Removed(cwd[r])
  /\ UNCHANGED <<receipt, agent, silent, command, snatched>>

-----------------------------------------------------------------------------
(* The receipt and reclaim commands, each a process of its own.            *)

AgentGone(r) == \A a \in Attempt : agent[r][a] \notin {"live", "astray"}

Doing(c, r, pc, owner) ==
  command' = [command EXCEPT ![c] = [request |-> r, pc |-> pc, owner |-> owner]]
Done(c) == command' = [command EXCEPT ![c] = Idle]

\* Mutants of Lost: the process is not probed; any receipt is reconciled.
LostBySilence(r) == receipt[r] \in {"starting", "running"} /\ silent[r]
LostAnyway(r) == receipt[r] \notin {"absent", "unwritten"} /\ silent[r] /\ AgentGone(r)

\* reconcileRunningReceipt: window over and the exact process positively gone.
Lost(r) == receipt[r] \in {"starting", "running"} /\ silent[r] /\ AgentGone(r)

\* queryReceipt reads, probes, and only then writes.
QueryReceipt(c, r) ==
  /\ command[c] = Idle
  /\ Lost(r)
  /\ Doing(c, r, "classifying", NoRequest)
  /\ UNCHANGED <<receipt, lock, runner, agent, silent, snatched>>

Classify(c) ==
  /\ command[c].pc = "classifying"
  /\ Writes(command[c].request, "killed_by_carrier_loss")
  /\ Done(c)
  /\ UNCHANGED <<lock, runner, agent, silent, snatched>>

\* Mutant: ownership of the lock is not compared.
AnyLockReclaimable(r) ==
  /\ receipt[r] = "killed_by_carrier_loss"
  /\ lock[cwd[r]].owner # NoRequest
  /\ AgentGone(r)

\* reclaimLock up to validateReclaimEvidence.
Reclaimable(r) ==
  /\ receipt[r] = "killed_by_carrier_loss"
  /\ lock[cwd[r]].owner = r
  /\ lock[cwd[r]].process
  /\ silent[r]
  /\ AgentGone(r)

ReclaimLock(c, r) ==
  /\ command[c] = Idle
  /\ Reclaimable(r)
  /\ Doing(c, r, "validated", lock[cwd[r]].owner)
  /\ UNCHANGED <<receipt, lock, runner, agent, silent, snatched>>

\* unlinkSync throws when owner.json is not there any more.  It may be another
\* request's by now: a second reclaim of the same lock may have freed the directory.
UnlinkReclaimed(c) ==
  LET r == command[c].request
  IN  /\ command[c].pc = "validated"
      /\ IF lock[cwd[r]].owner # NoRequest
         THEN /\ lock' = [lock EXCEPT ![cwd[r]] = EmptyLock]
              /\ Doing(c, r, "unlinked", NoRequest)
         ELSE Done(c) /\ UNCHANGED lock
      /\ snatched' = snatched \cup
           {d \in {cwd[r]} : lock[d].owner \notin {NoRequest, command[c].owner}}
      /\ UNCHANGED <<receipt, runner, agent, silent>>

\* rmdirSync throws when the directory is gone or somebody's owner.json is in it.
RemoveReclaimed(c) ==
  LET r == command[c].request
  IN  /\ command[c].pc = "unlinked"
      /\ lock' = Removed(cwd[r])
      /\ IF lock[cwd[r]].held /\ lock[cwd[r]].owner = NoRequest
         THEN Doing(c, r, "removed", NoRequest) ELSE Done(c)
      /\ UNCHANGED <<receipt, runner, agent, silent, snatched>>

\* The receipt keeps its status and gains lock_reclaimed.
RecordReclaim(c) ==
  /\ command[c].pc = "removed"
  /\ Writes(command[c].request, "killed_by_carrier_loss")
  /\ Done(c)
  /\ UNCHANGED <<lock, runner, agent, silent, snatched>>

\* The SSH connection of a command is lost.
CommandDies(c) ==
  /\ command[c] # Idle
  /\ Done(c)
  /\ UNCHANGED <<receipt, lock, runner, agent, silent, snatched>>

-----------------------------------------------------------------------------
(* The environment.                                                        *)

\* The carrier breaks: the runner is killed, its agent possibly later.
CarrierLost(r, a) ==
  /\ runner[r][a] \in RunnerLive
  /\ runner' = [runner EXCEPT ![r][a] = "gone"]
  /\ UNCHANGED <<receipt, lock, agent, silent, command, snatched>>

\* The agent finishes, crashes, times out or dies with the connection.
AgentExits(r, a) ==
  /\ agent[r][a] \in {"live", "astray"}
  /\ agent' = [agent EXCEPT ![r][a] = "gone"]
  /\ UNCHANGED <<receipt, lock, runner, silent, command, snatched>>

WindowPasses(r) ==
  /\ ~silent[r]
  /\ receipt[r] \notin {"absent", "unwritten"}
  /\ \A a \in Attempt : runner[r][a] \notin RunnerLive
  /\ silent' = [silent EXCEPT ![r] = TRUE]
  /\ UNCHANGED <<receipt, lock, runner, agent, command, snatched>>

-----------------------------------------------------------------------------
Dispatch(r, a) ==
  \/ MakeJob(r, a) \/ WriteAccepted(r, a) \/ TakeLock(r, a) \/ WriteOwner(r, a)
  \/ PrepareFails(r, a) \/ Spawn(r, a) \/ SpawnUnverified(r, a)
  \/ WriteStarting(r, a) \/ NameProcess(r, a) \/ Heartbeat(r, a)
  \/ StreamFails(r, a) \/ Finish(r, a) \/ UnlinkOwn(r, a) \/ RemoveOwn(r, a)

Next ==
  \/ \E r \in Request, a \in Attempt : Dispatch(r, a) \/ CarrierLost(r, a) \/ AgentExits(r, a)
  \/ \E r \in Request : WindowPasses(r)
  \/ \E c \in Command, r \in Request : QueryReceipt(c, r) \/ ReclaimLock(c, r)
  \/ \E c \in Command : Classify(c) \/ UnlinkReclaimed(c) \/ RemoveReclaimed(c)
                          \/ RecordReclaim(c) \/ CommandDies(c)

Spec == Init /\ [][Next]_vars

-----------------------------------------------------------------------------
(* Properties.                                                             *)

\* Every variable has its type.
TypeOK ==
  /\ receipt \in [Request -> Status]
  /\ lock \in [Directory -> LockRecord]
  /\ runner \in [Request -> [Attempt -> RunnerPc]]
  /\ agent \in [Request -> [Attempt -> AgentState]]
  /\ silent \in [Request -> BOOLEAN]
  /\ command \in [Command -> CommandRecord]
  /\ snatched \subseteq Directory

\* The agents that the directory lock protects.  It does not protect one that the
\* code itself lets go of while it may still run (astray), nor a directory whose
\* lock a late reclaim removed though it had validated an earlier one (snatched).
Working(r, a) == agent[r][a] = "live" /\ cwd[r] \notin snatched

\* The directory lock: but for those two cases two agents never work in one
\* directory, whichever carriers break, whenever runners die and however many
\* reclaims are under way.
CwdExclusive ==
  \A r, q \in Request, a, b \in Attempt :
    Working(r, a) /\ Working(q, b) /\ cwd[r] = cwd[q] => r = q /\ a = b

\* But for the same two cases a lock is never released or reclaimed under an agent
\* that is still running.
LiveAgentKeepsLock ==
  \A r \in Request, a \in Attempt : Working(r, a) => lock[cwd[r]].owner = r

\* A request id runs one agent ever, whatever is retried.
LaunchedOnce ==
  \A r \in Request : \A a, b \in Attempt :
    agent[r][a] # "none" /\ agent[r][b] # "none" => a = b

\* What is reported as completed or as killed has nothing left running.
OutcomeMeansOver ==
  \A r \in Request :
    receipt[r] \in {"completed_claimed", "killed_by_carrier_loss"} => AgentGone(r)

\* The receipts of all requests move in the order that the Mac side relies on,
\* whichever carriers break and whichever receipt or reclaim writes late: an
\* outcome is final, except that a failure may turn out to be a timeout.
Promise ==
  INSTANCE RemoteReceipt WITH
    receipt <- [r \in Request |-> IF receipt[r] = "unwritten" THEN "absent" ELSE receipt[r]]
ReceiptsFollowTheOrder == Promise!Spec

\* ARCHITECTURE.md: "A lock can be reclaimed only by an explicit command after
\* ... matching request/cwd ownership": no reclaim takes another's lock away.
ReclaimTakesItsOwnLock ==
  [][\A c \in Command :
       command[c].pc = "validated" /\ command'[c].pc = "unlinked" =>
         lock[cwd[command[c].request]].owner = command[c].request]_vars

-----------------------------------------------------------------------------
(* Why the properties hold: the inductive invariant.                       *)

\* One attempt makes the job directory, and no other gets past it.
Started(r, a) == runner[r][a] \in RunnerLive \/ agent[r][a] # "none"

OneAttemptStarts ==
  \A r \in Request :
    /\ \A a, b \in Attempt : Started(r, a) /\ Started(r, b) => a = b
    /\ receipt[r] = "absent" => \A a \in Attempt : ~Started(r, a)

\* An agent exists from its spawn on, and is over before the lock is released.
AgentMayBe(pc, state) ==
  /\ pc \in {"unborn", "made", "accepted", "locked", "owner"} => state = "none"
  /\ pc \in {"releasing", "removing"} => state # "live"
  /\ state = "astray" => pc \in {"releasing", "removing", "gone"}

AgentFollowsRunner ==
  \A r \in Request, a \in Attempt : AgentMayBe(runner[r][a], agent[r][a])

\* An agent that was let go of has a failed request.
AstrayMeansFailed ==
  \A r \in Request, a \in Attempt : agent[r][a] = "astray" => receipt[r] = "failed"

\* What the receipt says while a runner is at each of its steps.
ReceiptMayBe(pc, status) ==
  /\ pc = "made" => status = "unwritten"
  /\ pc \in {"accepted", "locked", "owner", "spawned"} => status = "accepted"
  /\ pc = "started" => status = "starting"
  /\ pc = "running" => status \in {"starting", "running"}
  /\ pc = "failing" => status = "failed"
  /\ pc \in {"releasing", "removing"} => status \in {"failed", "completed_claimed", "timed_out"}

ReceiptFollowsRunner ==
  \A r \in Request, a \in Attempt : ReceiptMayBe(runner[r][a], receipt[r])

\* A window only passes after the runner is gone, and nothing starts again.
SilentRunnersAreGone ==
  \A r \in Request : silent[r] =>
    /\ receipt[r] \notin {"absent", "unwritten"}
    /\ \A a \in Attempt : runner[r][a] \notin RunnerLive

\* What a command found out stays true until it writes, however late.
MayAct(r, pc) ==
  /\ r \in Request /\ silent[r] /\ AgentGone(r)
  /\ receipt[r] = "killed_by_carrier_loss"
       \/ (pc = "classifying" /\ receipt[r] \in {"starting", "running"})

CommandsStayRight ==
  \A c \in Command :
    command[c].pc # "idle" => MayAct(command[c].request, command[c].pc)

KilledIsSilent ==
  \A r \in Request : receipt[r] = "killed_by_carrier_loss" => silent[r]

ReceiptInv ==
  /\ TypeOK
  /\ OneAttemptStarts
  /\ AgentFollowsRunner
  /\ AstrayMeansFailed
  /\ ReceiptFollowsRunner
  /\ SilentRunnersAreGone
  /\ CommandsStayRight
  /\ KilledIsSilent
  /\ OutcomeMeansOver

\* The lock of a directory belongs to one runner, from mkdir to rmdir, as long as
\* it has not been snatched.
LockPc == {"locked", "owner", "spawned", "started", "running", "failing", "releasing", "removing"}
InLock(r, a) == runner[r][a] \in LockPc /\ cwd[r] \notin snatched

OwnerAt(r, pc) == IF pc \in {"locked", "removing"} THEN NoRequest ELSE r

HoldersAreSingle ==
  \A r, q \in Request, a, b \in Attempt :
    InLock(r, a) /\ InLock(q, b) /\ cwd[r] = cwd[q] => r = q /\ a = b

HolderIsOwner ==
  \A r \in Request, a \in Attempt : InLock(r, a) =>
    /\ lock[cwd[r]].held
    /\ lock[cwd[r]].owner = OwnerAt(r, runner[r][a])

OwnedLocksAreHeld ==
  \A d \in Directory : lock[d].owner # NoRequest => lock[d].held

\* A reclaim validates the lock of its own request.
ReclaimsValidateTheirOwn ==
  \A c \in Command : command[c].pc = "validated" => command[c].owner = command[c].request

\* Between its unlink and its rmdir a reclaim has the empty directory for itself.
Unlinked(c, d) == command[c].pc = "unlinked" /\ cwd[command[c].request] = d

ReclaimOwnsTheLock ==
  \A c \in Command, d \in Directory \ snatched : Unlinked(c, d) =>
    /\ lock[d].held /\ lock[d].owner = NoRequest
    /\ \A q \in Request, a \in Attempt : cwd[q] = d => ~InLock(q, a)
    /\ \A other \in Command : Unlinked(other, d) => other = c

LockInv ==
  /\ HoldersAreSingle
  /\ HolderIsOwner
  /\ OwnedLocksAreHeld
  /\ ReclaimsValidateTheirOwn
  /\ ReclaimOwnsTheLock
  /\ LiveAgentKeepsLock

IInv == ReceiptInv /\ LockInv
=============================================================================
