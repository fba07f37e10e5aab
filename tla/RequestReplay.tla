---------------------------- MODULE RequestReplay ----------------------------
(***************************************************************************)
(* dispatch_request: a client that loses a reply repeats start or revise   *)
(* with the same request_id, and must never get a second run.  Clients,    *)
(* MCP servers and the replies between them may fail at any moment; all    *)
(* that survives is the receipt of the request id and the request stored   *)
(* in the round it committed.                                              *)
(*                                                                         *)
(* The per-request flock spans the whole dispatch, StateLock only the scan *)
(* and the commit inside the callback: other requests run in between.      *)
(***************************************************************************)
EXTENDS Naturals, Sequences

CONSTANTS
  Caller,     \* processes that dispatch, each one request at a time
  RequestId,  \* request_key: an owner's request ids
  Digest,     \* request_digest: what is asked for
  NoDigest

ASSUME NoDigestAssumption == NoDigest \notin Digest

\* Where a caller is in dispatch_request; "answered" and "refused" are what it
\* saw of its last request.
CallerPc == {"idle", "locked", "checked", "scanned", "intended", "committed",
             "answered", "refused"}
Holding == {"locked", "checked", "scanned", "intended", "committed"}

Request == [id : RequestId, digest : Digest]

VARIABLES
  receipt,   \* receipt[id]: the digest in the request's receipt file
  runs,      \* runs[id]: the rounds committed for the request, newest last
  caller,    \* caller[c]: what c asks for
  pc         \* pc[c]: how far it is

vars == <<receipt, runs, caller, pc>>

Init ==
  /\ receipt = [id \in RequestId |-> NoDigest]
  /\ runs = [id \in RequestId |-> <<>>]
  /\ caller \in [Caller -> Request]
  /\ pc = [c \in Caller |-> "idle"]

Becomes(c, state) == pc' = [pc EXCEPT ![c] = state]

-----------------------------------------------------------------------------
\* Mutant: nobody holds a request lock.
NoRequestLock(c) == TRUE

\* The request lock of c's id is free.
RequestLockFree(c) ==
  \A other \in Caller : pc[other] \in Holding => caller[other].id # caller[c].id

\* A new request, or the same one again after a reply that was lost.
Ask(c, request) ==
  /\ pc[c] \in {"idle", "answered", "refused"}
  /\ caller' = [caller EXCEPT ![c] = request]
  /\ Becomes(c, "idle")
  /\ UNCHANGED <<receipt, runs>>

Acquire(c) ==
  /\ pc[c] = "idle"
  /\ RequestLockFree(c)
  /\ Becomes(c, "locked")
  /\ UNCHANGED <<receipt, runs, caller>>

\* A receipt of other inputs refuses the request.
CheckReceipt(c) ==
  LET known == receipt[caller[c].id]
  IN  /\ pc[c] = "locked"
      /\ Becomes(c, IF known \in {NoDigest, caller[c].digest} THEN "checked" ELSE "refused")
      /\ UNCHANGED <<receipt, runs, caller>>

\* Mutant: the receipt is trusted, and the rounds are not scanned.
ScanNothing(c) ==
  /\ pc[c] = "checked"
  /\ Becomes(c, "scanned")
  /\ UNCHANGED <<receipt, runs, caller>>

\* Under StateLock: a round of any of the owner's jobs that carries the request
\* answers it, or refuses other inputs.
ScanRounds(c) ==
  LET found == runs[caller[c].id]
  IN  /\ pc[c] = "checked"
      /\ Becomes(c, CASE found = <<>> -> "scanned"
                      [] found # <<>> /\ found[1] = caller[c].digest -> "answered"
                      [] OTHER -> "refused")
      /\ UNCHANGED <<receipt, runs, caller>>

WriteReceipt(c) ==
  /\ pc[c] = "scanned"
  /\ receipt' = [receipt EXCEPT ![caller[c].id] = caller[c].digest]
  /\ Becomes(c, "intended")
  /\ UNCHANGED <<runs, caller>>

\* The callback: start or revise commits a round that carries the request, or
\* raises before it commits (conflicts, quota, limits, stale rounds).
Callback(c) ==
  /\ pc[c] = "intended"
  /\ \/ /\ runs' = [runs EXCEPT ![caller[c].id] = Append(@, caller[c].digest)]
        /\ Becomes(c, "committed")
     \/ Becomes(c, "refused") /\ UNCHANGED runs
  /\ UNCHANGED <<receipt, caller>>

\* read: the committed job is the reply; raising after the commit (the worker
\* could not be spawned, a lock timeout) is a refusal the client sees.
Reply(c) ==
  /\ pc[c] = "committed"
  /\ \E result \in {"answered", "refused"} : Becomes(c, result)
  /\ UNCHANGED <<receipt, runs, caller>>

\* The server dies with its locks, or the client never sees the reply.
Lost(c) ==
  /\ pc[c] \in Holding
  /\ Becomes(c, "idle")
  /\ UNCHANGED <<receipt, runs, caller>>

Dispatch(c) ==
  Acquire(c) \/ CheckReceipt(c) \/ ScanRounds(c) \/ WriteReceipt(c) \/ Callback(c) \/ Reply(c)

Next ==
  \/ \E c \in Caller, request \in Request : Ask(c, request)
  \/ \E c \in Caller : Dispatch(c) \/ Lost(c)

Spec == Init /\ [][Next]_vars

-----------------------------------------------------------------------------
\* Every variable has its type.
TypeOK ==
  /\ receipt \in [RequestId -> Digest \cup {NoDigest}]
  /\ runs \in [RequestId -> Seq(Digest)]
  /\ caller \in [Caller -> Request]
  /\ pc \in [Caller -> CallerPc]

\* "A crashed request never silently starts a second run", however often and by
\* however many callers it is repeated.
RunOncePerRequest == \A id \in RequestId : Len(runs[id]) <= 1

\* A reply is about the run of exactly these inputs, never about what another
\* use of the request id asked for.
AnswersNameTheRun ==
  \A c \in Caller :
    pc[c] = "answered" => runs[caller[c].id] = <<caller[c].digest>>

\* The receipt is written before the run and agrees with it, so a repeat with
\* other inputs is refused from the receipt alone.
RunsHaveReceipts ==
  \A id \in RequestId : runs[id] # <<>> => receipt[id] = runs[id][1]

-----------------------------------------------------------------------------
(* Why: the inductive invariant.                                           *)

RequestLocked ==
  \A c, d \in Caller :
    c # d /\ pc[c] \in Holding /\ pc[d] \in Holding => caller[c].id # caller[d].id

\* What a caller has seen under the request lock stays true while it holds it.
SeenIsStable ==
  \A c \in Caller :
    LET id == caller[c].id
        digest == caller[c].digest
    IN  /\ pc[c] \in {"checked", "scanned"} => receipt[id] \in {NoDigest, digest}
        /\ pc[c] \in {"scanned", "intended"} => runs[id] = <<>>
        /\ pc[c] \in {"intended", "committed"} => receipt[id] = digest
        /\ pc[c] = "committed" => runs[id] = <<digest>>

ReplayInv ==
  /\ TypeOK
  /\ RequestLocked
  /\ SeenIsStable
  /\ RunOncePerRequest
  /\ AnswersNameTheRun
  /\ RunsHaveReceipts
=============================================================================
