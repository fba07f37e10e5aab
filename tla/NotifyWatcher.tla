---------------------------- MODULE NotifyWatcher ----------------------------
(***************************************************************************)
(* Background notifications of one job (delegate_notify): arm and disable, *)
(* the detached watcher processes, the notification.json receipt of each   *)
(* round, and the two outside channels: the desktop (osascript) and the    *)
(* queue that wakes the calling Codex task.                                *)
(*                                                                         *)
(* Every section under StateLock is one action; sends happen between two   *)
(* of them, under no lock.  The job itself is seen the way a watcher sees  *)
(* it: busy, settled (awaiting_review, failed, interrupted,                *)
(* needs_attention) or decided (accepted, stopped).                        *)
(***************************************************************************)
EXTENDS Naturals

CONSTANTS
  MaxRound,       \* bound on the rounds of the job
  MaxGeneration,  \* bound on the watchers ever launched
  Warning,        \* the kinds of event announced while the job is busy
  Expires,        \* whether the round has a finite timeout
  PidReuse        \* whether a dead watcher's pid may be another process's

ASSUME BoundsAssumption == MaxRound \in Nat /\ MaxGeneration \in Nat
ASSUME WarningAssumption == "terminal" \notin Warning /\ "none" \notin Warning
ASSUME SwitchAssumption == Expires \in BOOLEAN /\ PidReuse \in BOOLEAN

Round == 0 .. MaxRound
Generation == 1 .. MaxGeneration
NoGeneration == 0
Kind == Warning \cup {"terminal"}

\* A claim is written before the message is sent, its result afterwards.
\* What the channel answered (submitted, queued, failed, uncertain) decides
\* nothing: "reported" stands for each of them.
Claim == {"none", "submitting", "reported"}

Receipt ==
  [enabled : BOOLEAN,
   state : {"absent", "starting", "watching", "finished", "disabled", "superseded", "failed"},
   generation : Generation \cup {NoGeneration},
   worker : Generation \cup {NoGeneration},
   deliveries : [Kind -> Claim],
   wake_codex : BOOLEAN,
   wake : Claim]

NoReceipt ==
  [enabled |-> FALSE, state |-> "absent", generation |-> NoGeneration,
   worker |-> NoGeneration,
   deliveries |-> [k \in Kind |-> "none"], wake_codex |-> FALSE, wake |-> "none"]

\* Where a watcher is: before the first lock of watch, between two ticks, or
\* after a lock hold of tick or wake_once.
WatcherPc == {"unborn", "boot", "idle", "sending", "reporting", "waking",
              "queueing", "acknowledging", "wrapping", "gone"}
WatcherRunning == WatcherPc \ {"unborn", "gone"}

Watcher == [pc : WatcherPc, round : Round, event : Kind \cup {"none"}, done : BOOLEAN]
NoWatcher(pc) == [pc |-> pc, round |-> 0, event |-> "none", done |-> FALSE]

VARIABLES
  round,           \* the job's current round
  phase,           \* "busy", "settled" or "decided"
  stop_requested,  \* the job's flag
  receipt,         \* receipt[r]: notification.json of round r
  watcher,         \* watcher[g]: the watcher launched with generation g
  sent,            \* sent[r][k]: how often the desktop was asked to show it
  queued           \* queued[r]: how often the wake message was handed over

jobVars == <<round, phase, stop_requested>>
channelVars == <<sent, queued>>
vars == <<jobVars, receipt, watcher, channelVars>>

Init ==
  /\ round = 0
  /\ phase = "busy"
  /\ stop_requested = FALSE
  /\ receipt = [r \in Round |-> NoReceipt]
  /\ watcher = [g \in Generation |-> NoWatcher("unborn")]
  /\ sent = [r \in Round |-> [k \in Kind |-> 0]]
  /\ queued = [r \in Round |-> 0]

Moves(g, pc) == watcher' = [watcher EXCEPT ![g] = [@ EXCEPT !.pc = pc]]
Ends(g) == watcher' = [watcher EXCEPT ![g] = NoWatcher("gone")]
Saves(r, data) == receipt' = [receipt EXCEPT ![r] = data]

-----------------------------------------------------------------------------
(* The job under the watchers (the lifecycle of DelegateJob).              *)

JobChanges(r, p, stop) ==
  /\ round' = r /\ phase' = p /\ stop_requested' = stop
  /\ UNCHANGED <<receipt, watcher, channelVars>>

Settles == phase = "busy" /\ JobChanges(round, "settled", stop_requested)
StopIsRequested == JobChanges(round, phase, TRUE)
StopFinishes ==
  /\ stop_requested
  /\ \E p \in {"settled", "decided"} :
       /\ phase = "decided" => p = "decided"
       /\ JobChanges(round, p, TRUE)
Accepts == phase = "settled" /\ JobChanges(round, "decided", stop_requested)
Revises ==
  /\ phase # "busy"
  /\ round < MaxRound
  /\ JobChanges(round + 1, "busy", FALSE)

-----------------------------------------------------------------------------
(* arm and disable, for the current round.                                 *)

\* identity_state of the watcher a receipt records.  The pid of a watcher that
\* is gone may be another process's when it is looked at; one that runs and
\* cannot be verified is refused, which leaves the same state as an answer.
WatcherGone(data) ==
  IF data.worker = NoGeneration THEN TRUE ELSE watcher[data.worker].pc = "gone"
PidOccupied(data) ==
  data.worker # NoGeneration /\ (PidReuse \/ ~WatcherGone(data))

\* Mutant: disabling writes a fresh receipt.
DisableForgets ==
  /\ receipt[round] # NoReceipt
  /\ Saves(round, [NoReceipt EXCEPT !.state = "off"])
  /\ UNCHANGED <<jobVars, watcher, channelVars>>

Disable ==
  LET data == receipt[round]
  IN  /\ data # NoReceipt
      /\ Saves(round, [data EXCEPT !.enabled = FALSE, !.state = "disabled"])
      /\ UNCHANGED <<jobVars, watcher, channelVars>>

\* Everything that could be announced has been claimed already.
NothingLeft(data) ==
  data.deliveries["terminal"] # "none" /\ (data.wake_codex => data.wake # "none")

Watched(data) == data.enabled /\ data.state \in {"starting", "watching"}

\* A request that a live or an undecidable watcher answers, or that has
\* nothing left to announce, only saves the wake_codex flag.
ArmAnswered(data) ==
  /\ data.generation # NoGeneration
  /\ NothingLeft(data) \/ (Watched(data) /\ PidOccupied(data))
  /\ Saves(round, data)
  /\ UNCHANGED watcher

LaunchOutcome ==
  {"died_before_spawn", "spawn_failed", "died_after_spawn", "registered"}

\* The receipt of a new generation is saved, then the watcher is spawned and
\* its identity saved, all in one lock hold that the caller may not survive.
ArmLaunches(data, g, outcome) ==
  /\ ~NothingLeft(data)
  /\ Watched(data) => WatcherGone(data)
  /\ watcher[g].pc = "unborn" /\ \A h \in Generation : h < g => watcher[h].pc # "unborn"
  /\ Saves(round, [data EXCEPT
       !.enabled = TRUE,
       !.state = IF outcome = "spawn_failed" THEN "failed" ELSE "starting",
       !.generation = g,
       !.worker = IF outcome = "registered" THEN g ELSE NoGeneration])
  /\ IF outcome \in {"died_before_spawn", "spawn_failed"} THEN Ends(g)
     ELSE watcher' = [watcher EXCEPT ![g] = [NoWatcher("boot") EXCEPT !.round = round]]

Arm(wake_codex) ==
  LET data == [receipt[round] EXCEPT !.wake_codex = wake_codex]
  IN  /\ phase # "decided"
      /\ \/ ArmAnswered(data)
         \/ \E g \in Generation, outcome \in LaunchOutcome : ArmLaunches(data, g, outcome)
      /\ UNCHANGED <<jobVars, channelVars>>

-----------------------------------------------------------------------------
(* The watcher of generation g.                                            *)

Current(g) == receipt[watcher[g].round].generation = g
\* Mutant: a disabled subscription still counts.
CurrentGeneration(g) == Current(g)
Subscribed(g) == Current(g) /\ receipt[watcher[g].round].enabled

\* watch, first lock: only the registered watcher of the generation goes on.
Boot(g) ==
  LET r == watcher[g].round
  IN  /\ watcher[g].pc = "boot"
      /\ IF Subscribed(g) /\ receipt[r].worker = g
         THEN Saves(r, [receipt[r] EXCEPT !.state = "watching"]) /\ Moves(g, "idle")
         ELSE Ends(g) /\ UNCHANGED receipt
      /\ UNCHANGED <<jobVars, channelVars>>

\* event_for: what there is to announce about a job seen in phase p, and
\* whether the watcher is done with it.
event_for(p, deliveries, expired) ==
  IF stop_requested \/ p = "decided" THEN {[event |-> "none", done |-> TRUE]}
  ELSE IF p = "settled" \/ expired THEN {[event |-> "terminal", done |-> TRUE]}
  ELSE {[event |-> k, done |-> FALSE] :
          k \in {"none"} \cup {w \in Warning : deliveries[w] = "none"}}

\* The receipt with another claim of an announcement of kind k.
Claimed(data, k, claim) == [data EXCEPT !.deliveries = [@ EXCEPT ![k] = claim]]

\* tick, first lock.  reconcile may find the job's processes gone and settle it.
Tick(g) ==
  LET r == watcher[g].round
      data == receipt[r]
  IN  /\ watcher[g].pc = "idle"
      /\ \/ /\ ~Subscribed(g)
            /\ Ends(g)
            /\ UNCHANGED <<jobVars, receipt>>
         \/ /\ Subscribed(g) /\ round # r
            /\ Saves(r, [data EXCEPT !.state = "superseded", !.enabled = FALSE])
            /\ Ends(g)
            /\ UNCHANGED jobVars
         \/ /\ Subscribed(g) /\ round = r
            /\ \E p \in {phase} \cup (IF phase = "busy" THEN {"settled"} ELSE {}),
                  expired \in (IF Expires THEN BOOLEAN ELSE {FALSE}) :
               \E found \in event_for(p, data.deliveries, expired) :
                 LET new == found.event # "none" /\ data.deliveries[found.event] = "none"
                 IN  /\ phase' = p
                     /\ Saves(r, IF new THEN Claimed(data, found.event, "submitting")
                                 ELSE [data EXCEPT !.state = "watching"])
                     /\ watcher' = [watcher EXCEPT ![g] =
                          [pc |-> IF new THEN "sending" ELSE "waking", round |-> r,
                           event |-> IF new THEN found.event ELSE "none", done |-> found.done]]
            /\ UNCHANGED <<round, stop_requested>>
      /\ UNCHANGED channelVars

\* osascript runs under no lock.
Send(g) ==
  /\ watcher[g].pc = "sending"
  /\ sent' = [sent EXCEPT ![watcher[g].round][watcher[g].event] = @ + 1]
  /\ Moves(g, "reporting")
  /\ UNCHANGED <<jobVars, receipt, queued>>

\* tick, second lock.
Report(g) ==
  LET r == watcher[g].round
      data == receipt[r]
  IN  /\ watcher[g].pc = "reporting"
      /\ IF Current(g)
         THEN Saves(r, [Claimed(data, watcher[g].event, "reported") EXCEPT
                          !.state = IF data.enabled THEN "watching" ELSE @])
         ELSE UNCHANGED receipt
      /\ watcher' = [watcher EXCEPT ![g] = [@ EXCEPT !.pc = "waking", !.event = "none"]]
      /\ UNCHANGED <<jobVars, channelVars>>

\* Mutants: the claim of an earlier wake is not looked at; neither is the phase.
MayWakeAgain(g) ==
  /\ Subscribed(g) /\ receipt[watcher[g].round].wake_codex
  /\ round = watcher[g].round /\ ~stop_requested /\ phase = "settled"

MayWakeBusy(g) ==
  /\ Subscribed(g) /\ receipt[watcher[g].round].wake_codex
  /\ receipt[watcher[g].round].wake = "none"
  /\ round = watcher[g].round /\ ~stop_requested /\ phase # "decided"

MayWake(g) ==
  LET r == watcher[g].round
  IN  /\ Subscribed(g)
      /\ receipt[r].wake_codex
      /\ receipt[r].wake = "none"
      /\ round = r
      /\ ~stop_requested
      /\ phase = "settled"

SavesWake(g, claim) ==
  LET r == watcher[g].round IN Saves(r, [receipt[r] EXCEPT !.wake = claim])

\* wake_once, first lock.
ClaimWake(g) ==
  /\ watcher[g].pc = "waking"
  /\ IF MayWake(g)
     THEN SavesWake(g, "submitting") /\ Moves(g, "queueing")
     ELSE Moves(g, "wrapping") /\ UNCHANGED receipt
  /\ UNCHANGED <<jobVars, channelVars>>

\* codex queue runs under no lock.
Queue(g) ==
  /\ watcher[g].pc = "queueing"
  /\ queued' = [queued EXCEPT ![watcher[g].round] = @ + 1]
  /\ Moves(g, "acknowledging")
  /\ UNCHANGED <<jobVars, receipt, sent>>

\* wake_once, second lock.
Acknowledge(g) ==
  /\ watcher[g].pc = "acknowledging"
  /\ IF Current(g) THEN SavesWake(g, "reported") ELSE UNCHANGED receipt
  /\ Moves(g, "wrapping")
  /\ UNCHANGED <<jobVars, channelVars>>

\* Mutant: a watcher finishes after its first tick.
WrapUpOnce(g) ==
  /\ watcher[g].pc = "wrapping"
  /\ receipt' = IF Subscribed(g) THEN [receipt EXCEPT ![watcher[g].round].state = "finished"]
                ELSE receipt
  /\ Ends(g)
  /\ UNCHANGED <<jobVars, channelVars>>

\* tick, last lock; a watcher that is not done sleeps and ticks again.
WrapUp(g) ==
  LET r == watcher[g].round
  IN  /\ watcher[g].pc = "wrapping"
      /\ IF watcher[g].done /\ Subscribed(g)
         THEN Saves(r, [receipt[r] EXCEPT !.state = "finished"])
         ELSE UNCHANGED receipt
      /\ IF watcher[g].done THEN Ends(g) ELSE Moves(g, "idle")
      /\ UNCHANGED <<jobVars, channelVars>>

WatcherStep(g) ==
  \/ Boot(g)
  \/ Tick(g)
  \/ Send(g)
  \/ Report(g)
  \/ Acknowledge(g)
  \/ ClaimWake(g)
  \/ Queue(g)
  \/ WrapUp(g)

WatcherDies(g) ==
  /\ watcher[g].pc \in WatcherRunning
  /\ Ends(g)
  /\ UNCHANGED <<jobVars, receipt, channelVars>>

-----------------------------------------------------------------------------
Job == Settles \/ StopIsRequested \/ StopFinishes \/ Accepts \/ Revises

Next ==
  \/ Job
  \/ Disable
  \/ \E wake_codex \in BOOLEAN : Arm(wake_codex)
  \/ \E g \in Generation : WatcherStep(g) \/ WatcherDies(g)

Spec == Init /\ [][Next]_vars

FairSpec == Spec /\ \A g \in Generation : WF_vars(WatcherStep(g))

-----------------------------------------------------------------------------
\* Every variable has its type.
TypeOK ==
  /\ round \in Round
  /\ phase \in {"busy", "settled", "decided"}
  /\ stop_requested \in BOOLEAN
  /\ receipt \in [Round -> Receipt]
  /\ watcher \in [Generation -> Watcher]
  /\ sent \in [Round -> [Kind -> Nat]]
  /\ queued \in [Round -> Nat]

\* Repeated arms, watchers that die and watchers of older generations that
\* still run never announce the same thing of a round twice, on either channel.
DeliveredAtMostOnce ==
  \A r \in Round : queued[r] <= 1 /\ \A k \in Kind : sent[r][k] <= 1

\* Codex is woken for a round only after the round settled, although the
\* message is handed over after the lock was released.
WakeFollowsSettlement ==
  \A r \in Round : queued[r] > 0 => r < round \/ phase # "busy"

\* "submitting" covers a crash: whatever reached a channel is in the receipt,
\* and a receipt that reports a result reports it of a message that was sent.
ReceiptsAreHonest ==
  \A r \in Round :
    /\ queued[r] > 0 => receipt[r].wake # "none"
    /\ receipt[r].wake = "reported" => queued[r] > 0
    /\ \A k \in Kind :
         /\ sent[r][k] > 0 => receipt[r].deliveries[k] # "none"
         /\ receipt[r].deliveries[k] = "reported" => sent[r][k] > 0

Claims(r) == {k \in Kind : receipt[r].deliveries[k] # "none"}

\* While a subscription is disabled or superseded, and once the job is decided
\* or a stop was requested, no watcher claims anything new about the round:
\* "accepted or explicitly stopped work stays quiet".
QuietRoundsStayQuiet ==
  [][\A r \in Round :
       \/ ~receipt[r].enabled
       \/ r = round /\ (stop_requested \/ phase = "decided")
       \/ r # round
       => Claims(r)' = Claims(r) /\ (receipt[r].wake = "none" => receipt'[r].wake = "none")]_vars

\* Watcher g is past its first lock and the round it follows awaits a notice.
Awaited(g, r) ==
  /\ receipt[r].generation = g /\ receipt[r].enabled
  /\ round = r /\ phase = "settled" /\ ~stop_requested

Follows(g, r) == watcher[g].pc \in WatcherRunning \ {"boot"} /\ watcher[g].round = r

\* A watcher that survives claims the notice of the end of its round, unless
\* the round is decided, superseded or unsubscribed first.
SettlementIsAnnounced ==
  \A g \in Generation, r \in Round :
    Awaited(g, r) /\ Follows(g, r) ~>
      \/ receipt[r].deliveries["terminal"] # "none"
      \/ ~Awaited(g, r)
      \/ ~Follows(g, r) /\ receipt[r].state # "finished"

-----------------------------------------------------------------------------
(* The inductive invariant: a claim has one holder until its result is in. *)

Notifying(g) == watcher[g].pc \in {"sending", "reporting"}
Waking(g) == watcher[g].pc \in {"queueing", "acknowledging"}

\* A watcher between the locks of a notice has claimed it, and knows whether
\* the desktop was asked.
NoticesAreClaimed ==
  \A g \in Generation : Notifying(g) =>
    LET r == watcher[g].round
        k == watcher[g].event
    IN  /\ k \in Kind
        /\ receipt[r].deliveries[k] = "submitting"
        /\ sent[r][k] = IF watcher[g].pc = "sending" THEN 0 ELSE 1

NoticesHaveOneSender ==
  \A g, h \in Generation :
    Notifying(g) /\ Notifying(h)
      /\ watcher[g].round = watcher[h].round /\ watcher[g].event = watcher[h].event => g = h

\* The same for the wake message.
WakesAreClaimed ==
  \A g \in Generation : Waking(g) =>
    LET r == watcher[g].round
    IN  /\ receipt[r].wake = "submitting"
        /\ queued[r] = IF watcher[g].pc = "queueing" THEN 0 ELSE 1

WakesHaveOneSender ==
  \A g, h \in Generation :
    Waking(g) /\ Waking(h) /\ watcher[g].round = watcher[h].round => g = h

\* A wake is claimed of a settled round, and no earlier round comes back.
WakeIsOfASettledRound ==
  \A r \in Round : receipt[r].wake # "none" =>
    r <= round /\ (r < round \/ phase # "busy")

IInv ==
  /\ TypeOK
  /\ DeliveredAtMostOnce
  /\ ReceiptsAreHonest
  /\ NoticesAreClaimed
  /\ NoticesHaveOneSender
  /\ WakesAreClaimed
  /\ WakesHaveOneSender
  /\ WakeIsOfASettledRound
=============================================================================
