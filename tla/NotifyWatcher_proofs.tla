-------------------------- MODULE NotifyWatcher_proofs --------------------------
(* What background notifications promise, for any number of rounds,        *)
(* watchers and kinds of warning.                                          *)
EXTENDS NotifyWatcher, TLAPS

-----------------------------------------------------------------------------
(* Types.                                                                  *)

LEMMA KindType == "terminal" \in Kind /\ "none" \notin Kind /\ Warning \subseteq Kind
BY WarningAssumption DEF Kind

LEMMA RoundType == (\A r \in Round : r \in Nat) /\ 0 \in Round
BY BoundsAssumption DEF Round

LEMMA NoneIsNone == NoGeneration \notin Generation
BY DEF Generation, NoGeneration

\* What the steps save of a receipt has its type, and keeps what was claimed
\* unless it is the claim that is saved.
Resaves(data, new) ==
  new \in Receipt /\ new.deliveries = data.deliveries /\ new.wake = data.wake

LEMMA ReceiptTypes ==
  ASSUME NEW data \in Receipt
  PROVE  /\ \A b \in BOOLEAN : Resaves(data, [data EXCEPT !.wake_codex = b])
         /\ \A s \in {"watching", "finished"} : Resaves(data, [data EXCEPT !.state = s])
         /\ Resaves(data, [data EXCEPT !.state = "superseded", !.enabled = FALSE])
         /\ Resaves(data, [data EXCEPT !.enabled = FALSE, !.state = "disabled"])
         /\ \A s \in {"failed", "starting"}, g \in Generation, w \in Generation \cup {NoGeneration} :
              Resaves(data, [data EXCEPT !.enabled = TRUE, !.state = s, !.generation = g, !.worker = w])
BY DEF Receipt, Resaves

LEMMA ClaimTypes ==
  ASSUME NEW data \in Receipt
  PROVE  /\ \A k \in Kind, c \in Claim :
              /\ Claimed(data, k, c) \in Receipt
              /\ Claimed(data, k, c).deliveries = [data.deliveries EXCEPT ![k] = c]
              /\ Claimed(data, k, c).wake = data.wake
         /\ \A c \in Claim :
              /\ [data EXCEPT !.wake = c] \in Receipt
              /\ [data EXCEPT !.wake = c].deliveries = data.deliveries
              /\ [data EXCEPT !.wake = c].wake = c
BY DEF Receipt, Claimed

LEMMA WatcherTypes ==
  ASSUME NEW w \in Watcher
  PROVE  /\ w.pc \in WatcherPc /\ w.round \in Round /\ w.event \in Kind \cup {"none"}
         /\ \A pc \in WatcherPc : NoWatcher(pc) \in Watcher
         /\ \A pc \in WatcherPc : [w EXCEPT !.pc = pc] \in Watcher
         /\ [w EXCEPT !.pc = "waking", !.event = "none"] \in Watcher
BY RoundType DEF Watcher, NoWatcher, WatcherPc

\* A save of round r, and a step of watcher g, at a glance.
OthersKeep(r) == \A q \in Round \ {r} : receipt'[q] = receipt[q]
OthersRest(g) == \A h \in Generation \ {g} : watcher'[h] = watcher[h]

LEMMA SavesOne ==
  ASSUME TypeOK, NEW r \in Round, NEW data \in Receipt, Saves(r, data)
  PROVE  /\ receipt' \in [Round -> Receipt] /\ receipt'[r] = data /\ OthersKeep(r)
BY DEF TypeOK, Saves, OthersKeep

LEMMA MovesOne ==
  ASSUME TypeOK, NEW g \in Generation
  PROVE  /\ \A w \in Watcher : watcher' = [watcher EXCEPT ![g] = w] =>
              /\ watcher' \in [Generation -> Watcher] /\ watcher'[g] = w /\ OthersRest(g)
         /\ \A pc \in WatcherPc : Moves(g, pc) =>
              /\ watcher' \in [Generation -> Watcher] /\ OthersRest(g)
              /\ watcher'[g] = [watcher[g] EXCEPT !.pc = pc]
              /\ watcher'[g].pc = pc
              /\ watcher'[g].round = watcher[g].round /\ watcher'[g].event = watcher[g].event
         /\ Ends(g) =>
              /\ watcher' \in [Generation -> Watcher] /\ OthersRest(g)
              /\ watcher'[g].pc = "gone"
<1>1. watcher \in [Generation -> Watcher] /\ watcher[g] \in Watcher
  BY DEF TypeOK
<1>2. \A w \in Watcher : watcher' = [watcher EXCEPT ![g] = w] =>
        watcher' \in [Generation -> Watcher] /\ watcher'[g] = w /\ OthersRest(g)
  BY <1>1 DEF OthersRest
<1>3. ASSUME NEW pc \in WatcherPc, Moves(g, pc)
      PROVE  /\ watcher' \in [Generation -> Watcher] /\ OthersRest(g)
             /\ watcher'[g] = [watcher[g] EXCEPT !.pc = pc]
             /\ watcher'[g].pc = pc
             /\ watcher'[g].round = watcher[g].round /\ watcher'[g].event = watcher[g].event
  <2> DEFINE w == [watcher[g] EXCEPT !.pc = pc]
  <2>1. w \in Watcher /\ w.pc = pc /\ w.round = watcher[g].round /\ w.event = watcher[g].event
    BY <1>1 DEF Watcher
  <2>2. watcher' = [watcher EXCEPT ![g] = w]
    BY <1>3 DEF Moves
  <2> HIDE DEF w
  <2>3. watcher' \in [Generation -> Watcher] /\ watcher'[g] = w /\ OthersRest(g)
    BY <1>2, <2>1, <2>2
  <2> QED
    BY <2>1, <2>3 DEF w
<1>4. ASSUME Ends(g)
      PROVE  /\ watcher' \in [Generation -> Watcher] /\ OthersRest(g)
             /\ watcher'[g].pc = "gone"
  <2>1. NoWatcher("gone") \in Watcher /\ NoWatcher("gone").pc = "gone"
    BY <1>1, WatcherTypes DEF NoWatcher, WatcherPc
  <2> QED
    BY <1>2, <1>4, <2>1 DEF Ends
<1> QED
  BY <1>2, <1>3, <1>4

-----------------------------------------------------------------------------
(* Steps that claim nothing.                                               *)

KeepsClaims ==
  \A r \in Round : /\ receipt'[r].deliveries = receipt[r].deliveries
                   /\ receipt'[r].wake = receipt[r].wake

\* Nobody starts to hold a claim.
HoldersStay ==
  \A g \in Generation : (Notifying(g))' \/ (Waking(g))' => watcher'[g] = watcher[g]

JobAdvances ==
  /\ round \in Nat /\ round' \in Nat /\ round <= round'
  /\ round' = round => (phase' = "busy" => phase = "busy")

LEMMA SettledStays ==
  ASSUME JobAdvances, NEW r \in Nat, r <= round, r < round \/ phase # "busy"
  PROVE  r <= round' /\ (r < round' \/ phase' # "busy")
BY DEF JobAdvances

\* The invariant, channel by channel.
NoticeInv ==
  /\ \A r \in Round, k \in Kind :
       /\ sent[r][k] <= 1
       /\ sent[r][k] > 0 => receipt[r].deliveries[k] # "none"
       /\ receipt[r].deliveries[k] = "reported" => sent[r][k] > 0
  /\ NoticesAreClaimed /\ NoticesHaveOneSender

WakeInv ==
  /\ \A r \in Round :
       /\ queued[r] <= 1
       /\ queued[r] > 0 => receipt[r].wake # "none"
       /\ receipt[r].wake = "reported" => queued[r] > 0
  /\ WakesAreClaimed /\ WakesHaveOneSender /\ WakeIsOfASettledRound

LEMMA Halves ==
  /\ IInv => TypeOK /\ NoticeInv /\ WakeInv
  /\ TypeOK' /\ NoticeInv' /\ WakeInv' => IInv'
BY DEF IInv, NoticeInv, WakeInv, DeliveredAtMostOnce, ReceiptsAreHonest

NoticesKept ==
  /\ \A r \in Round : receipt'[r].deliveries = receipt[r].deliveries
  /\ \A g \in Generation : (Notifying(g))' => watcher'[g] = watcher[g]
  /\ UNCHANGED sent

LEMMA NoticeStep ==
  ASSUME IInv, NoticesKept
  PROVE  NoticeInv'
<1> USE Halves DEF NoticeInv, NoticesKept
<1>1. NoticesAreClaimed'
  <2> SUFFICES ASSUME NEW g \in Generation, (Notifying(g))'
               PROVE  LET r == watcher'[g].round
                          k == watcher'[g].event
                      IN  /\ k \in Kind
                          /\ receipt'[r].deliveries[k] = "submitting"
                          /\ sent'[r][k] = IF watcher'[g].pc = "sending" THEN 0 ELSE 1
    BY DEF NoticesAreClaimed
  <2>1. watcher'[g] = watcher[g] /\ Notifying(g) /\ watcher[g].round \in Round
    BY WatcherTypes DEF Notifying, TypeOK
  <2> QED
    BY <2>1 DEF NoticesAreClaimed
<1>2. NoticesHaveOneSender'
  BY DEF NoticesHaveOneSender, Notifying
<1> QED
  BY <1>1, <1>2

WakesKept ==
  /\ \A r \in Round : receipt'[r].wake = receipt[r].wake
  /\ \A g \in Generation : (Waking(g))' => watcher'[g] = watcher[g]
  /\ UNCHANGED queued
  /\ JobAdvances

LEMMA WakeStep ==
  ASSUME IInv, WakesKept
  PROVE  WakeInv'
<1> USE Halves DEF WakeInv, WakesKept
<1>1. WakesAreClaimed'
  <2> SUFFICES ASSUME NEW g \in Generation, (Waking(g))'
               PROVE  LET r == watcher'[g].round
                      IN  /\ receipt'[r].wake = "submitting"
                          /\ queued'[r] = IF watcher'[g].pc = "queueing" THEN 0 ELSE 1
    BY DEF WakesAreClaimed
  <2>1. watcher'[g] = watcher[g] /\ Waking(g) /\ watcher[g].round \in Round
    BY WatcherTypes DEF Waking, TypeOK
  <2> QED
    BY <2>1 DEF WakesAreClaimed
<1>2. WakesHaveOneSender'
  BY DEF WakesHaveOneSender, Waking
<1>3. WakeIsOfASettledRound'
  BY SettledStays, RoundType DEF WakeIsOfASettledRound
<1> QED
  BY <1>1, <1>2, <1>3

LEMMA QuietStep ==
  ASSUME IInv, TypeOK', KeepsClaims, HoldersStay, JobAdvances, UNCHANGED channelVars
  PROVE  IInv'
<1>1. NoticesKept /\ WakesKept
  BY DEF NoticesKept, WakesKept, KeepsClaims, HoldersStay, channelVars
<1> QED
  BY <1>1, NoticeStep, WakeStep, Halves

\* A step of the job.
LEMMA JobStep ==
  ASSUME IInv, Job
  PROVE  IInv'
<1>1. TypeOK /\ UNCHANGED <<receipt, watcher, channelVars>>
  BY DEF IInv, Job, Settles, StopIsRequested, StopFinishes, Accepts, Revises, JobChanges
<1>2. /\ round' \in Round /\ phase' \in {"busy", "settled", "decided"}
      /\ stop_requested' \in BOOLEAN
      /\ JobAdvances
  <2>1. CASE Revises
    <3>1. round' = round + 1 /\ phase' = "busy" /\ stop_requested' = FALSE /\ round < MaxRound
      BY <2>1 DEF Revises, JobChanges
    <3>2. round \in Nat /\ round + 1 \in Round
      <4>1. round \in Round
        BY <1>1 DEF TypeOK
      <4> QED
        BY <3>1, <4>1, BoundsAssumption DEF Round
    <3>3. round' \in Nat /\ round <= round' /\ round' # round
      BY ONLY <3>1, <3>2
    <3> QED
      BY <3>1, <3>2, <3>3 DEF JobAdvances
  <2>2. CASE Settles \/ StopIsRequested \/ StopFinishes \/ Accepts
    <3>1. /\ round' = round /\ phase' \in {"busy", "settled", "decided"}
          /\ stop_requested' \in BOOLEAN /\ (phase' = "busy" => phase = "busy")
      BY <1>1, <2>2 DEF Settles, StopIsRequested, StopFinishes, Accepts, JobChanges, TypeOK
    <3> QED
      BY <1>1, <3>1, RoundType DEF JobAdvances, TypeOK
  <2> QED
    BY <2>1, <2>2 DEF Job
<1>3. KeepsClaims /\ HoldersStay
  BY <1>1 DEF KeepsClaims, HoldersStay
<1>4. TypeOK'
  BY <1>1, <1>2 DEF TypeOK, channelVars
<1> QED
  BY <1>1, <1>2, <1>3, <1>4, QuietStep

\* A step that leaves the job and the channels alone.
LEMMA StillJob ==
  ASSUME TypeOK, UNCHANGED jobVars
  PROVE  JobAdvances /\ round' \in Round /\ phase' \in {"busy", "settled", "decided"}
         /\ stop_requested' \in BOOLEAN
BY RoundType DEF JobAdvances, TypeOK, jobVars

LEMMA QuietSave ==
  ASSUME IInv, receipt' \in [Round -> Receipt], watcher' \in [Generation -> Watcher],
         KeepsClaims, HoldersStay, UNCHANGED <<jobVars, channelVars>>
  PROVE  IInv'
<1>1. TypeOK'
  BY StillJob DEF IInv, TypeOK, channelVars
<1> QED
  BY <1>1, StillJob, QuietStep DEF IInv

\* A save that keeps what was claimed of its round.
LEMMA SaveKeeps ==
  ASSUME TypeOK, NEW r \in Round, NEW data, Resaves(receipt[r], data), Saves(r, data)
  PROVE  receipt' \in [Round -> Receipt] /\ KeepsClaims
BY DEF Resaves, TypeOK, Saves, KeepsClaims

\* A watcher that moves to a place without a claim.
LEMMA MoveRests ==
  ASSUME NEW g \in Generation, OthersRest(g),
         watcher'[g].pc \notin {"sending", "reporting", "queueing", "acknowledging"}
  PROVE  HoldersStay
BY DEF OthersRest, HoldersStay, Notifying, Waking

LEMMA DisableStep ==
  ASSUME IInv, Disable
  PROVE  IInv' /\ KeepsClaims
<1> DEFINE data == [receipt[round] EXCEPT !.enabled = FALSE, !.state = "disabled"]
<1>1. TypeOK /\ round \in Round /\ receipt[round] \in Receipt /\ Saves(round, data)
      /\ UNCHANGED <<jobVars, watcher, channelVars>>
  BY DEF IInv, TypeOK, Disable
<1>2. Resaves(receipt[round], data)
  BY <1>1, ReceiptTypes
<1> HIDE DEF data
<1>3. receipt' \in [Round -> Receipt] /\ KeepsClaims
  BY <1>1, <1>2, SaveKeeps
<1>4. watcher' \in [Generation -> Watcher] /\ HoldersStay
  BY <1>1 DEF TypeOK, HoldersStay
<1> QED
  BY <1>1, <1>3, <1>4, QuietSave

LEMMA ArmStep ==
  ASSUME IInv, NEW wake_codex \in BOOLEAN, Arm(wake_codex)
  PROVE  IInv' /\ KeepsClaims
<1> DEFINE data == [receipt[round] EXCEPT !.wake_codex = wake_codex]
<1>1. TypeOK /\ round \in Round /\ receipt[round] \in Receipt /\ UNCHANGED <<jobVars, channelVars>>
  BY DEF IInv, TypeOK, Arm
<1>2. Resaves(receipt[round], data)
  BY <1>1, ReceiptTypes
<1>3. ArmAnswered(data) \/ \E g \in Generation, outcome \in LaunchOutcome :
                              ArmLaunches(data, g, outcome)
  BY DEF Arm
<1> HIDE DEF data
<1>4. CASE ArmAnswered(data)
  <2>1. Saves(round, data) /\ UNCHANGED watcher
    BY <1>4 DEF ArmAnswered
  <2>2. receipt' \in [Round -> Receipt] /\ KeepsClaims
    BY <1>1, <1>2, <2>1, SaveKeeps
  <2>3. watcher' \in [Generation -> Watcher] /\ HoldersStay
    BY <1>1, <2>1 DEF TypeOK, HoldersStay
  <2> QED
    BY <1>1, <2>2, <2>3, QuietSave
<1>5. ASSUME NEW g \in Generation, NEW outcome \in LaunchOutcome, ArmLaunches(data, g, outcome)
      PROVE  IInv' /\ KeepsClaims
  <2> DEFINE state == IF outcome = "spawn_failed" THEN "failed" ELSE "starting"
             w == IF outcome = "registered" THEN g ELSE NoGeneration
             new == [data EXCEPT !.enabled = TRUE, !.state = state, !.generation = g, !.worker = w]
             booted == [NoWatcher("boot") EXCEPT !.round = round]
  <2>1. Saves(round, new)
    BY <1>5 DEF ArmLaunches
  <2>2. state \in {"failed", "starting"} /\ w \in Generation \cup {NoGeneration}
    OBVIOUS
  <2> HIDE DEF state, w
  <2>3. Resaves(receipt[round], new)
    <3>1. data \in Receipt
      BY <1>2 DEF Resaves
    <3>2. Resaves(data, new)
      BY <2>2, <3>1, ReceiptTypes
    <3> QED
      BY <1>2, <3>2 DEF Resaves
  <2> HIDE DEF new
  <2>4. receipt' \in [Round -> Receipt] /\ KeepsClaims
    BY <1>1, <2>1, <2>3, SaveKeeps
  <2>5. Ends(g) \/ watcher' = [watcher EXCEPT ![g] = booted]
    BY <1>5 DEF ArmLaunches
  <2>6. booted \in Watcher /\ booted.pc = "boot"
    BY <1>1 DEF NoWatcher, Watcher, WatcherPc
  <2> HIDE DEF booted
  <2>7. watcher' \in [Generation -> Watcher] /\ HoldersStay
    BY <1>1, <2>5, <2>6, MovesOne, MoveRests
  <2> QED
    BY <1>1, <2>4, <2>7, QuietSave
<1> QED
  BY <1>3, <1>4, <1>5

\* A watcher's record, and the receipt it follows.
LEMMA WatcherHas ==
  ASSUME IInv, NEW g \in Generation
  PROVE  /\ TypeOK /\ watcher[g] \in Watcher /\ watcher[g].round \in Round
         /\ watcher[g].event \in Kind \cup {"none"} /\ watcher[g].done \in BOOLEAN
         /\ receipt[watcher[g].round] \in Receipt
         /\ receipt[watcher[g].round].wake \in Claim
         /\ receipt[watcher[g].round].deliveries \in [Kind -> Claim]
         /\ sent[watcher[g].round] \in [Kind -> Nat]
         /\ queued[watcher[g].round] \in Nat
BY DEF IInv, TypeOK, Watcher, Receipt

\* The watcher's steps that neither claim nor report.
LEMMA RestStep ==
  ASSUME IInv, NEW g \in Generation, UNCHANGED <<jobVars, channelVars>>,
         Ends(g) \/ \E pc \in {"idle", "waking", "wrapping"} : Moves(g, pc),
         \/ UNCHANGED receipt
         \/ \E s \in {"watching", "finished"} :
              Saves(watcher[g].round, [receipt[watcher[g].round] EXCEPT !.state = s])
         \/ Saves(watcher[g].round,
                  [receipt[watcher[g].round] EXCEPT !.state = "superseded", !.enabled = FALSE])
  PROVE  IInv' /\ KeepsClaims
<1> DEFINE r == watcher[g].round
<1>1. TypeOK /\ r \in Round /\ receipt[r] \in Receipt
  BY WatcherHas
<1>2. watcher' \in [Generation -> Watcher] /\ HoldersStay
  <2>1. {"idle", "waking", "wrapping"} \subseteq WatcherPc
    BY DEF WatcherPc
  <2> QED
    BY <1>1, <2>1, MovesOne, MoveRests
<1>3. receipt' \in [Round -> Receipt] /\ KeepsClaims
  <2>1. CASE UNCHANGED receipt
    BY <1>1, <2>1 DEF TypeOK, KeepsClaims
  <2>2. ASSUME NEW s \in {"watching", "finished"}, Saves(r, [receipt[r] EXCEPT !.state = s])
        PROVE  receipt' \in [Round -> Receipt] /\ KeepsClaims
    <3> DEFINE data == [receipt[r] EXCEPT !.state = s]
    <3>1. Resaves(receipt[r], data)
      BY <1>1, ReceiptTypes
    <3>2. Saves(r, data)
      BY <2>2
    <3> HIDE DEF data
    <3> QED
      BY <1>1, <3>1, <3>2, SaveKeeps
  <2>3. CASE Saves(r, [receipt[r] EXCEPT !.state = "superseded", !.enabled = FALSE])
    <3> DEFINE data == [receipt[r] EXCEPT !.state = "superseded", !.enabled = FALSE]
    <3>1. Resaves(receipt[r], data)
      BY <1>1, ReceiptTypes
    <3>2. Saves(r, data)
      BY <2>3
    <3> HIDE DEF data
    <3> QED
      BY <1>1, <3>1, <3>2, SaveKeeps
  <2> QED
    BY <2>1, <2>2, <2>3
<1> QED
  BY <1>2, <1>3, QuietSave

LEMMA BootStep ==
  ASSUME IInv, NEW g \in Generation, Boot(g)
  PROVE  IInv' /\ KeepsClaims
BY RestStep DEF Boot

LEMMA WrapUpStep ==
  ASSUME IInv, NEW g \in Generation, WrapUp(g)
  PROVE  IInv' /\ KeepsClaims
BY RestStep DEF WrapUp

LEMMA DeathStep ==
  ASSUME IInv, NEW g \in Generation, WatcherDies(g)
  PROVE  IInv' /\ KeepsClaims
BY RestStep DEF WatcherDies

-----------------------------------------------------------------------------
(* The steps around a notice.                                              *)

\* The step of QuietRoundsStayQuiet, and its claim for one round.
NothingNew(r) ==
  Claims(r)' = Claims(r) /\ (receipt[r].wake = "none" => receipt'[r].wake = "none")

QuietRound(r) ==
  \/ ~receipt[r].enabled
  \/ r = round /\ (stop_requested \/ phase = "decided")
  \/ r # round

StaysQuiet == \A r \in Round : QuietRound(r) => NothingNew(r)

LEMMA KeptIsQuiet == ASSUME KeepsClaims PROVE StaysQuiet
BY DEF KeepsClaims, StaysQuiet, NothingNew, Claims

\* What happened to one claim of round r, and to nothing else on the channel.
ClaimBecomes(r, k, claim) ==
  /\ receipt'[r].deliveries = [receipt[r].deliveries EXCEPT ![k] = claim]
  /\ receipt'[r].wake = receipt[r].wake
  /\ OthersKeep(r)

LEMMA ClaimBecomesAt ==
  ASSUME TypeOK, NEW r \in Round, NEW k \in Kind, NEW claim \in Claim, ClaimBecomes(r, k, claim)
  PROVE  /\ receipt'[r].deliveries[k] = claim
         /\ \A q \in Round, l \in Kind :
              q # r \/ l # k => receipt'[q].deliveries[l] = receipt[q].deliveries[l]
         /\ \A q \in Round : receipt'[q].wake = receipt[q].wake
<1>1. receipt[r].deliveries \in [Kind -> Claim]
  BY DEF TypeOK, Receipt
<1> QED
  BY <1>1 DEF ClaimBecomes, OthersKeep

\* Tick has found something to announce, and claims it.
LEMMA NoticeIsClaimed ==
  ASSUME IInv, NEW g \in Generation, NEW k \in Kind, NEW r \in Round,
         receipt[r].deliveries[k] = "none", ClaimBecomes(r, k, "submitting"),
         OthersRest(g), watcher'[g].pc = "sending", watcher'[g].round = r, watcher'[g].event = k,
         JobAdvances, UNCHANGED channelVars
  PROVE  NoticeInv' /\ WakeInv'
<1> USE Halves
<1>1. /\ receipt'[r].deliveries[k] = "submitting"
      /\ \A q \in Round, l \in Kind :
           q # r \/ l # k => receipt'[q].deliveries[l] = receipt[q].deliveries[l]
      /\ \A q \in Round : receipt'[q].wake = receipt[q].wake
      /\ UNCHANGED <<sent, queued>>
  BY ClaimBecomesAt DEF Claim, channelVars
<1>2. sent[r][k] = 0
  <2>1. ~(sent[r][k] > 0) /\ sent[r][k] \in Nat
    BY DEF NoticeInv, TypeOK
  <2> QED
    BY ONLY <2>1
<1>3. ASSUME NEW h \in Generation \ {g}, (Notifying(h))'
      PROVE  /\ watcher'[h] = watcher[h] /\ Notifying(h) /\ watcher[h].round \in Round
             /\ watcher[h].event \in Kind
             /\ receipt[watcher[h].round].deliveries[watcher[h].event] = "submitting"
             /\ watcher[h].round # r \/ watcher[h].event # k
  BY <1>3, WatcherTypes DEF NoticeInv, NoticesAreClaimed, Notifying, OthersRest, TypeOK
<1>4. NoticesAreClaimed'
  <2> SUFFICES ASSUME NEW h \in Generation, (Notifying(h))'
               PROVE  LET q == watcher'[h].round
                          l == watcher'[h].event
                      IN  /\ l \in Kind
                          /\ receipt'[q].deliveries[l] = "submitting"
                          /\ sent'[q][l] = IF watcher'[h].pc = "sending" THEN 0 ELSE 1
    BY DEF NoticesAreClaimed
  <2>1. CASE h = g
    BY <1>1, <1>2, <2>1
  <2>2. CASE h # g
    BY <1>1, <1>3, <2>2 DEF NoticeInv, NoticesAreClaimed
  <2> QED
    BY <2>1, <2>2
<1>5. NoticesHaveOneSender'
  BY <1>3 DEF NoticeInv, NoticesHaveOneSender, Notifying
<1>6. NoticeInv'
  BY <1>1, <1>4, <1>5 DEF NoticeInv
<1>7. WakesKept
  BY <1>1 DEF WakesKept, OthersRest, Waking
<1> QED
  BY <1>6, <1>7, WakeStep

\* What event_for finds: nothing about a job that is stopped or decided.
LEMMA EventFound ==
  ASSUME NEW p \in {"busy", "settled", "decided"}, NEW expired \in BOOLEAN, NEW deliveries,
         NEW found \in event_for(p, deliveries, expired), stop_requested \in BOOLEAN
  PROVE  /\ found.event \in Kind \cup {"none"} /\ found.done \in BOOLEAN
         /\ found.event # "none" => ~stop_requested /\ p # "decided"
<1>1. CASE stop_requested \/ p = "decided"
  <2>1. found = [event |-> "none", done |-> TRUE]
    BY <1>1, Zenon DEF event_for
  <2> QED
    BY <2>1
<1>2. CASE ~(stop_requested \/ p = "decided") /\ (p = "settled" \/ expired)
  <2>1. found = [event |-> "terminal", done |-> TRUE]
    BY <1>2, Zenon DEF event_for
  <2> QED
    BY <1>2, <2>1, KindType
<1>3. CASE ~(stop_requested \/ p = "decided") /\ ~(p = "settled" \/ expired)
  <2>1. \E k \in {"none"} \cup Warning : found = [event |-> k, done |-> FALSE]
    <3>1. found \in {[event |-> k, done |-> FALSE] :
                      k \in {"none"} \cup {w \in Warning : deliveries[w] = "none"}}
      BY <1>3, Zenon DEF event_for
    <3> QED
      BY <3>1
  <2> QED
    BY <1>3, <2>1, KindType
<1> QED
  BY <1>1, <1>2, <1>3

LEMMA TickStep ==
  ASSUME IInv, NEW g \in Generation, Tick(g)
  PROVE  IInv' /\ StaysQuiet
<1> DEFINE r == watcher[g].round
           data == receipt[r]
<1>1. /\ TypeOK /\ watcher[g] \in Watcher /\ r \in Round /\ data \in Receipt
      /\ data.deliveries \in [Kind -> Claim] /\ UNCHANGED channelVars
      /\ round \in Round /\ stop_requested \in BOOLEAN /\ phase \in {"busy", "settled", "decided"}
  BY WatcherHas DEF Tick, TypeOK
<1>2. CASE Ends(g) /\ UNCHANGED <<jobVars, receipt>>
  BY <1>1, <1>2, RestStep, KeptIsQuiet
<1>3. CASE /\ Saves(r, [data EXCEPT !.state = "superseded", !.enabled = FALSE])
           /\ Ends(g) /\ UNCHANGED jobVars
  BY <1>1, <1>3, RestStep, KeptIsQuiet
<1>4. ASSUME Subscribed(g), round = r, UNCHANGED <<round, stop_requested>>,
             NEW p \in {phase} \cup (IF phase = "busy" THEN {"settled"} ELSE {}),
             NEW expired \in (IF Expires THEN BOOLEAN ELSE {FALSE}),
             NEW found \in event_for(p, data.deliveries, expired),
             LET new == found.event # "none" /\ data.deliveries[found.event] = "none"
             IN  /\ phase' = p
                 /\ Saves(r, IF new THEN Claimed(data, found.event, "submitting")
                             ELSE [data EXCEPT !.state = "watching"])
                 /\ watcher' = [watcher EXCEPT ![g] =
                      [pc |-> IF new THEN "sending" ELSE "waking", round |-> r,
                       event |-> IF new THEN found.event ELSE "none", done |-> found.done]]
      PROVE  IInv' /\ StaysQuiet
  <2> DEFINE new == found.event # "none" /\ data.deliveries[found.event] = "none"
             w == [pc |-> IF new THEN "sending" ELSE "waking", round |-> r,
                   event |-> IF new THEN found.event ELSE "none", done |-> found.done]
             saved == IF new THEN Claimed(data, found.event, "submitting")
                      ELSE [data EXCEPT !.state = "watching"]
  <2>1. /\ p \in {"busy", "settled", "decided"} /\ expired \in BOOLEAN
        /\ p = "busy" => phase = "busy"
        /\ phase = "decided" => p = "decided"
        /\ phase' = p /\ Saves(r, saved) /\ watcher' = [watcher EXCEPT ![g] = w]
    BY <1>1, <1>4
  <2>2. /\ found.event \in Kind \cup {"none"} /\ found.done \in BOOLEAN
        /\ found.event # "none" => ~stop_requested /\ p # "decided"
    BY <1>1, <1>4, <2>1, EventFound
  <2>3. JobAdvances
    BY <1>1, <1>4, <2>1, RoundType DEF JobAdvances
  <2>4. w \in Watcher /\ w.pc = (IF new THEN "sending" ELSE "waking") /\ w.round = r
        /\ (new => w.event = found.event)
    BY <1>1, <2>2 DEF Watcher, WatcherPc
  <2> HIDE DEF w
  <2>5. watcher' \in [Generation -> Watcher] /\ watcher'[g] = w /\ OthersRest(g)
    BY <1>1, <2>1, <2>4, MovesOne
  <2>6. CASE ~new
    <3>1. saved = [data EXCEPT !.state = "watching"]
      BY <2>6
    <3>2. Resaves(receipt[r], [data EXCEPT !.state = "watching"])
      BY <1>1, ReceiptTypes
    <3> HIDE DEF new, saved
    <3>3. receipt' \in [Round -> Receipt] /\ KeepsClaims
      BY <1>1, <2>1, <3>1, <3>2, SaveKeeps
    <3>4. HoldersStay
      BY <2>4, <2>5, <2>6, MoveRests
    <3>5. TypeOK'
      BY <1>1, <1>4, <2>1, <2>5, <3>3 DEF TypeOK, channelVars
    <3> QED
      BY <1>1, <2>3, <3>3, <3>4, <3>5, QuietStep, KeptIsQuiet
  <2>7. CASE new
    <3> DEFINE k == found.event
    <3>1. k \in Kind /\ data.deliveries[k] = "none" /\ ~stop_requested /\ p # "decided"
      BY <2>2, <2>7
    <3>2. saved = Claimed(data, k, "submitting")
      BY <2>7
    <3>3. "submitting" \in Claim
      BY DEF Claim
    <3>4. w.pc = "sending" /\ w.event = k /\ w.round = r
      BY <2>4, <2>7
    <3> HIDE DEF new, saved, k
    <3>5. /\ saved \in Receipt /\ saved.wake = data.wake
          /\ saved.deliveries = [data.deliveries EXCEPT ![k] = "submitting"]
      BY <1>1, <3>1, <3>2, <3>3, ClaimTypes
    <3>6. receipt' \in [Round -> Receipt] /\ ClaimBecomes(r, k, "submitting") /\ OthersKeep(r)
      BY <1>1, <2>1, <3>5, SavesOne DEF ClaimBecomes
    <3>7. TypeOK'
      BY <1>1, <1>4, <2>1, <2>5, <3>6 DEF TypeOK, channelVars
    <3>8. NoticeInv' /\ WakeInv'
      BY <1>1, <2>3, <2>5, <3>1, <3>4, <3>6, NoticeIsClaimed
    <3>9. StaysQuiet
      <4>1. ~QuietRound(r)
        BY <1>4, <2>1, <3>1 DEF QuietRound, Subscribed
      <4> QED
        BY <3>6, <4>1 DEF StaysQuiet, NothingNew, Claims, OthersKeep
    <3> QED
      BY <3>7, <3>8, <3>9, Halves
  <2> QED
    BY <2>6, <2>7
<1> QED
  BY <1>2, <1>3, <1>4 DEF Tick

\* A watcher that has a claim moves on with it.
LEMMA NoticeHolder ==
  ASSUME IInv, NEW g \in Generation, Notifying(g)
  PROVE  /\ watcher[g].event \in Kind
         /\ receipt[watcher[g].round].deliveries[watcher[g].event] = "submitting"
         /\ sent[watcher[g].round][watcher[g].event] = IF watcher[g].pc = "sending" THEN 0 ELSE 1
         /\ \A h \in Generation \ {g} : Notifying(h) =>
              watcher[h].round # watcher[g].round \/ watcher[h].event # watcher[g].event
BY DEF IInv, NoticesAreClaimed, NoticesHaveOneSender

\* The claims that others than g hold, while g's own is settled by the step.
LEMMA OtherNotices ==
  ASSUME IInv, NEW g \in Generation, NEW r \in Round, NEW k \in Kind, OthersRest(g),
         \A h \in Generation \ {g} : Notifying(h) => watcher[h].round # r \/ watcher[h].event # k,
         \A q \in Round, l \in Kind : q # r \/ l # k =>
           receipt'[q].deliveries[l] = receipt[q].deliveries[l] /\ sent'[q][l] = sent[q][l],
         (Notifying(g))' =>
           /\ watcher'[g].round = r /\ watcher'[g].event = k
           /\ receipt'[r].deliveries[k] = "submitting"
           /\ sent'[r][k] = IF watcher'[g].pc = "sending" THEN 0 ELSE 1
  PROVE  NoticesAreClaimed' /\ NoticesHaveOneSender'
<1>1. ASSUME NEW h \in Generation \ {g}, (Notifying(h))'
      PROVE  /\ watcher'[h] = watcher[h] /\ Notifying(h) /\ watcher[h].round \in Round
             /\ watcher[h].event \in Kind
             /\ receipt[watcher[h].round].deliveries[watcher[h].event] = "submitting"
             /\ watcher[h].round # r \/ watcher[h].event # k
  BY <1>1, WatcherHas, NoticeHolder DEF Notifying, OthersRest
<1>2. NoticesAreClaimed'
  <2> SUFFICES ASSUME NEW h \in Generation, (Notifying(h))'
               PROVE  LET q == watcher'[h].round
                          l == watcher'[h].event
                      IN  /\ l \in Kind
                          /\ receipt'[q].deliveries[l] = "submitting"
                          /\ sent'[q][l] = IF watcher'[h].pc = "sending" THEN 0 ELSE 1
    BY DEF NoticesAreClaimed
  <2>1. CASE h = g
    BY <2>1
  <2>2. CASE h # g
    BY <1>1, <2>2 DEF IInv, NoticesAreClaimed
  <2> QED
    BY <2>1, <2>2
<1>3. NoticesHaveOneSender'
  BY <1>1 DEF IInv, NoticesHaveOneSender, Notifying
<1> QED
  BY <1>2, <1>3

\* Counting one more at one place of a table leaves the other places alone.
LEMMA CountsOne ==
  ASSUME NEW S, NEW T, NEW f \in [S -> [T -> Nat]], NEW x \in S, NEW y \in T,
         NEW n, n = [f EXCEPT ![x][y] = @ + 1]
  PROVE  /\ n \in [S -> [T -> Nat]] /\ n[x][y] = f[x][y] + 1
         /\ \A p \in S, q \in T : p # x \/ q # y => n[p][q] = f[p][q]
<1> DEFINE row == [f[x] EXCEPT ![y] = f[x][y] + 1]
<1>1. row \in [T -> Nat] /\ row[y] = f[x][y] + 1 /\ \A q \in T : q # y => row[q] = f[x][q]
  OBVIOUS
<1>2. n[x] = row /\ n \in [S -> [T -> Nat]] /\ \A p \in S : p # x => n[p] = f[p]
  OBVIOUS
<1> HIDE DEF row
<1> QED
  BY <1>1, <1>2

LEMMA SendStep ==
  ASSUME IInv, NEW g \in Generation, Send(g)
  PROVE  IInv' /\ StaysQuiet
<1> DEFINE r == watcher[g].round
           k == watcher[g].event
<1>1. /\ TypeOK /\ r \in Round /\ watcher[g].pc = "sending" /\ Moves(g, "reporting")
      /\ UNCHANGED <<jobVars, receipt, queued>>
      /\ sent' = [sent EXCEPT ![r][k] = @ + 1]
  BY WatcherHas DEF Send
<1>2. /\ k \in Kind /\ receipt[r].deliveries[k] = "submitting" /\ sent[r][k] = 0
      /\ \A h \in Generation \ {g} : Notifying(h) => watcher[h].round # r \/ watcher[h].event # k
  BY <1>1, NoticeHolder DEF Notifying
<1>3. /\ watcher' \in [Generation -> Watcher] /\ OthersRest(g)
      /\ watcher'[g].pc = "reporting" /\ watcher'[g].round = r /\ watcher'[g].event = k
  BY <1>1, MovesOne DEF WatcherPc
<1>4. /\ sent' \in [Round -> [Kind -> Nat]] /\ sent'[r][k] = 1
      /\ \A q \in Round, l \in Kind : q # r \/ l # k => sent'[q][l] = sent[q][l]
  <2>1. sent \in [Round -> [Kind -> Nat]] /\ sent[r][k] + 1 = 1
    BY <1>1, <1>2 DEF TypeOK
  <2>2. r \in Round /\ k \in Kind
    BY <1>1, <1>2
  <2>3. sent' = [sent EXCEPT ![r][k] = @ + 1]
    BY <1>1
  <2> HIDE DEF r, k
  <2> QED
    BY <2>1, <2>2, <2>3, CountsOne
<1>5. TypeOK' /\ JobAdvances
  BY <1>1, <1>3, <1>4, StillJob DEF TypeOK
<1> HIDE DEF r, k
<1>6. NoticesAreClaimed' /\ NoticesHaveOneSender'
  BY <1>1, <1>2, <1>3, <1>4, OtherNotices
<1>7. NoticeInv'
  <2> SUFFICES ASSUME NEW q \in Round, NEW l \in Kind
               PROVE  /\ sent'[q][l] <= 1
                      /\ sent'[q][l] > 0 => receipt[q].deliveries[l] # "none"
                      /\ receipt[q].deliveries[l] = "reported" => sent'[q][l] > 0
    BY <1>1, <1>6 DEF NoticeInv
  <2>1. CASE q = r /\ l = k
    BY <1>2, <1>4, <2>1
  <2>2. CASE q # r \/ l # k
    BY <1>4, <2>2, Halves DEF NoticeInv
  <2> QED
    BY <2>1, <2>2
<1>8. WakesKept
  BY <1>1, <1>3, <1>5 DEF WakesKept, OthersRest, Waking
<1>9. StaysQuiet
  BY <1>1, KeptIsQuiet DEF KeepsClaims
<1> QED
  BY <1>5, <1>7, <1>8, <1>9, WakeStep, Halves

LEMMA ReportStep ==
  ASSUME IInv, NEW g \in Generation, Report(g)
  PROVE  IInv' /\ StaysQuiet
<1> DEFINE r == watcher[g].round
           k == watcher[g].event
           data == receipt[r]
           w == [watcher[g] EXCEPT !.pc = "waking", !.event = "none"]
           state == IF data.enabled THEN "watching" ELSE data.state
           new == [Claimed(data, k, "reported") EXCEPT !.state = state]
<1>1. /\ TypeOK /\ r \in Round /\ data \in Receipt /\ watcher[g].pc = "reporting"
      /\ watcher[g] \in Watcher /\ watcher' = [watcher EXCEPT ![g] = w]
      /\ UNCHANGED <<jobVars, channelVars>>
  BY WatcherHas DEF Report
<1>2. /\ k \in Kind /\ data.deliveries[k] = "submitting" /\ sent[r][k] = 1
      /\ \A h \in Generation \ {g} : Notifying(h) => watcher[h].round # r \/ watcher[h].event # k
  BY <1>1, NoticeHolder DEF Notifying
<1>3. w \in Watcher /\ w.pc = "waking"
  BY <1>1, WatcherTypes DEF Watcher
<1>4. watcher' \in [Generation -> Watcher] /\ OthersRest(g) /\ watcher'[g].pc = "waking"
  <2> HIDE DEF w
  <2> QED
    BY <1>1, <1>3, MovesOne
<1>5. UNCHANGED receipt \/ Saves(r, new)
  BY <1>1 DEF Report, Claimed, Receipt
<1>6. /\ new \in Receipt /\ new.wake = data.wake
      /\ new.deliveries = [data.deliveries EXCEPT ![k] = "reported"]
  <2>1. state \in {"absent", "starting", "watching", "finished", "disabled", "superseded", "failed"}
    BY <1>1 DEF Receipt
  <2> DEFINE claimed == Claimed(data, k, "reported")
  <2>2. /\ claimed \in Receipt /\ claimed.wake = data.wake
        /\ claimed.deliveries = [data.deliveries EXCEPT ![k] = "reported"]
    BY <1>1, <1>2, ClaimTypes DEF Claim
  <2> HIDE DEF claimed, state
  <2>3. /\ [claimed EXCEPT !.state = state] \in Receipt
        /\ [claimed EXCEPT !.state = state].wake = claimed.wake
        /\ [claimed EXCEPT !.state = state].deliveries = claimed.deliveries
    BY <2>1, <2>2 DEF Receipt
  <2> QED
    BY <2>2, <2>3 DEF claimed
<1> HIDE DEF new, w
<1>7. receipt' \in [Round -> Receipt] /\ (UNCHANGED receipt \/ ClaimBecomes(r, k, "reported"))
  BY <1>1, <1>5, <1>6, SavesOne DEF TypeOK, ClaimBecomes
<1>8. /\ \A q \in Round, l \in Kind :
           q # r \/ l # k => receipt'[q].deliveries[l] = receipt[q].deliveries[l]
      /\ receipt'[r].deliveries[k] \in {"submitting", "reported"}
      /\ \A q \in Round : receipt'[q].wake = receipt[q].wake
  BY <1>1, <1>2, <1>7, ClaimBecomesAt DEF Claim
<1>9. TypeOK' /\ JobAdvances
  BY <1>1, <1>4, <1>7, StillJob DEF TypeOK, channelVars
<1>10. NoticesAreClaimed' /\ NoticesHaveOneSender'
  <2>1. ~(Notifying(g))' /\ UNCHANGED sent
    BY <1>1, <1>4 DEF Notifying, channelVars
  <2> HIDE DEF r, k
  <2> QED
    BY <1>1, <1>2, <1>4, <1>8, <2>1, OtherNotices
<1>11. NoticeInv'
  <2> SUFFICES ASSUME NEW q \in Round, NEW l \in Kind
               PROVE  /\ sent[q][l] <= 1
                      /\ sent[q][l] > 0 => receipt'[q].deliveries[l] # "none"
                      /\ receipt'[q].deliveries[l] = "reported" => sent[q][l] > 0
    BY <1>1, <1>10 DEF NoticeInv, channelVars
  <2>1. CASE q = r /\ l = k
    BY <1>2, <1>8, <2>1
  <2>2. CASE q # r \/ l # k
    BY <1>8, <2>2, Halves DEF NoticeInv
  <2> QED
    BY <2>1, <2>2
<1>12. WakesKept
  BY <1>1, <1>4, <1>8, <1>9 DEF WakesKept, OthersRest, Waking, channelVars
<1>13. StaysQuiet
  <2>1. \A q \in Round : Claims(q)' = Claims(q)
    BY <1>2, <1>8 DEF Claims
  <2> QED
    BY <1>8, <2>1 DEF StaysQuiet, NothingNew
<1> QED
  BY <1>9, <1>11, <1>12, <1>13, WakeStep, Halves

-----------------------------------------------------------------------------
(* The steps around a wake.                                                *)

\* What happened to the wake of round r, and to nothing else of the receipts.
WakeBecomes(r, claim) ==
  /\ receipt'[r].wake = claim
  /\ receipt'[r].deliveries = receipt[r].deliveries
  /\ OthersKeep(r)

LEMMA WakeSaved ==
  ASSUME IInv, NEW g \in Generation, NEW claim \in Claim, SavesWake(g, claim)
  PROVE  receipt' \in [Round -> Receipt] /\ WakeBecomes(watcher[g].round, claim)
<1> DEFINE r == watcher[g].round
           new == [receipt[r] EXCEPT !.wake = claim]
<1>1. TypeOK /\ r \in Round /\ receipt[r] \in Receipt
  BY WatcherHas
<1>2. new \in Receipt /\ new.wake = claim /\ new.deliveries = receipt[r].deliveries
  BY <1>1, ClaimTypes
<1>3. Saves(r, new)
  BY DEF SavesWake
<1> HIDE DEF new
<1> QED
  BY <1>1, <1>2, <1>3, SavesOne DEF WakeBecomes

\* The watcher that holds a wake is its round's only one.
LEMMA WakeHolder ==
  ASSUME IInv, NEW g \in Generation, Waking(g)
  PROVE  /\ receipt[watcher[g].round].wake = "submitting"
         /\ queued[watcher[g].round] = IF watcher[g].pc = "queueing" THEN 0 ELSE 1
         /\ \A h \in Generation \ {g} : Waking(h) => watcher[h].round # watcher[g].round
BY DEF IInv, WakesAreClaimed, WakesHaveOneSender

LEMMA OtherWakes ==
  ASSUME IInv, NEW g \in Generation, NEW r \in Round, OthersRest(g),
         \A h \in Generation \ {g} : Waking(h) => watcher[h].round # r,
         \A q \in Round \ {r} : receipt'[q].wake = receipt[q].wake /\ queued'[q] = queued[q],
         (Waking(g))' =>
           /\ watcher'[g].round = r
           /\ receipt'[r].wake = "submitting"
           /\ queued'[r] = IF watcher'[g].pc = "queueing" THEN 0 ELSE 1
  PROVE  WakesAreClaimed' /\ WakesHaveOneSender'
<1>1. ASSUME NEW h \in Generation \ {g}, (Waking(h))'
      PROVE  /\ watcher'[h] = watcher[h] /\ Waking(h) /\ watcher[h].round \in Round
             /\ receipt[watcher[h].round].wake = "submitting"
             /\ watcher[h].round # r
  BY <1>1, WatcherHas, WakeHolder DEF Waking, OthersRest
<1>2. WakesAreClaimed'
  <2> SUFFICES ASSUME NEW h \in Generation, (Waking(h))'
               PROVE  LET q == watcher'[h].round
                      IN  /\ receipt'[q].wake = "submitting"
                          /\ queued'[q] = IF watcher'[h].pc = "queueing" THEN 0 ELSE 1
    BY DEF WakesAreClaimed
  <2>1. CASE h = g
    BY <2>1
  <2>2. CASE h # g
    BY <1>1, <2>2 DEF IInv, WakesAreClaimed
  <2> QED
    BY <2>1, <2>2
<1>3. WakesHaveOneSender'
  BY <1>1 DEF IInv, WakesHaveOneSender, Waking
<1> QED
  BY <1>2, <1>3

\* wake_once writes a wake, or hands its message over, for the round of g, whose
\* settlement it has checked under the lock.
LEMMA WakeMoves ==
  ASSUME IInv, NEW g \in Generation, NEW r \in Round, r = watcher[g].round, OthersRest(g),
         NEW claim \in Claim, claim # "none", NEW n \in {0, 1},
         (receipt' = receipt /\ receipt[r].wake = claim) \/ WakeBecomes(r, claim),
         queued' \in [Round -> Nat], queued'[r] = n, claim = "reported" => n = 1,
         \A q \in Round \ {r} : queued'[q] = queued[q],
         r <= round /\ (r < round \/ phase # "busy"),
         \A h \in Generation \ {g} : Waking(h) => watcher[h].round # r,
         ~(Notifying(g))',
         (Waking(g))' =>
           /\ watcher'[g].round = r /\ claim = "submitting"
           /\ n = IF watcher'[g].pc = "queueing" THEN 0 ELSE 1,
         receipt' \in [Round -> Receipt], watcher' \in [Generation -> Watcher],
         UNCHANGED <<jobVars, sent>>
  PROVE  IInv'
<1>1. /\ TypeOK /\ receipt'[r].wake = claim
      /\ \A q \in Round : receipt'[q].deliveries = receipt[q].deliveries
      /\ \A q \in Round \ {r} : receipt'[q].wake = receipt[q].wake
  BY DEF IInv, WakeBecomes, OthersKeep
<1>2. TypeOK' /\ UNCHANGED <<round, phase>>
  BY <1>1, StillJob DEF TypeOK, jobVars
<1>3. NoticesKept
  BY <1>1 DEF NoticesKept, OthersRest, Notifying
<1>4. WakesAreClaimed' /\ WakesHaveOneSender'
  BY <1>1, OtherWakes
<1>5. WakeIsOfASettledRound'
  BY <1>1, <1>2 DEF IInv, WakeIsOfASettledRound
<1>6. WakeInv'
  <2> SUFFICES ASSUME NEW q \in Round
               PROVE  /\ queued'[q] <= 1
                      /\ queued'[q] > 0 => receipt'[q].wake # "none"
                      /\ receipt'[q].wake = "reported" => queued'[q] > 0
    BY <1>4, <1>5 DEF WakeInv
  <2>1. CASE q = r
    BY <1>1, <2>1
  <2>2. CASE q # r
    BY <1>1, <2>2, Halves DEF WakeInv
  <2> QED
    BY <2>1, <2>2
<1> QED
  BY <1>2, <1>3, <1>6, NoticeStep, Halves

LEMMA ClaimWakeStep ==
  ASSUME IInv, NEW g \in Generation, ClaimWake(g)
  PROVE  IInv' /\ StaysQuiet
<1> DEFINE r == watcher[g].round
<1>1. TypeOK /\ r \in Round /\ UNCHANGED <<jobVars, channelVars>> /\ watcher[g].pc = "waking"
  BY WatcherHas DEF ClaimWake
<1>2. CASE Moves(g, "wrapping") /\ UNCHANGED receipt
  BY <1>1, <1>2, RestStep, KeptIsQuiet
<1>3. CASE MayWake(g) /\ SavesWake(g, "submitting") /\ Moves(g, "queueing")
  <2>1. /\ receipt[r].enabled /\ receipt[r].wake = "none" /\ round = r
        /\ ~stop_requested /\ phase = "settled"
    BY <1>3 DEF MayWake, Subscribed
  <2>2. receipt' \in [Round -> Receipt] /\ WakeBecomes(r, "submitting") /\ "submitting" \in Claim
    BY <1>3, WakeSaved DEF Claim
  <2>3. /\ watcher' \in [Generation -> Watcher] /\ OthersRest(g)
        /\ watcher'[g].pc = "queueing" /\ watcher'[g].round = r
    BY <1>1, <1>3, MovesOne DEF WatcherPc
  <2>4. queued[r] = 0 /\ queued' = queued /\ queued \in [Round -> Nat]
    <3>1. queued[r] \in Nat /\ ~(queued[r] > 0) /\ queued' = queued /\ queued \in [Round -> Nat]
      BY <1>1, <2>1, Halves DEF WakeInv, TypeOK, channelVars
    <3> QED
      BY <3>1
  <2>5. \A h \in Generation \ {g} : Waking(h) => watcher[h].round # r
    BY <2>1, WakeHolder
  <2>6. r <= round /\ (r < round \/ phase # "busy")
    BY <1>1, <2>1, RoundType
  <2>7. IInv'
    <3>1. ~(Notifying(g))' /\ UNCHANGED sent
      BY <1>1, <2>3 DEF Notifying, channelVars
    <3> QED
      BY <1>1, <2>2, <2>3, <2>4, <2>5, <2>6, <3>1, WakeMoves
  <2>8. StaysQuiet
    <3>1. ~QuietRound(r)
      BY <2>1 DEF QuietRound
    <3> QED
      BY <2>2, <3>1 DEF StaysQuiet, NothingNew, Claims, WakeBecomes, OthersKeep
  <2> QED
    BY <2>7, <2>8
<1> QED
  BY <1>2, <1>3 DEF ClaimWake

LEMMA QueueStep ==
  ASSUME IInv, NEW g \in Generation, Queue(g)
  PROVE  IInv' /\ StaysQuiet
<1> DEFINE r == watcher[g].round
<1>1. /\ TypeOK /\ r \in Round /\ watcher[g].pc = "queueing" /\ Moves(g, "acknowledging")
      /\ queued' = [queued EXCEPT ![r] = @ + 1] /\ UNCHANGED <<jobVars, receipt, sent>>
  BY WatcherHas DEF Queue
<1>2. /\ receipt[r].wake = "submitting" /\ queued[r] = 0
      /\ \A h \in Generation \ {g} : Waking(h) => watcher[h].round # r
  BY <1>1, WakeHolder DEF Waking
<1>3. /\ watcher' \in [Generation -> Watcher] /\ OthersRest(g)
      /\ watcher'[g].pc = "acknowledging" /\ watcher'[g].round = r
  BY <1>1, MovesOne DEF WatcherPc
<1>4. /\ queued' \in [Round -> Nat] /\ queued'[r] = 1
      /\ \A q \in Round \ {r} : queued'[q] = queued[q]
  BY <1>1, <1>2 DEF TypeOK
<1>5. r <= round /\ (r < round \/ phase # "busy")
  BY <1>1, <1>2, Halves DEF WakeInv, WakeIsOfASettledRound
<1>6. receipt' \in [Round -> Receipt] /\ "submitting" \in Claim /\ ~(Notifying(g))'
  BY <1>1, <1>3 DEF TypeOK, Claim, Notifying
<1>7. IInv'
  BY <1>1, <1>2, <1>3, <1>4, <1>5, <1>6, WakeMoves
<1> QED
  BY <1>1, <1>7, KeptIsQuiet DEF KeepsClaims

LEMMA AcknowledgeStep ==
  ASSUME IInv, NEW g \in Generation, Acknowledge(g)
  PROVE  IInv' /\ StaysQuiet
<1> DEFINE r == watcher[g].round
<1>1. /\ TypeOK /\ r \in Round /\ watcher[g].pc = "acknowledging" /\ Moves(g, "wrapping")
      /\ UNCHANGED receipt \/ SavesWake(g, "reported")
      /\ UNCHANGED <<jobVars, channelVars>>
  BY WatcherHas DEF Acknowledge
<1>2. /\ receipt[r].wake = "submitting" /\ queued[r] = 1
      /\ \A h \in Generation \ {g} : Waking(h) => watcher[h].round # r
  BY <1>1, WakeHolder DEF Waking
<1>3. /\ watcher' \in [Generation -> Watcher] /\ OthersRest(g) /\ watcher'[g].pc = "wrapping"
  BY <1>1, MovesOne DEF WatcherPc
<1>4. CASE UNCHANGED receipt
  BY <1>1, <1>4, RestStep, KeptIsQuiet
<1>5. CASE SavesWake(g, "reported")
  <2>1. receipt' \in [Round -> Receipt] /\ WakeBecomes(r, "reported") /\ "reported" \in Claim
    BY <1>5, WakeSaved DEF Claim
  <2>2. r <= round /\ (r < round \/ phase # "busy")
    BY <1>1, <1>2, Halves DEF WakeInv, WakeIsOfASettledRound
  <2>3. /\ ~(Notifying(g))' /\ ~(Waking(g))' /\ UNCHANGED sent
        /\ queued' = queued /\ queued \in [Round -> Nat]
    BY <1>1, <1>3 DEF Notifying, Waking, channelVars, TypeOK
  <2>4. IInv'
    BY <1>1, <1>2, <1>3, <2>1, <2>2, <2>3, WakeMoves
  <2>5. StaysQuiet
    BY <1>2, <2>1 DEF StaysQuiet, NothingNew, Claims, WakeBecomes, OthersKeep
  <2> QED
    BY <2>4, <2>5
<1> QED
  BY <1>1, <1>4, <1>5

-----------------------------------------------------------------------------
(* The theorems.                                                           *)

LEMMA InitIInv == Init => IInv
<1> SUFFICES ASSUME Init PROVE IInv
  OBVIOUS
<1>1. NoReceipt \in Receipt /\ NoWatcher("unborn") \in Watcher
  BY RoundType DEF NoReceipt, Receipt, Claim, NoWatcher, Watcher, WatcherPc
<1>2. TypeOK
  BY <1>1, RoundType DEF Init, TypeOK
<1>3. /\ \A r \in Round, k \in Kind : sent[r][k] = 0 /\ receipt[r].deliveries[k] = "none"
      /\ \A r \in Round : queued[r] = 0 /\ receipt[r].wake = "none"
      /\ \A g \in Generation : watcher[g].pc = "unborn"
  BY DEF Init, NoReceipt, NoWatcher
<1>4. DeliveredAtMostOnce /\ ReceiptsAreHonest /\ WakeIsOfASettledRound
  BY <1>3 DEF DeliveredAtMostOnce, ReceiptsAreHonest, WakeIsOfASettledRound
<1>5. NoticesAreClaimed /\ NoticesHaveOneSender /\ WakesAreClaimed /\ WakesHaveOneSender
  BY <1>3 DEF NoticesAreClaimed, NoticesHaveOneSender, WakesAreClaimed, WakesHaveOneSender,
              Notifying, Waking
<1> QED
  BY <1>2, <1>4, <1>5 DEF IInv

LEMMA NextStep == IInv /\ [Next]_vars => IInv' /\ StaysQuiet
<1> SUFFICES ASSUME IInv, [Next]_vars PROVE IInv' /\ StaysQuiet
  OBVIOUS
<1>1. CASE Job
  <2>1. KeepsClaims
    BY <1>1 DEF Job, Settles, StopIsRequested, StopFinishes, Accepts, Revises, JobChanges,
                KeepsClaims
  <2> QED
    BY <1>1, <2>1, JobStep, KeptIsQuiet
<1>2. CASE Disable
  BY <1>2, DisableStep, KeptIsQuiet
<1>3. ASSUME NEW wake_codex \in BOOLEAN, Arm(wake_codex) PROVE IInv' /\ StaysQuiet
  BY <1>3, ArmStep, KeptIsQuiet
<1>4. ASSUME NEW g \in Generation, WatcherStep(g) PROVE IInv' /\ StaysQuiet
  BY <1>4, BootStep, TickStep, SendStep, ReportStep, AcknowledgeStep, ClaimWakeStep, QueueStep,
     WrapUpStep, KeptIsQuiet DEF WatcherStep
<1>5. ASSUME NEW g \in Generation, WatcherDies(g) PROVE IInv' /\ StaysQuiet
  BY <1>5, DeathStep, KeptIsQuiet
<1>6. CASE UNCHANGED vars
  <2>1. /\ UNCHANGED <<jobVars, receipt, watcher, channelVars>> /\ TypeOK
    BY <1>6, Halves DEF vars
  <2>2. KeepsClaims /\ HoldersStay /\ receipt' \in [Round -> Receipt]
        /\ watcher' \in [Generation -> Watcher]
    BY <2>1 DEF KeepsClaims, HoldersStay, TypeOK
  <2> QED
    BY <2>1, <2>2, QuietSave, KeptIsQuiet
<1> QED
  BY <1>1, <1>2, <1>3, <1>4, <1>5, <1>6 DEF Next

\* The inductive invariant: a claim in a receipt has one holder, who sends its
\* message once, and it is written before the message and reported after it.
THEOREM Inductive == Spec => []IInv
BY InitIInv, NextStep, PTL DEF Spec

\* Every reachable state is well typed.
THEOREM TypeCorrect == Spec => []TypeOK
<1>1. IInv => TypeOK
  BY DEF IInv
<1> QED
  BY <1>1, Inductive, PTL

\* Nothing is announced twice, whoever arms again, dies or lingers.
THEOREM NoticesAreSentOnce == Spec => []DeliveredAtMostOnce
<1>1. IInv => DeliveredAtMostOnce
  BY DEF IInv
<1> QED
  BY <1>1, Inductive, PTL

\* A receipt covers what was sent, and reports only what was.
THEOREM ReceiptsTellTheTruth == Spec => []ReceiptsAreHonest
<1>1. IInv => ReceiptsAreHonest
  BY DEF IInv
<1> QED
  BY <1>1, Inductive, PTL

\* Codex is woken of settled rounds only.
THEOREM WakesAreOfSettledRounds == Spec => []WakeFollowsSettlement
<1>1. IInv => WakeFollowsSettlement
  BY DEF IInv, ReceiptsAreHonest, WakeIsOfASettledRound, WakeFollowsSettlement
<1> QED
  BY <1>1, Inductive, PTL

\* A round that is unsubscribed, decided, stopped or superseded stays quiet.
THEOREM QuietIsKept == Spec => QuietRoundsStayQuiet
<1>1. IInv /\ [Next]_vars =>
        [\A r \in Round : \/ ~receipt[r].enabled
                          \/ r = round /\ (stop_requested \/ phase = "decided")
                          \/ r # round
           => Claims(r)' = Claims(r) /\ (receipt[r].wake = "none" => receipt'[r].wake = "none")]_vars
  BY NextStep DEF StaysQuiet, QuietRound, NothingNew
<1> QED
  BY <1>1, Inductive, PTL DEF Spec, QuietRoundsStayQuiet
=============================================================================
