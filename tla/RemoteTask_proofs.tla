--------------------------- MODULE RemoteTask_proofs ---------------------------
(***************************************************************************)
(* Safety of the Mac side of a remote task, for any set of commands and    *)
(* any number of frames on the wire.                                       *)
(***************************************************************************)
EXTENDS RemoteTask, TLAPS

Frame == {"starting", "running", "unknown"} \cup Promise!Outcome

-----------------------------------------------------------------------------
(* Typing.                                                                 *)

LEMMA InitType == Init => TypeOK
<1> SUFFICES ASSUME Init PROVE TypeOK
  OBVIOUS
<1>1. wire \in Seq(Frame)
  BY DEF Init
<1>2. command \in [Command -> [pc : CommandPc, status : LocalStatus]]
  BY DEF Init, Idle, CommandPc, LocalStatus
<1>3. worker \in [pc : WorkerPc, status : LocalStatus]
  BY DEF Init, WorkerPc, LocalStatus
<1> QED
  BY <1>1, <1>2, <1>3 DEF Init, TypeOK, Frame, LocalStatus, Promise!Status

LEMMA DispatchType ==
  ASSUME TypeOK, Dispatch \/ DispatcherDies \/ GracePasses
  PROVE  TypeOK'
<1> USE DEF TypeOK, windows
<1>1. CASE Create
  BY <1>1 DEF Create, LocalStatus, Busy
<1>2. CASE Deploy \/ DispatcherDies \/ GracePasses
  BY <1>2 DEF Deploy, DispatcherDies, GracePasses
<1>3. CASE StartWorker
  BY <1>3 DEF StartWorker, WorkerKeeps, WorkerPc
<1>4. CASE DispatchFails
  BY <1>4 DEF DispatchFails, LocalStatus, TERMINAL
<1> QED
  BY <1>1, <1>2, <1>3, <1>4 DEF Dispatch

LEMMA WorkerType ==
  ASSUME TypeOK, WorkerStep \/ WorkerAborts \/ WorkerDies
  PROVE  TypeOK'
<1> USE DEF TypeOK, WorkerSaves, WorkerKeeps, windows, WorkerPc, WorkerLocked
<1>1. CASE WorkerBoots
  BY <1>1 DEF WorkerBoots, LocalStatus, Busy
<1>2. CASE WorkerDials
  BY <1>2 DEF WorkerDials
<1>3. CASE WorkerCannotDial
  BY <1>3 DEF WorkerCannotDial, LocalStatus, Waiting
<1>4. CASE WorkerReads
  <2>1. Head(wire) \in Frame /\ Tail(wire) \in Seq(Frame)
    BY <1>4 DEF WorkerReads, Frame
  <2>2. Head(wire) \in LocalStatus
    BY <2>1 DEF Frame, LocalStatus, Busy, Waiting, TERMINAL, Promise!Outcome
  <2> QED
    BY <1>4, <2>1, <2>2 DEF WorkerReads, Frame
<1>5. CASE WorkerSeesEof
  BY <1>5 DEF WorkerSeesEof, StatusAtEof, LocalStatus, Waiting
<1>6. CASE WorkerVerifies
  BY <1>6 DEF WorkerVerifies, LocalStatus, TERMINAL
<1>7. CASE WorkerEnds
  BY <1>7 DEF WorkerEnds
<1>8. CASE WorkerAborts
  BY <1>8 DEF WorkerAborts, LocalStatus, Waiting
<1>9. CASE WorkerDies
  BY <1>9 DEF WorkerDies
<1> QED
  BY <1>1, <1>2, <1>3, <1>4, <1>5, <1>6, <1>7, <1>8, <1>9 DEF WorkerStep

LEMMA OwnerType ==
  ASSUME TypeOK, NEW c \in Command, Owner(c) \/ CommandDies(c)
  PROVE  TypeOK'
<1> USE DEF TypeOK, Doing, Done, CommandPc, CommandLocked, Idle
<1>1. CASE Peek(c) \/ EndPeek(c) \/ CommandDies(c)
  BY <1>1 DEF Peek, EndPeek, CommandDies, windows, LocalStatus
<1>2. CASE AskReceipt(c)
  <2>1. receipt' \in Promise!Status
    BY <1>2 DEF AskReceipt, Promise!Status, Promise!Outcome
  <2>2. receipt' \in LocalStatus
    BY <2>1 DEF Promise!Status, Promise!Outcome, LocalStatus, TERMINAL, Busy, Waiting
  <2> QED
    BY <1>2, <2>1, <2>2 DEF AskReceipt
<1>3. CASE ApplyReceipt(c)
  <2>1. LocalStatusOf(command[c].status) \in LocalStatus
    BY DEF LocalStatusOf, LocalStatus, Busy
  <2>2. AfterAnswer(LocalStatusOf(command[c].status)) \in CommandPc
    BY DEF AfterAnswer
  <2> QED
    BY <1>3, <2>1, <2>2 DEF ApplyReceipt, windows
<1>4. CASE VerifyReceipt(c)
  <2>1. Verdict \subseteq LocalStatus
    BY DEF LocalStatus, TERMINAL
  <2>2. PICK verdict \in Verdict : Doing(c, "saving", verdict)
    BY <1>4 DEF VerifyReceipt
  <2> QED
    BY <1>4, <2>1, <2>2 DEF VerifyReceipt, windows
<1>5. CASE ProbeCarrier(c)
  <2>1. "carrier_lost_pending_recheck" \in LocalStatus
    BY DEF LocalStatus, Waiting
  <2> QED
    BY <1>5, <2>1 DEF ProbeCarrier, windows
<1>8. CASE ReleaseProbe(c)
  BY <1>8 DEF ReleaseProbe, windows
<1>6. CASE SaveReceipt(c) \/ SaveReclaim(c) \/ SaveAccepted(c) \/ Supersede(c)
  BY <1>6 DEF SaveReceipt, SaveReclaim, SaveAccepted, Supersede, LocalStatus, windows
<1>7. CASE AskReclaim(c) \/ WriteAcceptance(c) \/ ReadParent(c)
  <2>1. {"killed_by_carrier_loss", "accepted", "superseded"} \subseteq LocalStatus
    BY DEF LocalStatus, TERMINAL
  <2>2. CASE AskReclaim(c)
    BY <2>1, <2>2 DEF AskReclaim, windows
  <2>3. CASE WriteAcceptance(c)
    BY <2>1, <2>3 DEF WriteAcceptance, windows
  <2>4. CASE ReadParent(c)
    BY <2>1, <2>4 DEF ReadParent, windows
  <2> QED
    BY <1>7, <2>2, <2>3, <2>4
<1> QED
  BY <1>1, <1>2, <1>3, <1>4, <1>5, <1>6, <1>7, <1>8 DEF Owner, Receipt

LEMMA RunnerType ==
  ASSUME TypeOK, Runner \/ CarrierBreaks \/ RunnerKilled
  PROVE  TypeOK'
<1> USE DEF TypeOK, Sends, Silent, RunnerSteps, mac
<1>1. CASE Runner
  <2>1. receipt' \in Promise!Status
    BY <1>1 DEF Runner, RunnerAccepts, RunnerGivesUp, RunnerStarts, RunnerBeats,
                RunnerCannotBeat, StreamFails, RunnerEnds, Promise!Status, Promise!Outcome
  <2>2. \/ wire' = wire
        \/ \E frame \in Frame : wire' = Append(wire, frame)
    BY <1>1 DEF Runner, RunnerAccepts, RunnerGivesUp, RunnerStarts, RunnerBeats,
                RunnerCannotBeat, StreamFails, RunnerEnds, Frame, Promise!Outcome
  <2>3. wire' \in Seq(Frame)
    BY <2>2 DEF Frame
  <2> QED
    BY <1>1, <2>1, <2>3
       DEF Frame, Runner, RunnerAccepts, RunnerGivesUp, RunnerStarts, RunnerBeats,
           RunnerCannotBeat, StreamFails, RunnerEnds
<1>2. CASE CarrierBreaks
  <2>1. PICK n \in 0..Len(wire) : wire' = SubSeq(wire, 1, n)
    BY <1>2 DEF CarrierBreaks
  <2>2. wire' \in Seq(Frame)
    BY <2>1 DEF Frame
  <2> QED
    BY <1>2, <2>2 DEF CarrierBreaks, Frame
<1>3. CASE RunnerKilled
  BY <1>3 DEF RunnerKilled
<1> QED
  BY <1>1, <1>2, <1>3

LEMMA NextType ==
  ASSUME TypeOK, [Next]_vars
  PROVE  TypeOK'
<1>1. CASE UNCHANGED vars
  BY <1>1 DEF TypeOK, vars
<1>2. CASE Next
  BY <1>2, DispatchType, WorkerType, OwnerType, RunnerType DEF Next
<1> QED
  BY <1>1, <1>2

\* Every state of the remote task has its type, for any commands and any bound
\* on the wire.
THEOREM TypeCorrect == Spec => []TypeOK
<1>1. Init => TypeOK
  BY InitType
<1>2. TypeOK /\ [Next]_vars => TypeOK'
  BY NextType
<1> QED
  BY <1>1, <1>2, PTL DEF Spec

-----------------------------------------------------------------------------
(* The receipt.                                                            *)

\* Whatever happens on either side, the receipt moves as promised.
LEMMA ReceiptMoves ==
  ASSUME TypeOK, [Next]_vars
  PROVE  receipt' = receipt \/ <<receipt, receipt'>> \in Promise!Order
<1>1. CASE UNCHANGED vars
  BY <1>1 DEF vars
<1>2. CASE Dispatch \/ DispatcherDies \/ GracePasses
  BY <1>2 DEF Dispatch, Create, Deploy, StartWorker, DispatchFails, DispatcherDies,
              GracePasses, windows
<1>3. CASE WorkerStep \/ WorkerAborts \/ WorkerDies
  BY <1>3 DEF WorkerStep, WorkerBoots, WorkerDials, WorkerCannotDial, WorkerReads,
              WorkerSeesEof, WorkerVerifies, WorkerEnds, WorkerAborts, WorkerDies, windows
<1>4. ASSUME NEW c \in Command, Owner(c) \/ CommandDies(c)
      PROVE  receipt' = receipt \/ <<receipt, receipt'>> \in Promise!Order
  <2>1. CASE AskReceipt(c)
    BY <2>1 DEF AskReceipt, LostOnWindows, Promise!Order
  <2>2. CASE ~AskReceipt(c)
    BY <1>4, <2>2 DEF Owner, Receipt, CommandDies, Peek, EndPeek, ApplyReceipt, VerifyReceipt,
                      ProbeCarrier, ReleaseProbe, SaveReceipt, AskReclaim, SaveReclaim,
                      WriteAcceptance, SaveAccepted, ReadParent, Supersede, windows
  <2> QED
    BY <2>1, <2>2
<1>5. CASE Runner
  BY <1>5 DEF Runner, RunnerAccepts, RunnerGivesUp, RunnerStarts, RunnerBeats, RunnerCannotBeat,
              StreamFails, RunnerEnds, RunnerSteps, Promise!Order
<1>6. CASE CarrierBreaks \/ RunnerKilled
  BY <1>6 DEF CarrierBreaks, RunnerKilled
<1> QED
  BY <1>1, <1>2, <1>3, <1>4, <1>5, <1>6 DEF Next

\* What held of the outcome goes on holding.
LEMMA HoldsLasts ==
  ASSUME NEW status, Holds(status),
         receipt' = receipt \/ <<receipt, receipt'>> \in Promise!Order
  PROVE  Holds(status)'
  BY DEF Holds, Promise!Order, Verdict

-----------------------------------------------------------------------------
(* The inductive step.                                                     *)

LEMMA InitInv == Init => IInv
<1> SUFFICES ASSUME Init PROVE IInv
  OBVIOUS
<1>1. DispatchComesFirst /\ CarrierComesFirst /\ AcceptanceOutlivesWorker
  BY DEF Init, DispatchComesFirst, CarrierComesFirst, AcceptanceOutlivesWorker
<1>2. OutcomesAreEverywhereTrue
  BY DEF Init, OutcomesAreEverywhereTrue, Holds, Verdict
<1>3. CommandsCarryTruth
  BY DEF Init, CommandsCarryTruth, Idle
<1>4. LossComesLast
  BY DEF Init, LossComesLast, LostMeansUnsupervised, Idle
<1> QED
  BY <1>1, <1>2, <1>3, <1>4, InitType DEF IInv

LEMMA DispatchKeeps ==
  ASSUME IInv, Dispatch \/ DispatcherDies \/ GracePasses
  PROVE  IInv'
<1> USE DEF IInv
<1>1. UNCHANGED <<command, acceptance, receipt, runner, link, wire>> /\ TypeOK'
  BY DispatchType DEF Dispatch, Create, Deploy, StartWorker, DispatchFails, DispatcherDies,
                      GracePasses, windows
<1>2. \/ state' = state /\ worker' = worker
      \/ state' \in {"preparing", "failed"} /\ worker' = worker /\ worker.pc = "unborn"
      \/ state = "preparing" /\ state' = state /\ worker.pc = "unborn"
           /\ worker' = [pc |-> "boot", status |-> worker.status]
  BY DEF Dispatch, Create, Deploy, StartWorker, DispatchFails, DispatcherDies,
         GracePasses, DispatchComesFirst, WorkerKeeps
<1>3. DispatchComesFirst'
  BY DEF Dispatch, Create, Deploy, StartWorker, DispatchFails, DispatcherDies,
         GracePasses, DispatchComesFirst, WorkerKeeps, TypeOK
<1>4. CarrierComesFirst' /\ AcceptanceOutlivesWorker'
  BY <1>1, <1>2 DEF CarrierComesFirst, AcceptanceOutlivesWorker
<1>5. OutcomesAreEverywhereTrue'
  BY <1>1, <1>2 DEF OutcomesAreEverywhereTrue, Holds, Verdict
<1>6. CommandsCarryTruth'
  BY <1>1 DEF CommandsCarryTruth, Holds
<1>7. LossComesLast'
  BY <1>1, <1>2 DEF LossComesLast, LostMeansUnsupervised, CommandsCarryTruth
<1> QED
  BY <1>1, <1>3, <1>4, <1>5, <1>6, <1>7

\* A worker's step is one of these; only the first four touch the wire.
LEMMA WorkerKeepsInv ==
  ASSUME IInv, WorkerStep \/ WorkerAborts \/ WorkerDies
  PROVE  IInv'
<1> USE DEF IInv
<1>1. UNCHANGED <<dispatcher, command, acceptance, receipt>> /\ TypeOK'
  BY WorkerType DEF WorkerStep, WorkerBoots, WorkerDials, WorkerCannotDial, WorkerReads,
                    WorkerSeesEof, WorkerVerifies, WorkerEnds, WorkerAborts, WorkerDies, windows
<1>2. worker.pc \in {"boot"} \cup WorkerLocked /\ worker'.pc \notin {"unborn", "boot"}
  BY DEF WorkerStep, WorkerBoots, WorkerDials, WorkerCannotDial, WorkerReads, WorkerSeesEof,
         WorkerVerifies, WorkerEnds, WorkerAborts, WorkerDies, WorkerSaves, WorkerKeeps,
         WorkerLocked
<1>3. DispatchComesFirst' /\ AcceptanceOutlivesWorker'
  BY <1>1, <1>2 DEF DispatchComesFirst, AcceptanceOutlivesWorker, WorkerLocked
<1>4. CarrierComesFirst'
  BY <1>1, <1>2 DEF CarrierComesFirst, WorkerStep, WorkerBoots, WorkerDials, WorkerCannotDial,
         WorkerReads, WorkerSeesEof, WorkerVerifies, WorkerEnds, WorkerAborts, WorkerDies,
         WorkerSaves, WorkerKeeps, windows
<1>5. CommandsCarryTruth'
  BY <1>1 DEF CommandsCarryTruth, Holds
<1>6. Holds(state) /\ Holds(worker.status)
  BY <1>2 DEF OutcomesAreEverywhereTrue, WorkerLocked
<1>7. \A status : Holds(status)' = Holds(status)
  BY <1>1 DEF Holds
<1>8. \A n \in 1..Len(wire') : \E k \in 1..Len(wire) : wire'[n] = wire[k]
  <2>1. CASE WorkerReads
    <3>1. wire \in Seq(Frame) /\ wire # <<>> /\ wire' = Tail(wire)
      BY <2>1 DEF WorkerReads, TypeOK, Frame
    <3>2. Len(wire') = Len(wire) - 1 /\ \A n \in 1..Len(wire') : wire'[n] = wire[n + 1]
      BY <3>1
    <3> QED
      BY <3>1, <3>2
  <2>2. CASE WorkerAborts
    BY <2>2 DEF WorkerAborts
  <2>3. CASE ~WorkerReads /\ ~WorkerAborts
    BY <2>3 DEF WorkerStep, WorkerBoots, WorkerDials, WorkerCannotDial, WorkerSeesEof,
                WorkerVerifies, WorkerEnds, WorkerDies, windows
  <2> QED
    BY <2>1, <2>2, <2>3
<1>9. Holds(state') /\ Holds(worker'.status)
      /\ (worker'.pc = "claimed" => worker'.status = "completed_claimed")
      /\ (state' = "carrier_lost_pending_recheck" => worker'.pc = "gone")
      /\ (worker'.status = "carrier_lost_pending_recheck" => worker'.pc \in {"ending", "gone"})
  <2> USE DEF WorkerSaves, WorkerKeeps, LossComesLast, LostMeansUnsupervised, OutcomesAreEverywhereTrue
  <2>1. CASE WorkerBoots
    BY <2>1, <1>6 DEF WorkerBoots, Holds, Verdict
  <2>2. CASE WorkerDials \/ WorkerDies \/ WorkerEnds
    BY <2>2, <1>6 DEF WorkerDials, WorkerDies, WorkerEnds, WorkerLocked
  <2>3. CASE WorkerCannotDial
    BY <2>3, <1>6 DEF WorkerCannotDial, Holds, Verdict
  <2>4. CASE WorkerReads
    <3>1. wire \in Seq(Frame) /\ wire # <<>>
      BY <2>4 DEF WorkerReads, TypeOK, Frame
    <3>2. Head(wire) = wire[1] /\ 1 \in 1..Len(wire)
      BY <3>1
    <3>3. Holds(Head(wire)) /\ Head(wire) # "carrier_lost_pending_recheck"
      BY <3>2
    <3> QED
      BY <2>4, <3>3 DEF WorkerReads
  <2>5. CASE WorkerAborts
    BY <2>5 DEF WorkerAborts, Holds, Verdict
  <2>6. CASE WorkerSeesEof
    BY <2>6, <1>6 DEF WorkerSeesEof, StatusAtEof, Holds, Verdict
  <2>7. CASE WorkerVerifies
    BY <2>7, <1>6 DEF WorkerVerifies, Holds, Verdict
  <2> QED
    BY <2>1, <2>2, <2>3, <2>4, <2>5, <2>6, <2>7 DEF WorkerStep
<1>10. OutcomesAreEverywhereTrue'
  <2>1. \A n \in 1..Len(wire') : Holds(wire'[n])
    BY <1>8 DEF OutcomesAreEverywhereTrue
  <2> QED
    BY <1>1, <1>2, <1>9, <2>1 DEF OutcomesAreEverywhereTrue, Holds
<1>11. LossComesLast'
  <2>1. \A n \in 1..Len(wire') : wire'[n] # "carrier_lost_pending_recheck"
    BY <1>8 DEF LossComesLast
  <2>2. \A c \in Command : command'[c].status # "carrier_lost_pending_recheck"
    BY <1>1, <1>2 DEF LossComesLast, WorkerLocked
  <2> QED
    BY <1>9, <2>1, <2>2 DEF LossComesLast, LostMeansUnsupervised
<1> QED
  BY <1>1, <1>3, <1>4, <1>5, <1>10, <1>11

\* A command either leaves state.json alone or saves the status it carries.
LEMMA OwnerSaves ==
  ASSUME TypeOK, NEW c \in Command, Owner(c) \/ CommandDies(c)
  PROVE  /\ UNCHANGED <<runtime, old, dispatcher, worker, runner, link, wire>>
         /\ \A d \in Command \ {c} : command'[d] = command[d]
         /\ \/ state' = state
            \/ state' = command[c].status /\ command'[c] = Idle
               /\ command[c].pc \in {"saving", "reclaimed", "accepting", "superseding"}
  BY DEF TypeOK, Owner, Receipt, CommandDies, Peek, EndPeek, AskReceipt, ApplyReceipt,
         VerifyReceipt, ProbeCarrier, ReleaseProbe, SaveReceipt, AskReclaim, SaveReclaim,
         WriteAcceptance, SaveAccepted, ReadParent, Supersede, Doing, Done, windows

\* What the command carries after its step holds, and a loss is carried only
\* when the worker is gone.
LEMMA OwnerCarriesTruth ==
  ASSUME IInv, NEW c \in Command, Owner(c) \/ CommandDies(c),
         NEW pc, NEW status, command'[c] = [pc |-> pc, status |-> status]
  PROVE  /\ pc = "answered" =>
              status \in Promise!Status \ {"absent"} /\ (status # "accepted" => Holds(status)')
         /\ pc = "verifying" => status = "completed_claimed"
         /\ pc \notin {"idle", "answered"} => Holds(status)'
         /\ pc \notin {"idle", "peeking"} => receipt' # "absent"
         /\ pc = "probing" => status \in {"connecting", "starting", "running"}
         /\ status = "carrier_lost_pending_recheck" => worker.pc = "gone"
<1> USE DEF IInv, Doing, Done, Idle
<1>1. /\ command[c].pc = "answered" =>
           command[c].status \in Promise!Status \ {"absent"}
           /\ (command[c].status # "accepted" => Holds(command[c].status))
      /\ command[c].pc = "verifying" => command[c].status = "completed_claimed"
      /\ command[c].pc \notin {"idle", "answered"} => Holds(command[c].status)
      /\ command[c].pc \notin {"idle", "peeking"} => receipt # "absent"
      /\ command[c].pc = "probing" => command[c].status \in {"connecting", "starting", "running"}
      /\ command[c].status = "carrier_lost_pending_recheck" => worker.pc = "gone"
  BY DEF CommandsCarryTruth, LossComesLast
<1>2. command \in [Command -> [pc : CommandPc, status : LocalStatus]]
  BY DEF TypeOK
<1>3. CASE Peek(c) \/ EndPeek(c) \/ CommandDies(c) \/ SaveReceipt(c) \/ SaveReclaim(c)
           \/ SaveAccepted(c) \/ Supersede(c)
  <2>1. pc \in {"idle", "peeking"} /\ status = "absent"
    BY <1>2, <1>3 DEF Peek, EndPeek, CommandDies, SaveReceipt, SaveReclaim, SaveAccepted, Supersede
  <2> QED
    BY <2>1 DEF Holds, Verdict
<1>4. CASE AskReceipt(c)
  <2>1. pc = "answered" /\ status = receipt'
    BY <1>2, <1>4 DEF AskReceipt
  <2>2. status \in Promise!Status \ {"absent"}
    BY <2>1, <1>4 DEF AskReceipt, TypeOK, Promise!Status, Promise!Outcome
  <2>3. status # "accepted" => Holds(status)'
    BY <2>1, <2>2 DEF Promise!Status, Promise!Outcome, Holds, Verdict
  <2>4. status # "carrier_lost_pending_recheck"
    BY <2>2 DEF Promise!Status, Promise!Outcome
  <2> QED
    BY <2>1, <2>2, <2>3, <2>4
<1>5. CASE ApplyReceipt(c)
  <2>1. pc = AfterAnswer(status) /\ status = LocalStatusOf(command[c].status) /\ receipt' = receipt
    BY <1>2, <1>5 DEF ApplyReceipt, windows
  <2>2. Holds(status)
    BY <2>1, <1>1, <1>5 DEF ApplyReceipt, LocalStatusOf, Holds, Verdict
  <2>3. Holds(status)'
    BY <2>1, <2>2 DEF Holds
  <2>4. receipt # "absent"
    BY <1>1, <1>5 DEF ApplyReceipt
  <2>5. /\ pc \in {"verifying", "probing", "saving"}
        /\ pc = "verifying" => status = "completed_claimed"
        /\ pc = "probing" => status \in {"connecting", "starting", "running"}
    BY <2>1 DEF AfterAnswer, LocalStatusOf
  <2>6. status # "carrier_lost_pending_recheck"
    BY <2>1, <1>1, <1>5 DEF ApplyReceipt, LocalStatusOf, Promise!Status, Promise!Outcome
  <2> QED
    BY <2>1, <2>3, <2>4, <2>5, <2>6
<1>6. CASE VerifyReceipt(c)
  <2>1. pc = "saving" /\ status \in Verdict
    BY <1>2, <1>6 DEF VerifyReceipt
  <2>2. receipt = "completed_claimed" /\ receipt' = receipt
    BY <1>1, <1>6 DEF VerifyReceipt, Holds, windows
  <2> QED
    BY <2>1, <2>2 DEF Verdict, Holds
<1>7. CASE ProbeCarrier(c)
  <2>1. receipt # "absent" /\ receipt' = receipt
    BY <1>1, <1>7 DEF ProbeCarrier, windows
  <2>2. CASE Supervised
    <3>1. pc = "saving" /\ status = command[c].status
      BY <1>2, <1>7, <2>2 DEF ProbeCarrier
    <3> QED
      BY <1>1, <1>7, <2>1, <3>1 DEF ProbeCarrier, Holds, Verdict
  <2>3. CASE ~Supervised
    <3>1. worker.pc = "gone"
      BY <2>1, <2>3 DEF Supervised, LockFree, WorkerHoldsLock, WorkerLocked, CarrierComesFirst,
                        TypeOK, WorkerPc
    <3>2. pc = "peeked" /\ status = "carrier_lost_pending_recheck"
      BY <1>2, <1>7, <2>3 DEF ProbeCarrier
    <3> QED
      BY <2>1, <3>1, <3>2 DEF Holds, Verdict
  <2> QED
    BY <2>2, <2>3
<1>8. CASE ReleaseProbe(c)
  <2>1. pc = "saving" /\ status = command[c].status /\ receipt' = receipt
    BY <1>2, <1>8 DEF ReleaseProbe, windows
  <2>2. Holds(status) /\ receipt # "absent"
    BY <2>1, <1>1, <1>8 DEF ReleaseProbe
  <2> QED
    BY <1>1, <2>1, <2>2 DEF Holds
<1>9. CASE AskReclaim(c) \/ WriteAcceptance(c) \/ ReadParent(c)
  <2>1. worker.pc # "unborn" => Holds(state)
    BY DEF OutcomesAreEverywhereTrue
  <2>2. worker.pc = "unborn" => state \in {"absent", "preparing", "failed"}
    BY DEF OutcomesAreEverywhereTrue
  <2>3. CASE AskReclaim(c)
    <3>1. pc = "reclaimed" /\ status = receipt /\ receipt = "killed_by_carrier_loss"
          /\ receipt' = receipt
      BY <1>2, <2>3 DEF AskReclaim, windows
    <3> QED
      BY <3>1 DEF Holds, Verdict
  <2>4. CASE WriteAcceptance(c) \/ ReadParent(c)
    <3>1. receipt = "completed_claimed" /\ receipt' = receipt
      BY <2>1, <2>2, <2>4 DEF WriteAcceptance, CanAccept, ReadParent, windows, Holds, Verdict
    <3>2. pc \in {"accepting", "superseding"} /\ status \in {"accepted", "superseded"}
      BY <1>2, <2>4 DEF WriteAcceptance, ReadParent
    <3> QED
      BY <3>1, <3>2 DEF Holds, Verdict
  <2> QED
    BY <1>9, <2>3, <2>4
<1> QED
  BY <1>3, <1>4, <1>5, <1>6, <1>7, <1>8, <1>9 DEF Owner, Receipt

LEMMA OwnerKeepsInv ==
  ASSUME IInv, NEW c \in Command, Owner(c) \/ CommandDies(c)
  PROVE  IInv'
<1> USE DEF IInv
<1>1. TypeOK'
  BY OwnerType
<1>2. /\ UNCHANGED <<runtime, old, dispatcher, worker, runner, link, wire>>
      /\ \A d \in Command \ {c} : command'[d] = command[d]
      /\ \/ state' = state
         \/ state' = command[c].status /\ command'[c] = Idle
            /\ command[c].pc \in {"saving", "reclaimed", "accepting", "superseding"}
  BY OwnerSaves
<1>3. receipt' = receipt \/ <<receipt, receipt'>> \in Promise!Order
  BY ReceiptMoves DEF Next
<1>4. \A status : Holds(status) => Holds(status)'
  BY <1>3, HoldsLasts
<1>5. receipt # "absent" => receipt' # "absent"
  BY <1>3 DEF Promise!Order
<1>6. receipt = "absent" => receipt' = "absent"
  BY DEF Owner, Receipt, CommandDies, Peek, EndPeek, AskReceipt, ApplyReceipt, VerifyReceipt,
         ProbeCarrier, ReleaseProbe, SaveReceipt, AskReclaim, SaveReclaim, WriteAcceptance,
         SaveAccepted, ReadParent, Supersede, windows
<1>7. state' # state => receipt # "absent" /\ Holds(state') /\ worker.pc \notin {"unborn", "boot", "dialing"}
  BY <1>2 DEF CommandsCarryTruth, CarrierComesFirst
<1>8. DispatchComesFirst' /\ CarrierComesFirst'
  BY <1>2, <1>6, <1>7 DEF DispatchComesFirst, CarrierComesFirst
<1>9. OutcomesAreEverywhereTrue'
  <2>1. worker'.pc # "unborn" => Holds(state)'
    BY <1>2, <1>4, <1>7 DEF OutcomesAreEverywhereTrue
  <2> QED
    BY <1>2, <1>4, <1>7, <2>1 DEF OutcomesAreEverywhereTrue
<1>10. command'[c] = [pc |-> command'[c].pc, status |-> command'[c].status]
  BY <1>1 DEF TypeOK
<1>11. /\ command'[c].pc = "answered" =>
            command'[c].status \in Promise!Status \ {"absent"}
            /\ (command'[c].status # "accepted" => Holds(command[c].status)')
       /\ command'[c].pc = "verifying" => command'[c].status = "completed_claimed"
       /\ command'[c].pc \notin {"idle", "answered"} => Holds(command[c].status)'
       /\ command'[c].pc \notin {"idle", "peeking"} => receipt' # "absent"
       /\ command'[c].pc = "probing" => command'[c].status \in {"connecting", "starting", "running"}
       /\ command'[c].status = "carrier_lost_pending_recheck" => worker.pc = "gone"
  BY <1>10, OwnerCarriesTruth DEF Holds
<1>12. CommandsCarryTruth'
  <2> SUFFICES ASSUME NEW d \in Command
      PROVE  /\ command'[d].pc = "answered" =>
                  command'[d].status \in Promise!Status \ {"absent"}
                  /\ (command'[d].status # "accepted" => Holds(command[d].status)')
             /\ command'[d].pc = "verifying" => command'[d].status = "completed_claimed"
             /\ command'[d].pc \notin {"idle", "answered"} => Holds(command[d].status)'
             /\ command'[d].pc \notin {"idle", "peeking"} => receipt' # "absent"
             /\ command'[d].pc = "probing" =>
                  command'[d].status \in {"connecting", "starting", "running"}
    BY DEF CommandsCarryTruth
  <2>1. CASE d = c
    BY <1>11, <2>1
  <2>2. CASE d # c
    <3>1. command'[d] = command[d]
      BY <1>2, <2>2
    <3>2. Holds(command[d].status) => Holds(command[d].status)'
      BY <3>1, <1>4 DEF Holds
    <3> QED
      BY <3>1, <3>2, <1>5 DEF CommandsCarryTruth
  <2> QED
    BY <2>1, <2>2
<1>13. LossComesLast'
  <2>1. \A d \in Command : command'[d].status = "carrier_lost_pending_recheck" => worker'.pc = "gone"
    BY <1>2, <1>11 DEF LossComesLast
  <2>2. LostMeansUnsupervised'
    BY <1>2 DEF LossComesLast, LostMeansUnsupervised
  <2> QED
    BY <1>2, <2>1, <2>2 DEF LossComesLast
<1>14. AcceptanceOutlivesWorker'
  <2>1. CASE WriteAcceptance(c)
    <3>1. state = "awaiting_review" /\ worker.pc \notin WorkerLocked
      BY <2>1 DEF WriteAcceptance, CanAccept, LockFree, WorkerHoldsLock
    <3>2. worker.pc # "unborn" /\ Holds(state)
      BY <3>1 DEF OutcomesAreEverywhereTrue
    <3>3. receipt # "absent"
      BY <3>1, <3>2 DEF Holds, Verdict
    <3> QED
      BY <1>2, <3>1, <3>2, <3>3 DEF CarrierComesFirst, AcceptanceOutlivesWorker, TypeOK, WorkerPc
  <2>2. CASE ~WriteAcceptance(c)
    BY <1>2, <2>2 DEF AcceptanceOutlivesWorker, Owner, Receipt, CommandDies, Peek, EndPeek,
         AskReceipt, ApplyReceipt, VerifyReceipt, ProbeCarrier, ReleaseProbe, SaveReceipt,
         AskReclaim, SaveReclaim, SaveAccepted, ReadParent, Supersede, windows
  <2> QED
    BY <2>1, <2>2
<1> QED
  BY <1>1, <1>8, <1>9, <1>12, <1>13, <1>14

\* The runner is only there when the worker has dialled, and its frames say
\* what its receipt says.
LEMMA RunnerKeepsInv ==
  ASSUME IInv, Runner \/ CarrierBreaks \/ RunnerKilled
  PROVE  IInv'
<1> USE DEF IInv
<1>1. UNCHANGED mac /\ TypeOK'
  BY RunnerType DEF Runner, RunnerAccepts, RunnerGivesUp, RunnerStarts, RunnerBeats,
                    RunnerCannotBeat, StreamFails, RunnerEnds, CarrierBreaks, RunnerKilled
<1>2. receipt' = receipt \/ <<receipt, receipt'>> \in Promise!Order
  BY ReceiptMoves DEF Next
<1>3. \A status : Holds(status) => Holds(status)'
  BY <1>2, HoldsLasts
<1>4. receipt # "absent" => receipt' # "absent"
  BY <1>2 DEF Promise!Order
<1>5. wire \in Seq(Frame)
  BY DEF TypeOK, Frame
<1>6. CarrierComesFirst'
  <2>1. CASE Runner \/ RunnerKilled
    <3>1. runner = "up"
      BY <2>1 DEF Runner, RunnerAccepts, RunnerGivesUp, RunnerStarts, RunnerBeats,
                  RunnerCannotBeat, StreamFails, RunnerEnds, RunnerSteps, RunnerKilled
    <3> QED
      BY <1>1, <3>1 DEF CarrierComesFirst, mac
  <2>2. CASE CarrierBreaks
    <3>1. wire = <<>> => wire' = <<>>
      BY <2>2 DEF CarrierBreaks
    <3> QED
      BY <1>1, <2>2, <3>1 DEF CarrierComesFirst, CarrierBreaks, mac
  <2> QED
    BY <2>1, <2>2
<1>7. \A n \in 1..Len(wire') : Holds(wire[n])' /\ wire'[n] # "carrier_lost_pending_recheck"
  <2>1. CASE wire' = wire
    <3> SUFFICES ASSUME NEW n \in 1..Len(wire')
                 PROVE  Holds(wire[n])' /\ wire'[n] # "carrier_lost_pending_recheck"
      OBVIOUS
    <3>1. Holds(wire[n]) /\ wire[n] # "carrier_lost_pending_recheck"
      BY <2>1 DEF OutcomesAreEverywhereTrue, LossComesLast
    <3> QED
      BY <2>1, <3>1, <1>3 DEF Holds
  <2>2. ASSUME NEW frame, wire' = Append(wire, frame), Holds(frame)', frame \in Frame
        PROVE  \A n \in 1..Len(wire') : Holds(wire[n])' /\ wire'[n] # "carrier_lost_pending_recheck"
    <3> SUFFICES ASSUME NEW n \in 1..Len(wire')
                 PROVE  Holds(wire[n])' /\ wire'[n] # "carrier_lost_pending_recheck"
      OBVIOUS
    <3>1. CASE n = Len(wire) + 1
      <4>1. wire'[n] = frame
        BY <1>5, <2>2, <3>1 DEF Frame
      <4> QED
        BY <4>1, <2>2 DEF Holds, Frame, Promise!Outcome
    <3>2. CASE n # Len(wire) + 1
      <4>1. n \in 1..Len(wire) /\ wire'[n] = wire[n]
        BY <1>5, <2>2, <3>2
      <4>2. Holds(wire[n]) /\ wire[n] # "carrier_lost_pending_recheck"
        BY <4>1 DEF OutcomesAreEverywhereTrue, LossComesLast
      <4> QED
        BY <4>1, <4>2, <1>3 DEF Holds
    <3> QED
      BY <3>1, <3>2
  <2>3. CASE Runner /\ wire' # wire
    <3>1. \E frame \in Frame :
            /\ wire' = Append(wire, frame)
            /\ frame \in {"starting", "running", "unknown"} \/ frame = receipt'
      BY <2>3 DEF Runner, RunnerAccepts, RunnerGivesUp, RunnerStarts, RunnerBeats, RunnerCannotBeat,
                  StreamFails, RunnerEnds, RunnerSteps, Sends, Silent, Frame, Promise!Outcome
    <3>2. PICK frame \in Frame : /\ wire' = Append(wire, frame)
                                 /\ frame \in {"starting", "running", "unknown"} \/ frame = receipt'
      BY <3>1
    <3>3. Holds(frame)'
      BY <3>2 DEF Holds, Verdict, Frame, Promise!Outcome
    <3> QED
      BY <3>2, <3>3, <2>2
  <2>4. CASE CarrierBreaks
    <3>1. PICK k \in 0..Len(wire) : wire' = SubSeq(wire, 1, k)
      BY <2>4 DEF CarrierBreaks
    <3>2. Len(wire') = k /\ \A n \in 1..k : n \in 1..Len(wire) /\ wire'[n] = wire[n]
      BY <3>1, <1>5
    <3> SUFFICES ASSUME NEW n \in 1..Len(wire')
                 PROVE  Holds(wire[n])' /\ wire'[n] # "carrier_lost_pending_recheck"
      OBVIOUS
    <3>3. Holds(wire[n]) /\ wire[n] # "carrier_lost_pending_recheck"
      BY <3>2 DEF OutcomesAreEverywhereTrue, LossComesLast
    <3> QED
      BY <3>2, <3>3, <1>3 DEF Holds
  <2> QED
    BY <2>1, <2>3, <2>4 DEF RunnerKilled
<1>8. OutcomesAreEverywhereTrue'
  <2>1. worker'.pc # "unborn" => Holds(state)'
    BY <1>1, <1>3 DEF OutcomesAreEverywhereTrue, mac, Holds
  <2>2. Holds(worker.status)'
    BY <1>1, <1>3 DEF OutcomesAreEverywhereTrue, mac, Holds
  <2> QED
    BY <1>1, <1>7, <2>1, <2>2 DEF OutcomesAreEverywhereTrue, mac
<1>9. CommandsCarryTruth'
  <2> SUFFICES ASSUME NEW d \in Command
      PROVE  /\ command'[d].pc = "answered" =>
                  command'[d].status \in Promise!Status \ {"absent"}
                  /\ (command'[d].status # "accepted" => Holds(command[d].status)')
             /\ command'[d].pc = "verifying" => command'[d].status = "completed_claimed"
             /\ command'[d].pc \notin {"idle", "answered"} => Holds(command[d].status)'
             /\ command'[d].pc \notin {"idle", "peeking"} => receipt' # "absent"
             /\ command'[d].pc = "probing" =>
                  command'[d].status \in {"connecting", "starting", "running"}
    BY DEF CommandsCarryTruth
  <2>1. command'[d] = command[d]
    BY <1>1 DEF mac
  <2>2. Holds(command[d].status) => Holds(command[d].status)'
    BY <2>1, <1>3 DEF Holds
  <2> QED
    BY <2>1, <2>2, <1>4 DEF CommandsCarryTruth
<1>10. LossComesLast'
  BY <1>1, <1>7 DEF LossComesLast, LostMeansUnsupervised, mac
<1>11. DispatchComesFirst' /\ AcceptanceOutlivesWorker'
  BY <1>1 DEF DispatchComesFirst, AcceptanceOutlivesWorker, mac
<1> QED
  BY <1>1, <1>6, <1>8, <1>9, <1>10, <1>11

LEMMA NextInv ==
  ASSUME IInv, [Next]_vars
  PROVE  IInv'
<1>1. CASE UNCHANGED vars
  BY <1>1 DEF vars, IInv, TypeOK, DispatchComesFirst, CarrierComesFirst,
              OutcomesAreEverywhereTrue, Holds, CommandsCarryTruth, LossComesLast,
              LostMeansUnsupervised, AcceptanceOutlivesWorker
<1>2. CASE Next
  BY <1>2, DispatchKeeps, WorkerKeepsInv, OwnerKeepsInv, RunnerKeepsInv DEF Next
<1> QED
  BY <1>1, <1>2

-----------------------------------------------------------------------------
(* Theorems.                                                               *)

\* The strengthened invariant: every status that is saved, carried by a command
\* or on the wire says what Windows says.
THEOREM Inductive == Spec => []IInv
<1>1. Init => IInv
  BY InitInv
<1>2. IInv /\ [Next]_vars => IInv'
  BY NextInv
<1> QED
  BY <1>1, <1>2, PTL DEF Spec

\* However late the commands save what they read, state.json never says more
\* of the outcome than the receipt on Windows.
THEOREM OutcomesComeFromWindows == Spec => []OutcomeIsFromWindows
<1>1. IInv => OutcomeIsFromWindows
  BY DEF IInv, OutcomesAreEverywhereTrue, OutcomeIsFromWindows, Holds, Verdict
<1> QED
  BY <1>1, Inductive, PTL

\* No worker saves anything over an acceptance.
THEOREM AcceptancesOutliveWorkers == Spec => []AcceptanceOutlivesWorker
<1>1. IInv => AcceptanceOutlivesWorker
  BY DEF IInv
<1> QED
  BY <1>1, Inductive, PTL

\* A task is called lost only when nobody can still bring its result, although
\* the worker is probed long before the loss is saved.
THEOREM LossesAreUnsupervised == Spec => []LostMeansUnsupervised
<1>1. IInv => LostMeansUnsupervised
  BY DEF IInv, LossComesLast
<1> QED
  BY <1>1, Inductive, PTL

\* The Windows side as this module has it implements what RemoteReceipt
\* promises, whatever happens on the Mac.
THEOREM TaskKeepsTheOrder == Spec => ReceiptFollowsTheOrder
<1>1. Init => Promise!Init
  BY DEF Init, Promise!Init
<1>2. TypeOK /\ [Next]_vars => [Promise!Next]_([r \in {"task"} |-> receipt])
  <2> SUFFICES ASSUME TypeOK, [Next]_vars, receipt' # receipt
               PROVE  Promise!Next
    BY DEF Promise!Next
  <2>1. <<receipt, receipt'>> \in Promise!Order /\ receipt' \in Promise!Status
    BY ReceiptMoves, NextType DEF TypeOK
  <2>2. [r \in {"task"} |-> receipt'] =
          [[r \in {"task"} |-> receipt] EXCEPT !["task"] = receipt']
    OBVIOUS
  <2> QED
    BY <2>1, <2>2 DEF Promise!Next
<1> QED
  BY <1>1, <1>2, TypeCorrect, PTL DEF Spec, ReceiptFollowsTheOrder, Promise!Spec
=============================================================================
