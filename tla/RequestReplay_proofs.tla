------------------------- MODULE RequestReplay_proofs -------------------------
(* A request id is spent on one run at most, for any callers and inputs.     *)
EXTENDS RequestReplay, TLAPS

\* A caller that moves without touching a file or another caller.
LEMMA OnlyMoves ==
  ASSUME TypeOK, NEW c \in Caller, NEW state \in CallerPc, Becomes(c, state),
         UNCHANGED <<receipt, runs, caller>>
  PROVE  /\ TypeOK'
         /\ pc'[c] = state
         /\ \A d \in Caller : d # c => pc'[d] = pc[d]
BY DEF TypeOK, Becomes

LEMMA ReplayInit == Init => ReplayInv
<1> SUFFICES ASSUME Init PROVE ReplayInv
  OBVIOUS
<1>1. TypeOK
  BY DEF Init, TypeOK, CallerPc
<1>2. RequestLocked /\ SeenIsStable /\ RunOncePerRequest /\ AnswersNameTheRun /\ RunsHaveReceipts
  BY DEF Init, RequestLocked, Holding, SeenIsStable, RunOncePerRequest, AnswersNameTheRun,
         RunsHaveReceipts
<1> QED BY <1>1, <1>2 DEF ReplayInv

LEMMA AskPreserves ==
  ASSUME ReplayInv, NEW c \in Caller, NEW request \in Request, Ask(c, request)
  PROVE  ReplayInv'
<1> USE DEF ReplayInv
<1>1. TypeOK'
  BY DEF TypeOK, Ask, Becomes, CallerPc
<1>2. /\ caller'[c] = request /\ pc'[c] = "idle"
      /\ \A d \in Caller : d # c => caller'[d] = caller[d] /\ pc'[d] = pc[d]
      /\ receipt' = receipt /\ runs' = runs
  BY DEF TypeOK, Ask, Becomes
<1>3. RequestLocked'
  BY <1>2 DEF RequestLocked, Holding
<1>4. SeenIsStable'
  BY <1>2 DEF SeenIsStable
<1>5. AnswersNameTheRun'
  BY <1>2 DEF AnswersNameTheRun
<1>6. RunOncePerRequest' /\ RunsHaveReceipts'
  BY <1>2 DEF RunOncePerRequest, RunsHaveReceipts
<1> QED BY <1>1, <1>3, <1>4, <1>5, <1>6

\* The steps that read, lock or release, and write nothing.
LEMMA ReadingPreserves ==
  ASSUME ReplayInv, NEW c \in Caller,
         Acquire(c) \/ CheckReceipt(c) \/ ScanRounds(c) \/ Reply(c) \/ Lost(c)
  PROVE  ReplayInv'
<1> USE DEF ReplayInv
<1>1. PICK state \in CallerPc :
        /\ Becomes(c, state) /\ UNCHANGED <<receipt, runs, caller>>
        /\ \/ pc[c] = "idle" /\ RequestLockFree(c) /\ state = "locked"
           \/ pc[c] = "locked" /\ (state = "checked" => receipt[caller[c].id] \in {NoDigest, caller[c].digest})
                /\ state \in {"checked", "refused"}
           \/ pc[c] = "checked" /\ state = "scanned" /\ runs[caller[c].id] = <<>>
           \/ pc[c] = "checked" /\ state = "answered" /\ runs[caller[c].id] # <<>>
                /\ runs[caller[c].id][1] = caller[c].digest
           \/ pc[c] = "committed" /\ state = "answered"
           \/ state \in {"refused", "idle"}
  <2>1. CASE Acquire(c)
    BY <2>1 DEF Acquire, CallerPc
  <2>2. CASE CheckReceipt(c)
    BY <2>2 DEF CheckReceipt, CallerPc
  <2>3. CASE ScanRounds(c)
    BY <2>3 DEF ScanRounds, CallerPc
  <2>4. CASE Reply(c)
    BY <2>4 DEF Reply, CallerPc
  <2>5. CASE Lost(c)
    BY <2>5 DEF Lost, CallerPc
  <2> QED BY <2>1, <2>2, <2>3, <2>4, <2>5
<1>2. /\ TypeOK'
      /\ pc'[c] = state
      /\ \A d \in Caller : d # c => pc'[d] = pc[d]
      /\ caller' = caller /\ runs' = runs /\ receipt' = receipt
  BY <1>1, OnlyMoves
<1>3. RequestLocked'
  BY <1>1, <1>2 DEF RequestLocked, RequestLockFree, Holding
<1>4. SeenIsStable'
  BY <1>1, <1>2 DEF SeenIsStable
<1>5. AnswersNameTheRun'
  <2>1. caller[c].id \in RequestId /\ caller[c].digest \in Digest
    BY DEF TypeOK, Request
  <2>2. runs[caller[c].id] \in Seq(Digest) /\ Len(runs[caller[c].id]) <= 1
    BY <2>1 DEF TypeOK, RunOncePerRequest
  <2>3. state = "answered" => runs[caller[c].id] = <<caller[c].digest>>
    <3>1. CASE pc[c] = "committed"
      BY <1>1, <3>1 DEF SeenIsStable
    <3>2. CASE runs[caller[c].id] # <<>> /\ runs[caller[c].id][1] = caller[c].digest
      BY <2>1, <2>2, <3>2
    <3> QED BY <1>1, <3>1, <3>2
  <2> QED BY <1>2, <2>3 DEF AnswersNameTheRun
<1>6. RunOncePerRequest' /\ RunsHaveReceipts'
  BY <1>2 DEF RunOncePerRequest, RunsHaveReceipts
<1> QED BY <1>2, <1>3, <1>4, <1>5, <1>6

LEMMA WriteReceiptPreserves ==
  ASSUME ReplayInv, NEW c \in Caller, WriteReceipt(c)
  PROVE  ReplayInv'
<1> USE DEF ReplayInv
<1> DEFINE id == caller[c].id
<1>1. id \in RequestId /\ caller[c].digest \in Digest
  BY DEF TypeOK, Request
<1>2. /\ pc'[c] = "intended" /\ caller' = caller /\ runs' = runs
      /\ \A d \in Caller : d # c => pc'[d] = pc[d]
      /\ receipt'[id] = caller[c].digest
      /\ \A other \in RequestId : other # id => receipt'[other] = receipt[other]
      /\ TypeOK'
  BY <1>1 DEF TypeOK, WriteReceipt, Becomes, CallerPc
<1>3. RequestLocked'
  BY <1>2 DEF RequestLocked, Holding, WriteReceipt
<1>4. runs[id] = <<>>
  BY DEF SeenIsStable, WriteReceipt
<1>5. SeenIsStable'
  <2> SUFFICES ASSUME NEW d \in Caller
               PROVE  LET i == caller[d].id
                          digest == caller[d].digest
                      IN  /\ pc'[d] \in {"checked", "scanned"} => receipt'[i] \in {NoDigest, digest}
                          /\ pc'[d] \in {"scanned", "intended"} => runs[i] = <<>>
                          /\ pc'[d] \in {"intended", "committed"} => receipt'[i] = digest
                          /\ pc'[d] = "committed" => runs[i] = <<digest>>
    BY <1>2 DEF SeenIsStable
  <2>1. CASE d = c
    BY <1>2, <1>4, <2>1
  <2>2. CASE d # c
    <3>1. pc[d] \in Holding => caller[d].id # id
      BY <2>2 DEF RequestLocked, WriteReceipt, Holding
    <3>2. caller[d].id \in RequestId
      BY DEF TypeOK, Request
    <3> QED BY <1>2, <2>2, <3>1, <3>2 DEF SeenIsStable, Holding
  <2> QED BY <2>1, <2>2
<1>6. AnswersNameTheRun'
  BY <1>2 DEF AnswersNameTheRun
<1>7. RunOncePerRequest' /\ RunsHaveReceipts'
  BY <1>2, <1>4 DEF RunOncePerRequest, RunsHaveReceipts
<1> QED BY <1>2, <1>3, <1>5, <1>6, <1>7

LEMMA CallbackPreserves ==
  ASSUME ReplayInv, NEW c \in Caller, Callback(c)
  PROVE  ReplayInv'
<1> USE DEF ReplayInv
<1> DEFINE id == caller[c].id
           digest == caller[c].digest
<1>1. id \in RequestId /\ digest \in Digest /\ runs[id] = <<>> /\ receipt[id] = digest
  BY DEF TypeOK, Request, SeenIsStable, Callback
<1>2. CASE Becomes(c, "refused") /\ UNCHANGED runs
  <2>1. /\ TypeOK' /\ pc'[c] = "refused" /\ caller' = caller /\ runs' = runs /\ receipt' = receipt
        /\ \A d \in Caller : d # c => pc'[d] = pc[d]
    BY <1>2, OnlyMoves DEF Callback, CallerPc
  <2> QED
    BY <2>1 DEF RequestLocked, Holding, SeenIsStable, AnswersNameTheRun, RunOncePerRequest,
                RunsHaveReceipts
<1>3. CASE runs' = [runs EXCEPT ![id] = Append(@, digest)] /\ Becomes(c, "committed")
  <2>1. Append(runs[id], digest) = <<digest>>
    BY <1>1
  <2>2. /\ pc'[c] = "committed" /\ caller' = caller /\ receipt' = receipt
        /\ \A d \in Caller : d # c => pc'[d] = pc[d]
        /\ runs'[id] = <<digest>>
        /\ \A other \in RequestId : other # id => runs'[other] = runs[other]
    BY <1>1, <1>3, <2>1 DEF TypeOK, Callback, Becomes
  <2>3. TypeOK'
    <3>1. <<digest>> \in Seq(Digest)
      BY <1>1
    <3> QED BY <1>1, <1>3, <2>1, <3>1 DEF TypeOK, Callback, Becomes, CallerPc
  <2>4. \A d \in Caller : d # c /\ pc[d] \in Holding => caller[d].id # id
    BY DEF RequestLocked, Callback, Holding
  <2>5. RequestLocked'
    BY <2>2, <2>4 DEF RequestLocked, Holding
  <2>6. SeenIsStable'
    <3> SUFFICES ASSUME NEW d \in Caller
                 PROVE  LET i == caller[d].id
                            asked == caller[d].digest
                        IN  /\ pc'[d] \in {"checked", "scanned"} => receipt[i] \in {NoDigest, asked}
                            /\ pc'[d] \in {"scanned", "intended"} => runs'[i] = <<>>
                            /\ pc'[d] \in {"intended", "committed"} => receipt[i] = asked
                            /\ pc'[d] = "committed" => runs'[i] = <<asked>>
      BY <2>2 DEF SeenIsStable
    <3>1. CASE d = c
      BY <1>1, <2>2, <3>1
    <3>2. CASE d # c
      <4>1. caller[d].id \in RequestId
        BY DEF TypeOK, Request
      <4> QED BY <2>2, <2>4, <3>2, <4>1 DEF SeenIsStable, Holding
    <3> QED BY <3>1, <3>2
  <2>7. AnswersNameTheRun'
    <3> SUFFICES ASSUME NEW d \in Caller, pc'[d] = "answered"
                 PROVE  runs'[caller[d].id] = <<caller[d].digest>>
      BY <2>2 DEF AnswersNameTheRun
    <3>1. d # c /\ pc[d] = "answered" /\ caller[d].id \in RequestId
      BY <2>2 DEF TypeOK, Request
    <3>2. runs[caller[d].id] = <<caller[d].digest>>
      BY <3>1 DEF AnswersNameTheRun
    <3>3. caller[d].id # id
      <4>1. <<caller[d].digest>> # <<>>
        OBVIOUS
      <4> QED BY <1>1, <3>2, <4>1
    <3> QED BY <2>2, <3>1, <3>2, <3>3
  <2>8. RunOncePerRequest'
    <3>1. Len(<<digest>>) = 1
      OBVIOUS
    <3>2. ASSUME NEW other \in RequestId PROVE Len(runs'[other]) <= 1
      <4>1. CASE other = id
        <5>1. runs'[other] = <<digest>>
          BY <2>2, <4>1
        <5>2. Len(runs'[other]) = 1
          BY ONLY <3>1, <5>1
        <5> QED BY <5>2
      <4>2. CASE other # id
        <5>1. runs'[other] = runs[other]
          BY <2>2, <4>2
        <5> QED BY <5>1 DEF RunOncePerRequest
      <4> QED BY <4>1, <4>2
    <3> QED BY <3>2 DEF RunOncePerRequest
  <2>9. RunsHaveReceipts'
    BY <1>1, <2>2 DEF RunsHaveReceipts
  <2> QED BY <2>3, <2>5, <2>6, <2>7, <2>8, <2>9
<1> QED BY <1>2, <1>3 DEF Callback

LEMMA ReplayStep == ReplayInv /\ [Next]_vars => ReplayInv'
<1>1. ASSUME ReplayInv, UNCHANGED vars
      PROVE  ReplayInv'
  BY <1>1 DEF vars, ReplayInv, TypeOK, RequestLocked, SeenIsStable, RunOncePerRequest,
              AnswersNameTheRun, RunsHaveReceipts
<1> QED
  BY <1>1, AskPreserves, ReadingPreserves, WriteReceiptPreserves, CallbackPreserves
     DEF Next, Dispatch

\* The invariant is inductive, for any callers, request ids and inputs.
THEOREM Inductive == Spec => []ReplayInv
BY ReplayInit, ReplayStep, PTL DEF Spec

\* A request runs at most once, however its receipt, its callback and its
\* callers die or repeat.
THEOREM RequestsRunOnce == Spec => []RunOncePerRequest
<1>1. ReplayInv => RunOncePerRequest
  BY DEF ReplayInv
<1> QED
  BY <1>1, Inductive, PTL

\* Whoever is answered is answered about the run of its own inputs.
THEOREM AnswersAreAboutTheirRun == Spec => []AnswersNameTheRun
<1>1. ReplayInv => AnswersNameTheRun
  BY DEF ReplayInv
<1> QED
  BY <1>1, Inductive, PTL
=============================================================================
