------------------------ MODULE RoundEvidence_proofs ------------------------
(* What is read of a round's stream, and what its verdict says, for streams *)
(* of any length and any transcript.                                        *)
EXTENDS RoundEvidence, FiniteSetTheorems, SequenceTheorems, TLAPS

-----------------------------------------------------------------------------
(* Sequences that grow by one, and what error does to them.                *)

LEMMA AppendRange ==
  ASSUME NEW S, NEW q \in Seq(S), NEW x \in S
  PROVE  Range(Append(q, x)) = Range(q) \cup {x}
<1> DEFINE p == Append(q, x)
           n == Len(q)
<1>1. /\ n \in Nat /\ DOMAIN q = 1 .. n /\ DOMAIN p = 1 .. n + 1
      /\ p[n + 1] = x /\ \A k \in 1 .. n : p[k] = q[k]
  OBVIOUS
<1> HIDE DEF p, n
<1>2. \A k \in 1 .. n : k \in 1 .. n + 1
  BY <1>1
<1>3. \A k \in 1 .. n + 1 : k \in 1 .. n \/ k = n + 1
  BY <1>1
<1>4. n + 1 \in 1 .. n + 1
  BY <1>1
<1>5. Range(p) = Range(q) \cup {x}
  BY <1>1, <1>2, <1>3, <1>4 DEF Range
<1> QED
  BY <1>5 DEF p

LEMMA OccurrencesAreFinite ==
  ASSUME NEW S, NEW q \in Seq(S), NEW v
  PROVE  /\ IsFiniteSet({k \in DOMAIN q : q[k] = v})
         /\ Occurrences(q, v) \in Nat
<1> DEFINE at == {k \in DOMAIN q : q[k] = v}
<1>1. DOMAIN q = 1 .. Len(q) /\ Len(q) \in Int
  OBVIOUS
<1>2. IsFiniteSet(DOMAIN q)
  BY <1>1, FS_Interval
<1>3. at \in SUBSET DOMAIN q
  OBVIOUS
<1>4. IsFiniteSet(at)
  BY <1>2, <1>3, FS_Subset
<1> QED
  BY <1>4, FS_CardinalityType DEF Occurrences

LEMMA AppendOccurrences ==
  ASSUME NEW S, NEW q \in Seq(S), NEW x \in S, NEW v
  PROVE  Occurrences(Append(q, x), v) = Occurrences(q, v) + (IF x = v THEN 1 ELSE 0)
<1> DEFINE p == Append(q, x)
           n == Len(q)
           at == {k \in DOMAIN q : q[k] = v}
           then == {k \in DOMAIN p : p[k] = v}
<1>1. /\ n \in Nat /\ DOMAIN q = 1 .. n /\ DOMAIN p = 1 .. n + 1
      /\ p[n + 1] = x /\ \A k \in 1 .. n : p[k] = q[k]
  OBVIOUS
<1>2. IsFiniteSet(at) /\ Cardinality(at) \in Nat
  BY OccurrencesAreFinite DEF Occurrences
<1>3. n + 1 \notin at
  BY <1>1
<1>4. CASE x = v
  <2>1. then = at \cup {n + 1}
    <3> HIDE DEF p, n
    <3> QED
      BY <1>1, <1>4
  <2>2. Cardinality(at \cup {n + 1}) = Cardinality(at) + 1
    <3> HIDE DEF at
    <3> QED
      BY <1>2, <1>3, FS_AddElement
  <2> QED
    BY <1>4, <2>1, <2>2 DEF Occurrences
<1>5. CASE x # v
  <2>1. then = at
    <3> HIDE DEF p, n
    <3> QED
      BY <1>1, <1>5
  <2>2. Cardinality(then) = Cardinality(at) + 0
    <3> HIDE DEF at, then
    <3> QED
      BY <1>2, <2>1
  <2> QED
    BY <1>5, <2>2 DEF Occurrences
<1> QED
  BY <1>4, <1>5

Signature == HookName \cup {"tool_result"}

\* Whether error announces what it is told.
Announces(m, signature, fatal) == signature \notin m.seen_errors /\ (fatal \/ ~m.incident_active)

LEMMA ErrorEffect ==
  ASSUME NEW m \in IncidentRecord, NEW signature \in Signature, NEW fatal \in BOOLEAN
  PROVE  LET e == error(m, signature, fatal)
         IN  /\ e \in IncidentRecord /\ e.checkpoints = m.checkpoints
             /\ e.incident_active = TRUE /\ e.seen_errors = m.seen_errors \cup {signature}
             /\ Announces(m, signature, fatal) =>
                  e.events = Append(m.events, IF fatal THEN "fatal" ELSE "error")
             /\ ~Announces(m, signature, fatal) => e.events = m.events
<1> DEFINE events == IF Announces(m, signature, fatal)
                     THEN Append(m.events, IF fatal THEN "fatal" ELSE "error") ELSE m.events
           known == m.seen_errors \cup {signature}
           e == [m EXCEPT !.events = events, !.seen_errors = known, !.incident_active = TRUE]
<1>1. /\ m.seen_errors \subseteq Signature /\ m.incident_active \in BOOLEAN
      /\ m.events \in Seq(EventKinds) /\ m.checkpoints \in Nat
      /\ m = [seen_errors |-> m.seen_errors, incident_active |-> m.incident_active,
              events |-> m.events, checkpoints |-> m.checkpoints]
  BY DEF IncidentRecord, Signature
<1>2. events \in Seq(EventKinds)
  <2>1. Append(m.events, "fatal") \in Seq(EventKinds) /\ Append(m.events, "error") \in Seq(EventKinds)
    BY <1>1 DEF EventKinds
  <2> QED
    BY <1>1, <2>1, Zenon
<1>3. error(m, signature, fatal) = e
  BY Zenon DEF error, Announces
<1>4. /\ Announces(m, signature, fatal) =>
           events = Append(m.events, IF fatal THEN "fatal" ELSE "error")
      /\ ~Announces(m, signature, fatal) => events = m.events
  OBVIOUS
<1>5. known \in SUBSET Signature
  BY <1>1
<1> HIDE DEF events, known
<1>6. /\ e \in IncidentRecord /\ e.checkpoints = m.checkpoints /\ e.incident_active = TRUE
      /\ e.seen_errors = known /\ e.events = events
  BY <1>2, <1>5 DEF IncidentRecord, Signature
<1> QED
  BY <1>3, <1>4, <1>6 DEF known

LEMMA ErrorAppends ==
  ASSUME NEW m \in IncidentRecord, NEW signature \in Signature, NEW fatal \in BOOLEAN
  PROVE  \/ error(m, signature, fatal).events = m.events
         \/ \E kind \in EventKinds : error(m, signature, fatal).events = Append(m.events, kind)
<1> DEFINE kind == IF fatal THEN "fatal" ELSE "error"
<1>1. kind \in EventKinds
  BY DEF EventKinds
<1>2. error(m, signature, fatal).events = m.events \/ error(m, signature, fatal).events = Append(m.events, kind)
  BY ErrorEffect
<1> HIDE DEF kind
<1> QED
  BY <1>1, <1>2

\* What a row or a hook does to the incidents.
LEMMA StreamEffect ==
  ASSUME NEW m \in IncidentRecord, NEW row
  PROVE  /\ stream(m, row) \in IncidentRecord
         /\ row = "tool_failed" => stream(m, row) = error(m, "tool_result", FALSE)
         /\ row # "tool_failed" =>
              /\ stream(m, row).events = m.events /\ stream(m, row).seen_errors = m.seen_errors
              /\ stream(m, row).incident_active <=> m.incident_active /\ row # "tool_ok"
<1>1. CASE row = "tool_failed"
  <2>1. stream(m, row) = error(m, "tool_result", FALSE)
    BY <1>1 DEF stream
  <2>2. error(m, "tool_result", FALSE) \in IncidentRecord
    BY ErrorEffect DEF Signature
  <2> QED
    BY <1>1, <2>1, <2>2
<1>2. CASE row = "tool_ok"
  <2>1. stream(m, row) = [m EXCEPT !.incident_active = FALSE]
    BY <1>2 DEF stream
  <2> QED
    BY <1>2, <2>1 DEF IncidentRecord
<1>3. CASE row # "tool_failed" /\ row # "tool_ok"
  <2>1. stream(m, row) = m /\ m.incident_active \in BOOLEAN
    BY <1>3 DEF stream, IncidentRecord
  <2> QED
    BY <1>3, <2>1
<1> QED
  BY <1>1, <1>2, <1>3

LEMMA HookEffect ==
  ASSUME NEW m \in IncidentRecord, NEW item \in Hook
  PROVE  /\ item.hook = "Interrupt" => hook(m, item) = m
         /\ item.hook # "Interrupt" =>
              hook(m, item) = error(m, item.hook, item.hook = "StopFailure")
         /\ item.hook \in HookName /\ hook(m, item) \in IncidentRecord
<1>1. item.hook \in HookName /\ item.hook \in Signature
  BY DEF Hook, Signature
<1> QED
  BY <1>1, ErrorEffect DEF hook

\* What is announced keeps its cause, and the counts their balance.
LEMMA ErrorHasItsCause ==
  ASSUME NEW m \in IncidentRecord, NEW rows \in Seq(Row), NEW names,
         NEW signature \in Signature, NEW fatal \in BOOLEAN,
         CausesAreSeen(m, rows, names) ,
         fatal => "StopFailure" \in names,
         ~fatal => "tool_failed" \in Range(rows) \/ "PostToolUseFailure" \in names
  PROVE  CausesAreSeen(error(m, signature, fatal), rows, names)
<1> DEFINE e == error(m, signature, fatal)
           kind == IF fatal THEN "fatal" ELSE "error"
<1>1. /\ e.incident_active = TRUE /\ e.seen_errors = m.seen_errors \cup {signature}
      /\ Announces(m, signature, fatal) => e.events = Append(m.events, kind)
      /\ ~Announces(m, signature, fatal) => e.events = m.events
  BY ErrorEffect
<1>2. /\ m.events \in Seq(EventKinds) /\ kind \in EventKinds
      /\ Occurrences(m.events, "error") \in Nat /\ Occurrences(rows, "tool_ok") \in Nat
  <2>1. m.events \in Seq(EventKinds) /\ kind \in EventKinds
    BY DEF IncidentRecord, EventKinds
  <2> QED
    BY <2>1, OccurrencesAreFinite
<1>3. CASE Announces(m, signature, fatal)
  <2>1. kind \in {"error", "fatal"} /\ (kind = "fatal" <=> fatal)
    OBVIOUS
  <2>2. kind = "error" => ~m.incident_active
    BY <1>3, <2>1 DEF Announces
  <2>3. e.events = Append(m.events, kind)
    BY <1>1, <1>3
  <2> HIDE DEF e, kind
  <2>4. Range(e.events) = Range(m.events) \cup {kind}
    BY <1>2, <2>3, AppendRange
  <2>5. Occurrences(e.events, "error") = Occurrences(m.events, "error") + (IF kind = "error" THEN 1 ELSE 0)
    BY <1>2, <2>3, AppendOccurrences
  <2>6. Occurrences(e.events, "error") <= 1 + Occurrences(rows, "tool_ok")
    BY <1>2, <2>2, <2>5 DEF CausesAreSeen
  <2> QED
    BY <1>1, <2>1, <2>4, <2>6 DEF CausesAreSeen, e
<1>4. CASE ~Announces(m, signature, fatal)
  <2>1. m.seen_errors # {} \/ m.incident_active
    BY <1>4 DEF Announces
  <2>2. e.events = m.events
    BY <1>1, <1>4
  <2> HIDE DEF e
  <2> QED
    BY <1>1, <2>1, <2>2 DEF CausesAreSeen, e
<1> QED
  BY <1>3, <1>4

\* A row that is read is a cause of its own.
LEMMA StreamHasItsCause ==
  ASSUME NEW m \in IncidentRecord, NEW rows \in Seq(Row), NEW names, NEW row \in Row,
         CausesAreSeen(m, rows, names)
  PROVE  CausesAreSeen(stream(m, row), Append(rows, row), names)
<1> DEFINE more == Append(rows, row)
           s == stream(m, row)
<1>1. /\ more \in Seq(Row) /\ Range(more) = Range(rows) \cup {row}
      /\ Occurrences(more, "tool_ok") = Occurrences(rows, "tool_ok") + (IF row = "tool_ok" THEN 1 ELSE 0)
      /\ m.events \in Seq(EventKinds) /\ "error" \in EventKinds
      /\ Occurrences(m.events, "error") \in Nat /\ Occurrences(rows, "tool_ok") \in Nat
  <2>1. m.events \in Seq(EventKinds) /\ "error" \in EventKinds
    BY DEF IncidentRecord, EventKinds
  <2>2. more \in Seq(Row)
    OBVIOUS
  <2>3. Range(more) = Range(rows) \cup {row}
    BY AppendRange
  <2>4. Occurrences(more, "tool_ok") = Occurrences(rows, "tool_ok") + (IF row = "tool_ok" THEN 1 ELSE 0)
    BY AppendOccurrences
  <2>5. Occurrences(m.events, "error") \in Nat /\ Occurrences(rows, "tool_ok") \in Nat
    BY <2>1, OccurrencesAreFinite
  <2> QED
    BY <2>1, <2>2, <2>3, <2>4, <2>5
<1>2. CASE row = "tool_failed"
  <2> DEFINE e == error(m, "tool_result", FALSE)
  <2>1. /\ e.incident_active = TRUE /\ e.seen_errors = m.seen_errors \cup {"tool_result"}
        /\ Announces(m, "tool_result", FALSE) => e.events = Append(m.events, "error")
        /\ ~Announces(m, "tool_result", FALSE) => e.events = m.events
    <3>1. "tool_result" \in Signature /\ FALSE \in BOOLEAN
      BY DEF Signature
    <3> QED
      BY <3>1, ErrorEffect
  <2>2. s = e
    BY <1>2, StreamEffect
  <2> HIDE DEF e, more, s
  <2>3. CASE Announces(m, "tool_result", FALSE)
    <3>1. ~m.incident_active
      BY <2>3 DEF Announces
    <3>2. e.events = Append(m.events, "error")
      BY <2>1, <2>3
    <3>3. Range(e.events) = Range(m.events) \cup {"error"}
      BY <1>1, <3>2, AppendRange
    <3>4. Occurrences(e.events, "error") = Occurrences(m.events, "error") + 1
      BY <1>1, <3>2, AppendOccurrences
    <3>5. Occurrences(e.events, "error") <= 1 + Occurrences(more, "tool_ok")
      BY <1>1, <1>2, <3>1, <3>4 DEF CausesAreSeen
    <3>6. CausesAreSeen(e, more, names)
      BY <1>1, <1>2, <2>1, <3>3, <3>5 DEF CausesAreSeen
    <3> QED
      BY <2>2, <3>6 DEF s, more
  <2>4. CASE ~Announces(m, "tool_result", FALSE)
    <3>1. e.events = m.events /\ (m.seen_errors # {} \/ m.incident_active)
      BY <2>1, <2>4 DEF Announces
    <3>2. Occurrences(e.events, "error") <= 1 + Occurrences(more, "tool_ok")
      BY <1>1, <1>2, <3>1 DEF CausesAreSeen
    <3>3. CausesAreSeen(e, more, names)
      BY <1>1, <1>2, <2>1, <3>1, <3>2 DEF CausesAreSeen
    <3> QED
      BY <2>2, <3>3 DEF s, more
  <2> QED
    BY <2>3, <2>4
<1>3. CASE row # "tool_failed"
  <2>1. /\ s.events = m.events /\ s.seen_errors = m.seen_errors
        /\ s.incident_active <=> m.incident_active /\ row # "tool_ok"
    BY <1>3, StreamEffect
  <2> HIDE DEF s, more
  <2>2. /\ Occurrences(s.events, "error") <= 1 + Occurrences(more, "tool_ok")
        /\ ~s.incident_active => Occurrences(s.events, "error") <= Occurrences(more, "tool_ok")
    <3>1. CASE row = "tool_ok"
      BY <1>1, <2>1, <3>1 DEF CausesAreSeen
    <3>2. CASE row # "tool_ok"
      BY <1>1, <2>1, <3>2 DEF CausesAreSeen
    <3> QED
      BY <3>1, <3>2
  <2>3. CausesAreSeen(s, more, names)
    BY <1>1, <1>3, <2>1, <2>2 DEF CausesAreSeen
  <2> QED
    BY <2>3 DEF s, more
<1> QED
  BY <1>2, <1>3

\* A hook that is read was fired, and so is a cause too.
LEMMA HookHasItsCause ==
  ASSUME NEW m \in IncidentRecord, NEW rows \in Seq(Row), NEW names, NEW item \in Hook,
         CausesAreSeen(m, rows, names), item.hook \in names
  PROVE  CausesAreSeen(hook(m, item), rows, names)
<1>1. CASE item.hook = "Interrupt"
  BY <1>1, HookEffect
<1>2. CASE item.hook # "Interrupt"
  <2>1. /\ hook(m, item) = error(m, item.hook, item.hook = "StopFailure")
        /\ item.hook \in {"PostToolUseFailure", "StopFailure"}
    BY <1>2, HookEffect DEF HookName
  <2>2. item.hook \in Signature /\ (item.hook = "StopFailure") \in BOOLEAN
    BY <2>1 DEF Signature, HookName
  <2>3. /\ item.hook = "StopFailure" => "StopFailure" \in names
        /\ item.hook # "StopFailure" => "PostToolUseFailure" \in names
    BY <2>1
  <2>4. CausesAreSeen(error(m, item.hook, item.hook = "StopFailure"), rows, names)
    BY <2>2, <2>3, ErrorHasItsCause
  <2> QED
    BY <2>1, <2>4
<1> QED
  BY <1>1, <1>2

-----------------------------------------------------------------------------
(* Reading the stream.                                                     *)

LEMMA InitReading == Init => ReadingInv
<1> SUFFICES ASSUME Init PROVE ReadingInv
  OBVIOUS
<1>1. TypeOK
  <2>1. NewRound(This) \in RoundRecord
    BY DEF NewRound, Round, RoundRecord
  <2>2. firing \subseteq Hook
    BY DEF Init, Hook, Round
  <2>3. NewMonitor \in MonitorRecord /\ NoIncidents \in IncidentRecord
    BY DEF NewMonitor, MonitorRecord, Place, NoIncidents, IncidentRecord
  <2> QED
    BY <2>1, <2>2, <2>3 DEF Init, TypeOK, LastPiece
<1>2. SeenIsRead
  BY SubSeqEmpty DEF Init, SeenIsRead, NewMonitor
<1>3. LastTickIsWhole
  BY DEF Init, LastTickIsWhole, NewRound, NewMonitor
<1> QED
  BY <1>1, <1>2, <1>3 DEF ReadingInv

\* What is read stays read when the stream and the offset rest.
LEMMA ReadingRests ==
  ASSUME SeenIsRead, stdout'.rows = stdout.rows, seen' = seen,
         monitor'.stdout_offset = monitor.stdout_offset
  PROVE  SeenIsRead'
BY DEF SeenIsRead

LEMMA BeginRowStep ==
  ASSUME ReadingInv, NEW row \in Row, BeginRow(row)
  PROVE  ReadingInv'
<1>1. stdout' \in [rows : Seq(Row), tail : LastPiece] /\ stdout'.rows = stdout.rows
  BY DEF ReadingInv, TypeOK, BeginRow, LastPiece
<1>2. TypeOK'
  BY <1>1 DEF ReadingInv, TypeOK, BeginRow
<1>3. SeenIsRead'
  BY <1>1, ReadingRests DEF ReadingInv, BeginRow
<1>4. LastTickIsWhole'
  BY <1>1 DEF ReadingInv, LastTickIsWhole, BeginRow, ProviderRuns
<1> QED
  BY <1>2, <1>3, <1>4 DEF ReadingInv

\* A row that is appended lies behind every offset; and while the provider writes
\* nothing has been concluded from a clean exit.
LEMMA EndRowStep ==
  ASSUME ReadingInv, NEW row \in Row, EndRow(row)
  PROVE  ReadingInv'
<1>1. /\ stdout.rows \in Seq(Row) /\ monitor.stdout_offset \in Nat
      /\ stdout' = [rows |-> Append(stdout.rows, row), tail |-> "none"]
      /\ UNCHANGED <<round, hooks, firing, fired, monitor, incidents, saved, seen>>
      /\ ProviderRuns
  BY DEF ReadingInv, TypeOK, MonitorRecord, EndRow
<1>2. TypeOK'
  BY <1>1 DEF ReadingInv, TypeOK, LastPiece
<1>3. SeenIsRead'
  <2> DEFINE rows == stdout.rows
             n == monitor.stdout_offset
  <2>1. n <= Len(rows) /\ seen = SubSeq(rows, 1, n) /\ rows \in Seq(Row) /\ n \in Nat
    BY <1>1 DEF ReadingInv, SeenIsRead
  <2>2. Append(rows, row) \in Seq(Row) /\ Len(Append(rows, row)) = Len(rows) + 1
        /\ \A k \in 1 .. Len(rows) : Append(rows, row)[k] = rows[k]
    BY <2>1
  <2>3. SubSeq(Append(rows, row), 1, n) = SubSeq(rows, 1, n)
    <3> HIDE DEF rows, n
    <3>1. /\ SubSeq(rows, 1, n) \in Seq(Row) /\ SubSeq(Append(rows, row), 1, n) \in Seq(Row)
          /\ Len(SubSeq(rows, 1, n)) = n /\ Len(SubSeq(Append(rows, row), 1, n)) = n
          /\ \A k \in 1 .. n : /\ SubSeq(rows, 1, n)[k] = rows[k]
                               /\ SubSeq(Append(rows, row), 1, n)[k] = Append(rows, row)[k]
      BY <2>1, <2>2
    <3> QED
      BY <2>1, <2>2, <3>1, SeqEqual
  <2> QED
    BY <1>1, <2>1, <2>2, <2>3 DEF SeenIsRead
<1>4. LastTickIsWhole'
  BY <1>1 DEF ReadingInv, LastTickIsWhole, ProviderRuns
<1> QED
  BY <1>2, <1>3, <1>4 DEF ReadingInv

LEMMA HookStep ==
  ASSUME ReadingInv,
         \/ \E name \in HookName : FireHook(name)
         \/ \E item \in firing : record_hook(item)
  PROVE  ReadingInv'
<1>1. UNCHANGED <<round, stdout, monitor, incidents, saved, seen>>
  BY DEF FireHook, record_hook
<1>2. hooks' \in Seq(Hook) /\ firing' \subseteq Hook /\ fired' \subseteq Hook
  <2>1. hooks \in Seq(Hook) /\ firing \subseteq Hook /\ fired \subseteq Hook /\ round.index \in Round
    BY DEF ReadingInv, TypeOK, RoundRecord
  <2>2. ASSUME NEW name \in HookName, FireHook(name)
        PROVE  hooks' \in Seq(Hook) /\ firing' \subseteq Hook /\ fired' \subseteq Hook
    BY <2>1, <2>2 DEF FireHook, Hook
  <2>3. ASSUME NEW item \in firing, record_hook(item)
        PROVE  hooks' \in Seq(Hook) /\ firing' \subseteq Hook /\ fired' \subseteq Hook
    BY <2>1, <2>3 DEF record_hook
  <2> QED
    BY <2>2, <2>3
<1>3. TypeOK'
  BY <1>1, <1>2 DEF ReadingInv, TypeOK
<1>4. SeenIsRead' /\ LastTickIsWhole'
  BY <1>1 DEF ReadingInv, SeenIsRead, LastTickIsWhole, ProviderRuns
<1> QED
  BY <1>3, <1>4 DEF ReadingInv

LEMMA ExitStep ==
  ASSUME ReadingInv, KillFails \/ \E how \in {"zero", "other"} : ProviderExits(how)
  PROVE  ReadingInv'
<1>1. UNCHANGED <<stdout, hooks, firing, fired, monitor, seen>> /\ ProviderRuns /\ TypeOK
  BY DEF ReadingInv, KillFails, ProviderExits
<1>2. TypeOK'
  <2>1. CASE KillFails
    BY <1>1, <2>1 DEF KillFails, TypeOK, RoundRecord
  <2>2. ASSUME NEW how \in {"zero", "other"}, ProviderExits(how) PROVE TypeOK'
    BY <1>1, <2>2 DEF ProviderExits, TypeOK, RoundRecord
  <2> QED
    BY <2>1, <2>2
<1>3. SeenIsRead'
  BY <1>1, ReadingRests DEF ReadingInv
<1>4. LastTickIsWhole'
  <2>1. CASE KillFails
    BY <1>1, <2>1 DEF ReadingInv, KillFails, TypeOK, LastTickIsWhole, ProviderRuns
  <2>2. ASSUME NEW how \in {"zero", "other"}, ProviderExits(how) PROVE LastTickIsWhole'
    BY <1>1, <2>2 DEF ReadingInv, ProviderExits, TypeOK, LastTickIsWhole, ProviderRuns
  <2> QED
    BY <2>1, <2>2
<1> QED
  BY <1>2, <1>3, <1>4 DEF ReadingInv

\* The Monitor reads the stream no further in these steps.
LEMMA TickStep ==
  ASSUME ReadingInv,
         \/ \E complete \in BOOLEAN : BeginTick(complete)
         \/ DrainHook \/ HooksDrained
  PROVE  ReadingInv'
<1>1. /\ TypeOK /\ monitor \in MonitorRecord /\ monitor.at \in {"waiting", "hooks"}
      /\ UNCHANGED <<round, stdout, hooks, firing, fired, saved, seen>>
  BY DEF ReadingInv, TypeOK, BeginTick, DrainHook, HooksDrained
<1>2. /\ monitor' \in MonitorRecord /\ monitor'.stdout_offset = monitor.stdout_offset
      /\ monitor'.at \in {"hooks", "stream"}
      /\ monitor'.complete => round.exit # "none"
  <2>1. ASSUME NEW complete \in BOOLEAN, BeginTick(complete)
        PROVE  /\ monitor' \in MonitorRecord /\ monitor'.stdout_offset = monitor.stdout_offset
               /\ monitor'.at \in {"hooks", "stream"}
               /\ monitor'.complete => round.exit # "none"
    BY <1>1, <2>1 DEF BeginTick, MonitorRecord, Place
  <2>2. CASE DrainHook
    <3>1. monitor.at = "hooks" /\ monitor' = [monitor EXCEPT !.hooks_offset = @ + 1]
      BY <2>2 DEF DrainHook
    <3>2. monitor.hooks_offset + 1 \in Nat
      BY <1>1 DEF MonitorRecord
    <3> QED
      BY <1>1, <3>1, <3>2 DEF MonitorRecord, Place, ReadingInv, LastTickIsWhole
  <2>3. CASE HooksDrained
    BY <1>1, <2>3 DEF HooksDrained, MonitorRecord, Place, ReadingInv, LastTickIsWhole
  <2> QED
    BY <2>1, <2>2, <2>3
<1>3. incidents' \in IncidentRecord
  <2>1. CASE DrainHook
    <3>1. monitor.hooks_offset + 1 \in 1 .. Len(hooks) /\ hooks \in Seq(Hook)
          /\ incidents \in IncidentRecord
      BY <1>1, <2>1 DEF DrainHook, TypeOK, MonitorRecord
    <3>2. hooks[monitor.hooks_offset + 1] \in Hook
      BY <3>1
    <3> QED
      BY <2>1, <3>1, <3>2, HookEffect DEF DrainHook
  <2>2. CASE (\E complete \in BOOLEAN : BeginTick(complete)) \/ HooksDrained
    BY <1>1, <2>2 DEF BeginTick, HooksDrained, TypeOK
  <2> QED
    BY <2>1, <2>2
<1>4. TypeOK'
  BY <1>1, <1>2, <1>3 DEF TypeOK
<1>5. SeenIsRead'
  BY <1>1, <1>2, ReadingRests DEF ReadingInv
<1>6. LastTickIsWhole'
  BY <1>1, <1>2 DEF ReadingInv, LastTickIsWhole, ProviderRuns
<1> QED
  BY <1>4, <1>5, <1>6 DEF ReadingInv

\* The next row is the one behind the offset.
LEMMA DrainRowStep ==
  ASSUME ReadingInv, DrainRow
  PROVE  ReadingInv'
<1> DEFINE rows == stdout.rows
           n == monitor.stdout_offset
<1>1. /\ TypeOK /\ rows \in Seq(Row) /\ n \in Nat /\ n + 1 \in 1 .. Len(rows)
      /\ seen = SubSeq(rows, 1, n) /\ incidents \in IncidentRecord /\ monitor \in MonitorRecord
      /\ UNCHANGED <<round, stdout, hooks, firing, fired, saved>>
      /\ monitor' = [monitor EXCEPT !.stdout_offset = n + 1]
      /\ incidents' = stream(incidents, rows[n + 1]) /\ seen' = Append(seen, rows[n + 1])
      /\ monitor.at = "stream"
  BY DEF ReadingInv, TypeOK, MonitorRecord, SeenIsRead, DrainRow, drained
<1>2. seen' = SubSeq(rows, 1, n + 1)
  <2> HIDE DEF rows, n
  <2>1. /\ SubSeq(rows, 1, n) \in Seq(Row) /\ SubSeq(rows, 1, n + 1) \in Seq(Row)
        /\ Len(SubSeq(rows, 1, n)) = n /\ Len(SubSeq(rows, 1, n + 1)) = n + 1
        /\ \A k \in 1 .. n : SubSeq(rows, 1, n)[k] = rows[k]
        /\ \A k \in 1 .. n + 1 : SubSeq(rows, 1, n + 1)[k] = rows[k]
        /\ rows[n + 1] \in Row
    BY <1>1
  <2> DEFINE q == SubSeq(rows, 1, n)
             p == Append(q, rows[n + 1])
  <2>2. /\ p \in Seq(Row) /\ Len(p) = n + 1 /\ p[n + 1] = rows[n + 1]
        /\ \A k \in 1 .. n : p[k] = rows[k]
    <3>1. q \in Seq(Row) /\ Len(q) = n /\ rows[n + 1] \in Row /\ n \in Nat
      BY <1>1, <2>1
    <3>2. \A k \in 1 .. n : q[k] = rows[k]
      BY <2>1
    <3> HIDE DEF q
    <3> QED
      BY <3>1, <3>2
  <2>3. \A k \in 1 .. n + 1 : k \in 1 .. n \/ k = n + 1
    BY <1>1
  <2> HIDE DEF q, p
  <2>4. p = SubSeq(rows, 1, n + 1)
    BY <2>1, <2>2, <2>3, SeqEqual
  <2> QED
    BY <1>1, <2>4 DEF p, q
<1>3. /\ monitor' \in MonitorRecord /\ monitor'.stdout_offset = n + 1 /\ monitor'.at = "stream"
      /\ monitor'.complete = monitor.complete
  <2>1. n + 1 \in Nat
    BY <1>1
  <2> HIDE DEF n
  <2> QED
    BY <1>1, <2>1 DEF MonitorRecord
<1>4. SeenIsRead'
  <2> HIDE DEF n
  <2> QED
    BY <1>1, <1>2, <1>3 DEF SeenIsRead
<1>5. TypeOK'
  <2>1. seen' \in Seq(Row)
    BY <1>1 DEF TypeOK
  <2>2. incidents' \in IncidentRecord
    <3> HIDE DEF rows, n
    <3> QED
      BY <1>1, StreamEffect
  <2> QED
    BY <1>1, <1>3, <2>1, <2>2 DEF TypeOK
<1>6. LastTickIsWhole'
  <2>1. round.ok => seen = rows /\ ~ProviderRuns
    BY DEF ReadingInv, LastTickIsWhole
  <2>2. ~round.ok
    <3>1. Len(seen) = n /\ n # Len(rows)
      BY <1>1
    <3> QED
      BY <2>1, <3>1
  <2> QED
    BY <1>1, <1>3, <2>2 DEF ReadingInv, LastTickIsWhole, ProviderRuns
<1> QED
  BY <1>4, <1>5, <1>6 DEF ReadingInv

\* The checkpoints that are due, and nothing else, follow the events.
LEMMA CheckpointEffect ==
  ASSUME NEW m \in IncidentRecord, NEW due \in 0 .. 2
  PROVE  LET c == Checkpointed(m, due)
         IN  /\ c \in IncidentRecord
             /\ c.incident_active = m.incident_active /\ c.seen_errors = m.seen_errors
             /\ Len(m.events) <= Len(c.events)
             /\ \A k \in 1 .. Len(m.events) : c.events[k] = m.events[k]
             /\ \A k \in 1 .. Len(c.events) :
                  k \in 1 .. Len(m.events) \/ c.events[k] = "checkpoint"
<1> DEFINE late == [k \in 1 .. due |-> "checkpoint"]
           q == m.events
           c == Checkpointed(m, due)
<1>1. /\ q \in Seq(EventKinds) /\ m.checkpoints \in Nat /\ due \in Nat
      /\ m = [seen_errors |-> m.seen_errors, incident_active |-> m.incident_active,
              events |-> q, checkpoints |-> m.checkpoints]
      /\ m.seen_errors \in SUBSET (HookName \cup {"tool_result"}) /\ m.incident_active \in BOOLEAN
  BY DEF IncidentRecord
<1>2. late \in Seq(EventKinds) /\ Len(late) = due /\ \A k \in 1 .. due : late[k] = "checkpoint"
  BY <1>1 DEF EventKinds
<1>3. c = [seen_errors |-> m.seen_errors, incident_active |-> m.incident_active,
           events |-> q \o late, checkpoints |-> m.checkpoints + due]
  <2>1. c = [m EXCEPT !.checkpoints = m.checkpoints + due, !.events = q \o late]
    BY Zenon DEF Checkpointed
  <2> HIDE DEF late, c
  <2> QED
    BY <1>1, <2>1
<1> HIDE DEF late, q
<1>4. /\ q \o late \in Seq(EventKinds) /\ Len(q) \in Nat /\ Len(q \o late) = Len(q) + due
      /\ \A k \in 1 .. Len(q) : (q \o late)[k] = q[k]
      /\ \A k \in 1 .. Len(q) + due :
           k \in 1 .. Len(q) \/ (k - Len(q) \in 1 .. due /\ (q \o late)[k] = late[k - Len(q)])
  BY <1>1, <1>2
<1>5. c \in IncidentRecord
  <2>1. m.checkpoints + due \in Nat
    BY <1>1
  <2> HIDE DEF c
  <2> QED
    BY <1>1, <1>3, <1>4, <2>1 DEF IncidentRecord
<1>6. c.incident_active = m.incident_active /\ c.seen_errors = m.seen_errors /\ c.events = q \o late
  BY <1>3
<1> HIDE DEF c
<1>7. /\ Len(q) <= Len(c.events)
      /\ \A k \in 1 .. Len(q) : c.events[k] = q[k]
      /\ \A k \in 1 .. Len(c.events) : k \in 1 .. Len(q) \/ c.events[k] = "checkpoint"
  BY <1>1, <1>2, <1>4, <1>6
<1> QED
  BY <1>5, <1>6, <1>7 DEF c, q

\* At the end of a tick everything has been read.
LEMMA EndTickStep ==
  ASSUME ReadingInv, NEW due \in 0 .. 2, EndTick(due)
  PROVE  ReadingInv'
<1> DEFINE rows == stdout.rows
           to == IF monitor.complete THEN "done" ELSE "waiting"
<1>1. /\ TypeOK /\ incidents \in IncidentRecord /\ monitor \in MonitorRecord
      /\ rows \in Seq(Row) /\ monitor.stdout_offset = Len(rows)
      /\ seen = SubSeq(rows, 1, Len(rows)) /\ monitor.at = "stream"
      /\ UNCHANGED <<round, stdout, hooks, firing, fired, seen>>
      /\ monitor' = [monitor EXCEPT !.at = to]
      /\ incidents' = Checkpointed(incidents, due) /\ saved' = incidents'.events
  BY DEF ReadingInv, TypeOK, SeenIsRead, EndTick, drained
<1>2. to \in Place /\ (to = "done" => monitor.complete) /\ to \in {"done", "waiting"}
  BY DEF Place
<1>3. /\ monitor' \in MonitorRecord /\ monitor'.at = to
      /\ monitor'.complete = monitor.complete /\ monitor'.stdout_offset = monitor.stdout_offset
  <2> HIDE DEF to
  <2> QED
    BY <1>1, <1>2 DEF MonitorRecord
<1>4. incidents' \in IncidentRecord /\ saved' \in Seq(EventKinds)
  <2>1. incidents' \in IncidentRecord
    BY <1>1, CheckpointEffect
  <2> QED
    BY <1>1, <2>1 DEF IncidentRecord
<1>5. TypeOK'
  BY <1>1, <1>3, <1>4 DEF TypeOK
<1>6. SeenIsRead'
  BY <1>1, <1>3, ReadingRests DEF ReadingInv
<1>7. LastTickIsWhole'
  <2>1. seen = rows
    BY <1>1, SubSeqFull
  <2> HIDE DEF to
  <2> QED
    BY <1>1, <1>2, <1>3, <2>1 DEF ReadingInv, LastTickIsWhole, ProviderRuns
<1> QED
  BY <1>5, <1>6, <1>7 DEF ReadingInv

\* Lines are rows too: the terminated ones and, behind them, the tail.
LEMMA LinesAreRows ==
  ASSUME TypeOK
  PROVE  /\ Lines \in Seq(Row) /\ DOMAIN Lines = 1 .. Len(Lines) /\ Len(Lines) \in Nat
         /\ stdout.tail = "malformed" => \E k \in DOMAIN Lines : Lines[k] = "malformed"
<1>1. stdout.rows \in Seq(Row) /\ stdout.tail \in Row \cup {"none"}
  BY DEF TypeOK, LastPiece
<1>2. CASE stdout.tail = "none"
  BY <1>1, <1>2 DEF Lines
<1>3. CASE stdout.tail # "none"
  <2> DEFINE rows == stdout.rows
             tail == stdout.tail
  <2>1. Lines = rows \o <<tail>> /\ rows \in Seq(Row) /\ tail \in Row
    BY <1>1, <1>3 DEF Lines
  <2> HIDE DEF rows, tail
  <2>2. <<tail>> \in Seq(Row) /\ Len(<<tail>>) = 1 /\ <<tail>>[1] = tail /\ Len(rows) \in Nat
    BY <2>1
  <2>3. /\ Lines \in Seq(Row) /\ Len(Lines) = Len(rows) + 1 /\ Lines[Len(rows) + 1] = tail
    BY <2>1, <2>2
  <2>4. DOMAIN Lines = 1 .. Len(Lines) /\ Len(rows) + 1 \in DOMAIN Lines
    BY <2>2, <2>3
  <2> QED
    BY <2>2, <2>3, <2>4 DEF tail
<1> QED
  BY <1>2, <1>3

\* A round passes on a clean exit and on a stream without a piece of a row.
LEMMA PassingIsWhole ==
  ASSUME TypeOK, NEW t, Passes(t)
  PROVE  round.exit = "zero" /\ stdout.tail # "malformed"
<1>1. "exit_code" \notin reasons(t) /\ "stream_parse_errors" \notin reasons(t)
  BY DEF Passes
<1>2. round.exit = "zero"
  BY <1>1 DEF reasons
<1>3. ~parse_stream(Lines).parse_errors
  BY <1>1 DEF reasons
<1>4. ~\E k \in DOMAIN Lines : Lines[k] = "malformed"
  BY <1>3 DEF parse_stream
<1> QED
  BY <1>2, <1>4, LinesAreRows

\* A verdict that passes has seen a clean exit, so it rests on the whole stream.
LEMMA CompleteStep == ReadingInv /\ CompleteRound => ReadingInv'
<1> SUFFICES ASSUME ReadingInv, CompleteRound PROVE ReadingInv'
  OBVIOUS
<1>1. TypeOK /\ UNCHANGED <<stdout, hooks, firing, fired, incidents, saved, seen>> /\ monitor.at = "done"
      /\ monitor' = [monitor EXCEPT !.at = "gone"]
  BY DEF ReadingInv, CompleteRound
<1>2. PICK t \in Transcript :
        round' = [round EXCEPT !.verified = TRUE, !.ok = Passes(t), !.finalized = TRUE,
                               !.busy = round.stop_requested /\ @]
  BY DEF CompleteRound
<1>3. Passes(t) \in BOOLEAN /\ (Passes(t) => round.exit = "zero" /\ stdout.tail # "malformed")
  <2>1. Passes(t) \in BOOLEAN
    BY DEF Passes
  <2> QED
    BY <1>1, <2>1, PassingIsWhole
<1>4. /\ TypeOK' /\ monitor'.at = "gone" /\ monitor'.stdout_offset = monitor.stdout_offset
      /\ round'.exit = round.exit /\ round'.provider = round.provider /\ round'.ok = Passes(t)
  BY <1>1, <1>2, <1>3 DEF TypeOK, RoundRecord, MonitorRecord, Place
<1>5. SeenIsRead'
  BY <1>1, <1>4, ReadingRests DEF ReadingInv
<1>6. LastTickIsWhole'
  BY <1>1, <1>3, <1>4 DEF ReadingInv, LastTickIsWhole, ProviderRuns
<1> QED
  BY <1>4, <1>5, <1>6 DEF ReadingInv

\* The rest of the job never starts the provider again, gives a verdict or lets
\* the Monitor read.
LEMMA JobRests ==
  ASSUME ReadingInv, UNCHANGED <<stdout, hooks, firing, fired, incidents, saved, seen>>,
         round' \in RoundRecord, round'.ok = round.ok,
         round'.provider = round.provider \/ round'.provider = "gone",
         round'.exit = round.exit \/ (round.exit = "none" /\ round'.exit = "other"),
         monitor' = monitor \/ monitor' = [monitor EXCEPT !.at = "gone"]
  PROVE  ReadingInv'
<1>1. /\ monitor'.stdout_offset = monitor.stdout_offset /\ monitor'.complete = monitor.complete
      /\ monitor'.at = monitor.at \/ monitor'.at = "gone"
      /\ TypeOK'
  BY DEF ReadingInv, TypeOK, MonitorRecord, Place
<1>2. SeenIsRead'
  BY <1>1, ReadingRests DEF ReadingInv
<1>3. LastTickIsWhole'
  BY <1>1 DEF ReadingInv, LastTickIsWhole, ProviderRuns
<1> QED
  BY <1>1, <1>2, <1>3 DEF ReadingInv

LEMMA JobStep ==
  ASSUME ReadingInv,
         \/ MonitorRaises \/ WorkerDies \/ reconcile \/ RequestStop
         \/ \E remaining \in BOOLEAN : FinishStop(remaining)
  PROVE  ReadingInv'
<1>1. round \in RoundRecord /\ monitor.at \in Place
      /\ monitor \in MonitorRecord
  BY DEF ReadingInv, TypeOK, MonitorRecord
<1>2. CASE MonitorRaises
  BY <1>1, <1>2, JobRests DEF MonitorRaises, RoundRecord
<1>3. CASE WorkerDies
  BY <1>1, <1>3, JobRests DEF WorkerDies, RoundRecord
<1>4. CASE reconcile
  BY <1>1, <1>4, JobRests DEF reconcile, RoundRecord
<1>5. CASE RequestStop
  BY <1>1, <1>5, JobRests DEF RequestStop, RoundRecord
<1>6. ASSUME NEW remaining \in BOOLEAN, FinishStop(remaining) PROVE ReadingInv'
  <2>1. UNCHANGED <<stdout, hooks, firing, fired, incidents, saved, seen>>
    BY <1>6 DEF FinishStop
  <2>2. CASE remaining
    <3>1. /\ round' \in RoundRecord /\ round'.ok = round.ok
          /\ round'.provider = round.provider /\ round'.exit = round.exit
      BY <1>1, <1>6, <2>2 DEF FinishStop, RoundRecord
    <3>2. monitor' = [monitor EXCEPT !.at = monitor.at]
      BY <1>6, <2>2 DEF FinishStop
    <3>3. monitor' = monitor
      BY <1>1, <3>2 DEF MonitorRecord
    <3> QED
      BY <2>1, <3>1, <3>3, JobRests
  <2>3. CASE ~remaining
    <3>1. /\ round' \in RoundRecord /\ round'.ok = round.ok /\ round'.provider = "gone"
          /\ round'.exit = round.exit \/ (round.exit = "none" /\ round'.exit = "other")
      BY <1>1, <1>6, <2>3 DEF FinishStop, RoundRecord
    <3>2. monitor' = [monitor EXCEPT !.at = "gone"]
      BY <1>6, <2>3 DEF FinishStop
    <3> QED
      BY <2>1, <3>1, <3>2, JobRests
  <2> QED
    BY <2>2, <2>3
<1> QED
  BY <1>2, <1>3, <1>4, <1>5, <1>6

\* A later round starts with an empty stream.
LEMMA ReviseStep == ReadingInv /\ revise => ReadingInv'
<1> SUFFICES ASSUME ReadingInv, revise PROVE ReadingInv'
  OBVIOUS
<1>1. /\ round' = [NewRound(Later) EXCEPT !.provider = "gone"]
      /\ stdout' = [rows |-> <<>>, tail |-> "none"] /\ hooks' = <<>> /\ seen' = <<>>
      /\ monitor' = [NewMonitor EXCEPT !.at = "gone"]
      /\ incidents' = NoIncidents /\ saved' = <<>> /\ UNCHANGED <<firing, fired>>
  BY DEF revise
<1>2. round' \in RoundRecord /\ round'.exit = "none" /\ ~round'.ok
  BY <1>1 DEF NewRound, RoundRecord, Round
<1>3. /\ monitor'.at = "gone" /\ monitor'.stdout_offset = 0
      /\ monitor' \in MonitorRecord
  BY <1>1 DEF NewMonitor, MonitorRecord, Place
<1>4. TypeOK'
  <2>1. NoIncidents \in IncidentRecord
    BY DEF NoIncidents, IncidentRecord
  <2> QED
    BY <1>1, <1>2, <1>3, <2>1 DEF ReadingInv, TypeOK, LastPiece
<1>5. SeenIsRead'
  BY <1>1, <1>3, SubSeqEmpty DEF SeenIsRead
<1>6. LastTickIsWhole'
  BY <1>2, <1>3 DEF LastTickIsWhole
<1> QED
  BY <1>4, <1>5, <1>6 DEF ReadingInv

LEMMA ReadingStep == ReadingInv /\ [Next]_vars => ReadingInv'
<1> SUFFICES ASSUME ReadingInv, [Next]_vars PROVE ReadingInv'
  OBVIOUS
<1>1. CASE UNCHANGED vars
  BY <1>1 DEF ReadingInv, TypeOK, SeenIsRead, LastTickIsWhole, ProviderRuns, vars
<1>2. CASE \E row \in Row : BeginRow(row) \/ EndRow(row)
  BY <1>2, BeginRowStep, EndRowStep
<1>3. CASE (\E name \in HookName : FireHook(name)) \/ (\E item \in firing : record_hook(item))
  BY <1>3, HookStep
<1>4. CASE KillFails \/ (\E how \in {"zero", "other"} : ProviderExits(how))
  BY <1>4, ExitStep
<1>5. CASE \/ (\E complete \in BOOLEAN : BeginTick(complete)) \/ DrainHook \/ HooksDrained
           \/ DrainRow \/ (\E due \in 0 .. 2 : EndTick(due))
  BY <1>5, TickStep, DrainRowStep, EndTickStep
<1>6. CASE CompleteRound \/ revise
  BY <1>6, CompleteStep, ReviseStep
<1>7. CASE \/ MonitorRaises \/ WorkerDies \/ reconcile \/ RequestStop
           \/ \E remaining \in BOOLEAN : FinishStop(remaining)
  BY <1>7, JobStep
<1> QED
  BY <1>1, <1>2, <1>3, <1>4, <1>5, <1>6, <1>7 DEF Next

-----------------------------------------------------------------------------
(* Announcing what was read.                                               *)

LEMMA InitAnnounced == Init => AnnouncedInv
<1> SUFFICES ASSUME Init PROVE AnnouncedInv
  OBVIOUS
<1>1. /\ hooks = <<>> /\ firing = fired /\ seen = <<>> /\ saved = <<>>
      /\ incidents = NoIncidents /\ monitor.at = "waiting"
      /\ incidents.events = <<>> /\ incidents.seen_errors = {} /\ incidents.incident_active = FALSE
  BY DEF Init, NewMonitor, NoIncidents
<1>2. CausesAreSeen(incidents, seen, Ours)
  <2>1. Range(<<>>) = {}
    BY DEF Range
  <2>2. \A v : Occurrences(<<>>, v) = 0
    <3>1. \A v : {k \in DOMAIN <<>> : <<>>[k] = v} = {}
      OBVIOUS
    <3> QED
      BY <3>1, FS_EmptySet DEF Occurrences
  <2> QED
    BY <1>1, <2>1, <2>2 DEF CausesAreSeen
<1> QED
  BY <1>1, <1>2 DEF AnnouncedInv, HooksAreOurs, SavedIsBehind

\* A cause stays one when more hooks have fired.
LEMMA CausesStay ==
  ASSUME NEW m, NEW rows, NEW names, NEW more, names \subseteq more,
         CausesAreSeen(m, rows, names)
  PROVE  CausesAreSeen(m, rows, more)
BY DEF CausesAreSeen

\* Nothing is read, announced or saved, and no hook is recorded.
LEMMA AnnouncementsRest ==
  ASSUME AnnouncedInv, UNCHANGED <<hooks, incidents, saved, seen>>,
         round'.index = round.index, fired \subseteq fired', firing' \subseteq fired',
         monitor'.at = "done" => monitor.at = "done"
  PROVE  AnnouncedInv'
<1>1. Ours \subseteq Ours'
  BY DEF Ours
<1>2. CausesAreSeen(incidents, seen, Ours)
  BY DEF AnnouncedInv
<1>3. CausesAreSeen(incidents', seen', Ours')
  BY <1>1, <1>2, CausesStay
<1>4. HooksAreOurs'
  BY DEF AnnouncedInv, HooksAreOurs
<1>5. SavedIsBehind'
  BY DEF AnnouncedInv, SavedIsBehind
<1> QED
  BY <1>3, <1>4, <1>5 DEF AnnouncedInv

LEMMA QuietStep ==
  ASSUME ReadingInv, AnnouncedInv,
         \/ \E row \in Row : BeginRow(row) \/ EndRow(row)
         \/ \E name \in HookName : FireHook(name)
         \/ KillFails \/ \E how \in {"zero", "other"} : ProviderExits(how)
         \/ (\E complete \in BOOLEAN : BeginTick(complete)) \/ HooksDrained
         \/ CompleteRound
         \/ MonitorRaises \/ WorkerDies \/ reconcile \/ RequestStop
         \/ \E remaining \in BOOLEAN : FinishStop(remaining)
  PROVE  AnnouncedInv'
<1>1. round \in RoundRecord /\ monitor \in MonitorRecord /\ firing \subseteq fired
  BY DEF ReadingInv, TypeOK, AnnouncedInv, HooksAreOurs
<1> DEFINE Still == /\ UNCHANGED <<hooks, incidents, saved, seen>>
                    /\ round'.index = round.index /\ fired \subseteq fired' /\ firing' \subseteq fired'
                    /\ monitor'.at = "done" => monitor.at = "done"
<1>2. CASE (\E row \in Row : BeginRow(row) \/ EndRow(row)) \/ (\E name \in HookName : FireHook(name))
  <2>1. Still
    BY <1>1, <1>2 DEF BeginRow, EndRow, FireHook
  <2> QED
    BY <2>1, AnnouncementsRest
<1>3. CASE KillFails \/ (\E how \in {"zero", "other"} : ProviderExits(how)) \/ reconcile \/ RequestStop
  <2>1. Still
    BY <1>1, <1>3 DEF KillFails, ProviderExits, reconcile, RequestStop, RoundRecord
  <2> QED
    BY <2>1, AnnouncementsRest
<1>4. CASE (\E complete \in BOOLEAN : BeginTick(complete)) \/ HooksDrained \/ WorkerDies
  <2>1. Still
    BY <1>1, <1>4 DEF BeginTick, HooksDrained, WorkerDies, MonitorRecord
  <2> QED
    BY <2>1, AnnouncementsRest
<1>5. CASE CompleteRound
  <2>1. Still
    BY <1>1, <1>5 DEF CompleteRound, RoundRecord, MonitorRecord
  <2> QED
    BY <2>1, AnnouncementsRest
<1>6. CASE MonitorRaises \/ (\E remaining \in BOOLEAN : FinishStop(remaining))
  <2>1. Still
    BY <1>1, <1>6 DEF MonitorRaises, FinishStop, RoundRecord, MonitorRecord
  <2> QED
    BY <2>1, AnnouncementsRest
<1> QED
  BY <1>2, <1>3, <1>4, <1>5, <1>6

\* A hook is recorded for the round that fired it only.
LEMMA RecordHookStep ==
  ASSUME ReadingInv, AnnouncedInv, NEW item \in firing, record_hook(item)
  PROVE  AnnouncedInv'
<1>1. /\ hooks \in Seq(Hook) /\ item \in Hook /\ item \in fired
      /\ UNCHANGED <<round, stdout, fired, monitor, incidents, saved, seen>>
      /\ firing' = firing \ {item} /\ firing \subseteq fired
  BY DEF ReadingInv, TypeOK, AnnouncedInv, HooksAreOurs, record_hook
<1>2. hooks' = hooks \/ (hooks' = Append(hooks, item) /\ item.round = round.index)
  BY DEF record_hook, AcceptsHook
<1>3. HooksAreOurs'
  <2>1. \A k \in 1 .. Len(hooks) : hooks[k].round = round.index /\ hooks[k] \in fired
    BY DEF AnnouncedInv, HooksAreOurs
  <2>2. CASE hooks' = hooks
    BY <1>1, <2>1, <2>2 DEF HooksAreOurs
  <2>3. CASE hooks' = Append(hooks, item) /\ item.round = round.index
    <3>1. \A k \in 1 .. Len(hooks') : hooks'[k] = item \/ (k \in 1 .. Len(hooks) /\ hooks'[k] = hooks[k])
      BY <1>1, <2>3
    <3> QED
      BY <1>1, <2>1, <2>3, <3>1 DEF HooksAreOurs
  <2> QED
    BY <1>2, <2>2, <2>3
<1>4. Ours' = Ours
  BY <1>1 DEF Ours
<1>5. CausesAreSeen(incidents', seen', Ours') /\ SavedIsBehind'
  BY <1>1, <1>4 DEF AnnouncedInv, SavedIsBehind
<1> QED
  BY <1>3, <1>5 DEF AnnouncedInv

\* Events only grow while a tick reads, and nothing is saved before its end.
LEMMA EventsGrow ==
  ASSUME ReadingInv, SavedIsBehind, incidents' \in IncidentRecord, saved' = saved,
         monitor'.at # "done",
         \/ incidents'.events = incidents.events
         \/ \E kind \in EventKinds : incidents'.events = Append(incidents.events, kind)
  PROVE  SavedIsBehind'
<1>1. incidents.events \in Seq(EventKinds) /\ saved \in Seq(EventKinds)
  BY DEF ReadingInv, TypeOK, IncidentRecord
<1>2. CASE incidents'.events = incidents.events
  BY <1>2 DEF SavedIsBehind
<1>3. ASSUME NEW kind \in EventKinds, incidents'.events = Append(incidents.events, kind)
      PROVE  SavedIsBehind'
  <2> DEFINE q == incidents.events
             p == incidents'.events
  <2>1. /\ Len(q) \in Nat /\ Len(saved) \in Nat /\ Len(p) = Len(q) + 1
        /\ \A k \in 1 .. Len(q) : p[k] = q[k]
    BY <1>1, <1>3
  <2>2. Len(saved) <= Len(q) /\ \A k \in 1 .. Len(saved) : saved[k] = q[k]
    BY DEF SavedIsBehind
  <2> HIDE DEF q, p
  <2>3. Len(saved) <= Len(p) /\ \A k \in 1 .. Len(saved) : saved[k] = p[k]
    BY <2>1, <2>2
  <2> QED
    BY <2>3 DEF SavedIsBehind, p
<1> QED
  BY <1>2, <1>3

LEMMA DrainHookAnnounces == ReadingInv /\ AnnouncedInv /\ ReadingInv' /\ DrainHook => AnnouncedInv'
<1> SUFFICES ASSUME ReadingInv, AnnouncedInv, ReadingInv', DrainHook PROVE AnnouncedInv'
  OBVIOUS
<1> DEFINE item == hooks[monitor.hooks_offset + 1]
<1>1. /\ incidents \in IncidentRecord /\ incidents' \in IncidentRecord /\ seen \in Seq(Row)
      /\ monitor \in MonitorRecord /\ monitor.at = "hooks" /\ monitor.hooks_offset < Len(hooks)
      /\ hooks \in Seq(Hook) /\ incidents' = hook(incidents, item)
      /\ UNCHANGED <<round, hooks, firing, fired, saved, seen>>
      /\ monitor' = [monitor EXCEPT !.hooks_offset = @ + 1]
  BY DEF ReadingInv, TypeOK, DrainHook
<1>2. monitor.hooks_offset + 1 \in 1 .. Len(hooks) /\ item \in Hook /\ monitor'.at = "hooks"
  BY <1>1 DEF MonitorRecord
<1>3. item.hook \in Ours
  <2>1. item.round = round.index /\ item \in fired
    BY <1>2 DEF AnnouncedInv, HooksAreOurs
  <2> HIDE DEF item
  <2>2. item = [round |-> item.round, hook |-> item.hook] /\ item.hook \in HookName
    BY <1>2 DEF Hook
  <2> QED
    BY <2>1, <2>2 DEF Ours
<1>4. CausesAreSeen(incidents', seen', Ours')
  <2>1. Ours' = Ours /\ CausesAreSeen(incidents, seen, Ours)
    BY <1>1 DEF Ours, AnnouncedInv
  <2> HIDE DEF item
  <2>2. CausesAreSeen(hook(incidents, item), seen, Ours)
    BY <1>1, <1>2, <1>3, <2>1, HookHasItsCause
  <2> QED
    BY <1>1, <2>1, <2>2
<1>5. SavedIsBehind'
  <2> DEFINE fatal == item.hook = "StopFailure"
  <2>1. CASE item.hook = "Interrupt"
    <3>1. incidents'.events = incidents.events
      BY <1>1, <1>2, <2>1, HookEffect
    <3> HIDE DEF item
    <3> QED
      BY <1>1, <1>2, <3>1, EventsGrow DEF AnnouncedInv
  <2>2. CASE item.hook # "Interrupt"
    <3>1. item.hook \in Signature /\ incidents' = error(incidents, item.hook, fatal)
      BY <1>1, <1>2, <2>2, HookEffect DEF Signature
    <3>2. fatal \in BOOLEAN
      OBVIOUS
    <3> HIDE DEF item, fatal
    <3>3. \/ incidents'.events = incidents.events
          \/ \E kind \in EventKinds : incidents'.events = Append(incidents.events, kind)
      BY <1>1, <3>1, <3>2, ErrorAppends
    <3> QED
      BY <1>1, <1>2, <3>3, EventsGrow DEF AnnouncedInv
  <2> QED
    BY <2>1, <2>2
<1>6. HooksAreOurs'
  BY <1>1 DEF AnnouncedInv, HooksAreOurs
<1> QED
  BY <1>4, <1>5, <1>6 DEF AnnouncedInv

LEMMA DrainRowAnnounces == ReadingInv /\ AnnouncedInv /\ ReadingInv' /\ DrainRow => AnnouncedInv'
<1> SUFFICES ASSUME ReadingInv, AnnouncedInv, ReadingInv', DrainRow PROVE AnnouncedInv'
  OBVIOUS
<1> DEFINE row == stdout.rows[monitor.stdout_offset + 1]
<1>1. /\ incidents \in IncidentRecord /\ incidents' \in IncidentRecord /\ seen \in Seq(Row)
      /\ monitor \in MonitorRecord /\ monitor.at = "stream"
      /\ stdout.rows \in Seq(Row) /\ monitor.stdout_offset < Len(stdout.rows)
      /\ incidents' = stream(incidents, row) /\ seen' = Append(seen, row)
      /\ UNCHANGED <<round, hooks, firing, fired, saved>>
      /\ monitor' = [monitor EXCEPT !.stdout_offset = @ + 1]
  BY DEF ReadingInv, TypeOK, DrainRow, drained
<1>2. row \in Row /\ monitor'.at = "stream"
  <2>1. monitor.stdout_offset + 1 \in 1 .. Len(stdout.rows)
    BY <1>1 DEF MonitorRecord
  <2> QED
    BY <1>1, <2>1 DEF MonitorRecord
<1> HIDE DEF row
<1>3. CausesAreSeen(incidents', seen', Ours')
  <2>1. Ours' = Ours /\ CausesAreSeen(incidents, seen, Ours)
    BY <1>1 DEF Ours, AnnouncedInv
  <2>2. CausesAreSeen(stream(incidents, row), Append(seen, row), Ours)
    BY <1>1, <1>2, <2>1, StreamHasItsCause
  <2> QED
    BY <1>1, <2>1, <2>2
<1>4. SavedIsBehind'
  <2>1. CASE row = "tool_failed"
    <3>1. incidents' = error(incidents, "tool_result", FALSE) /\ "tool_result" \in Signature
      BY <1>1, <2>1, StreamEffect DEF Signature
    <3>2. \/ incidents'.events = incidents.events
          \/ \E kind \in EventKinds : incidents'.events = Append(incidents.events, kind)
      BY <1>1, <3>1, ErrorAppends
    <3> QED
      BY <1>1, <1>2, <3>2, EventsGrow DEF AnnouncedInv
  <2>2. CASE row # "tool_failed"
    <3>1. incidents'.events = incidents.events
      BY <1>1, <2>2, StreamEffect
    <3> QED
      BY <1>1, <1>2, <3>1, EventsGrow DEF AnnouncedInv
  <2> QED
    BY <2>1, <2>2
<1>5. HooksAreOurs'
  BY <1>1 DEF AnnouncedInv, HooksAreOurs
<1> QED
  BY <1>3, <1>4, <1>5 DEF AnnouncedInv

\* Checkpoints are neither errors nor causes.
LEMMA EndTickAnnounces ==
  ASSUME ReadingInv, AnnouncedInv, NEW due \in 0 .. 2, EndTick(due)
  PROVE  AnnouncedInv'
<1> DEFINE q == incidents.events
           p == incidents'.events
<1>1. /\ incidents \in IncidentRecord /\ q \in Seq(EventKinds)
      /\ incidents' = Checkpointed(incidents, due) /\ saved' = p
      /\ UNCHANGED <<round, hooks, firing, fired, seen>>
  BY DEF ReadingInv, TypeOK, IncidentRecord, EndTick
<1>2. /\ incidents' \in IncidentRecord
      /\ incidents'.incident_active = incidents.incident_active
      /\ incidents'.seen_errors = incidents.seen_errors
      /\ Len(q) <= Len(p)
      /\ \A k \in 1 .. Len(q) : p[k] = q[k]
      /\ \A k \in 1 .. Len(p) : k \in 1 .. Len(q) \/ p[k] = "checkpoint"
  BY <1>1, CheckpointEffect
<1>3. p \in Seq(EventKinds)
  BY <1>2 DEF IncidentRecord
<1>4. ASSUME NEW v, v # "checkpoint"
      PROVE  /\ {k \in DOMAIN p : p[k] = v} = {k \in DOMAIN q : q[k] = v}
             /\ v \in Range(p) <=> v \in Range(q)
             /\ Occurrences(p, v) = Occurrences(q, v)
  <2>1. /\ DOMAIN p = 1 .. Len(p) /\ DOMAIN q = 1 .. Len(q) /\ Len(p) \in Nat /\ Len(q) \in Nat
    BY <1>1, <1>3
  <2> HIDE DEF p, q
  <2>2. {k \in DOMAIN p : p[k] = v} = {k \in DOMAIN q : q[k] = v}
    BY <1>2, <1>4, <2>1
  <2>3. /\ v \in Range(p) <=> {k \in DOMAIN p : p[k] = v} # {}
        /\ v \in Range(q) <=> {k \in DOMAIN q : q[k] = v} # {}
    BY DEF Range
  <2> QED
    BY <2>2, <2>3 DEF Occurrences
<1>5. /\ "error" \in Range(p) <=> "error" \in Range(q)
      /\ "fatal" \in Range(p) <=> "fatal" \in Range(q)
      /\ Occurrences(p, "error") = Occurrences(q, "error")
  BY <1>4
<1>6. CausesAreSeen(incidents', seen', Ours')
  <2>1. Ours' = Ours /\ CausesAreSeen(incidents, seen, Ours)
    BY <1>1 DEF Ours, AnnouncedInv
  <2> QED
    BY <1>1, <1>2, <1>5, <2>1 DEF CausesAreSeen
<1>7. SavedIsBehind'
  <2>1. Len(p) \in Nat
    BY <1>3
  <2> QED
    BY <1>1, <2>1 DEF SavedIsBehind
<1>8. HooksAreOurs'
  BY <1>1 DEF AnnouncedInv, HooksAreOurs
<1> QED
  BY <1>6, <1>7, <1>8 DEF AnnouncedInv

LEMMA ReviseAnnounces == ReadingInv /\ AnnouncedInv /\ revise => AnnouncedInv'
<1> SUFFICES ASSUME ReadingInv, AnnouncedInv, revise PROVE AnnouncedInv'
  OBVIOUS
<1>1. /\ hooks' = <<>> /\ firing' \subseteq fired' /\ seen' = <<>> /\ saved' = <<>>
      /\ monitor'.at = "gone" /\ incidents'.events = <<>> /\ incidents'.seen_errors = {}
      /\ incidents'.incident_active = FALSE
  BY DEF AnnouncedInv, HooksAreOurs, revise, NewMonitor, NoIncidents
<1>2. CausesAreSeen(incidents', seen', Ours')
  <2>1. Range(<<>>) = {}
    BY DEF Range
  <2>2. \A v : Occurrences(<<>>, v) = 0
    <3>1. \A v : {k \in DOMAIN <<>> : <<>>[k] = v} = {}
      OBVIOUS
    <3> QED
      BY <3>1, FS_EmptySet DEF Occurrences
  <2> QED
    BY <1>1, <2>1, <2>2 DEF CausesAreSeen
<1> QED
  BY <1>1, <1>2 DEF AnnouncedInv, HooksAreOurs, SavedIsBehind

LEMMA AnnouncedStep == ReadingInv /\ AnnouncedInv /\ [Next]_vars => AnnouncedInv'
<1> SUFFICES ASSUME ReadingInv, AnnouncedInv, [Next]_vars PROVE AnnouncedInv'
  OBVIOUS
<1>1. CASE UNCHANGED vars
  BY <1>1, AnnouncementsRest DEF vars, AnnouncedInv, HooksAreOurs
<1>2. CASE DrainHook \/ DrainRow
  BY <1>2, ReadingStep, DrainHookAnnounces, DrainRowAnnounces
<1>3. CASE (\E item \in firing : record_hook(item)) \/ (\E due \in 0 .. 2 : EndTick(due)) \/ revise
  BY <1>3, RecordHookStep, EndTickAnnounces, ReviseAnnounces
<1>4. CASE \/ \E row \in Row : BeginRow(row) \/ EndRow(row)
           \/ \E name \in HookName : FireHook(name)
           \/ KillFails \/ \E how \in {"zero", "other"} : ProviderExits(how)
           \/ (\E complete \in BOOLEAN : BeginTick(complete)) \/ HooksDrained
           \/ CompleteRound
           \/ MonitorRaises \/ WorkerDies \/ reconcile \/ RequestStop
           \/ \E remaining \in BOOLEAN : FinishStop(remaining)
  BY <1>4, QuietStep
<1> QED
  BY <1>1, <1>2, <1>3, <1>4 DEF Next

-----------------------------------------------------------------------------
(* The verdict.                                                            *)

\* What parse_stream counts, row by row.
LEMMA SummaryOfRows ==
  ASSUME TypeOK
  PROVE  LET rows == Lines
             summary == parse_stream(rows)
             result == {k \in DOMAIN rows : rows[k] \in ResultRow}
         IN  /\ summary.assistants = 0 <=> \A k \in DOMAIN rows : rows[k] # "assistant"
             /\ summary.synthetic <=> \E k \in DOMAIN rows : rows[k] = "synthetic"
             /\ summary.parse_errors <=> \E k \in DOMAIN rows : rows[k] = "malformed"
             /\ summary.results = result
             /\ Cardinality(result) = 1 <=> \E k \in result : result = {k}
             /\ summary.assistants \in Nat
<1> DEFINE rows == Lines
           said == {k \in DOMAIN rows : rows[k] = "assistant"}
           result == {k \in DOMAIN rows : rows[k] \in ResultRow}
<1>1. IsFiniteSet(DOMAIN rows)
  <2>1. DOMAIN rows = 1 .. Len(rows) /\ Len(rows) \in Int
    BY LinesAreRows
  <2> QED
    BY <2>1, FS_Interval
<1>2. IsFiniteSet(said) /\ IsFiniteSet(result)
  <2>1. said \in SUBSET DOMAIN rows /\ result \in SUBSET DOMAIN rows
    OBVIOUS
  <2> QED
    BY <1>1, <2>1, FS_Subset
<1>3. /\ Cardinality(said) = 0 <=> said = {}
      /\ Cardinality(result) = 1 <=> \E k : result = {k}
  BY <1>2, FS_EmptySet, FS_Singleton
<1>4. Cardinality(said) \in Nat
  BY <1>2, FS_CardinalityType
<1>5. (\E k : result = {k}) <=> \E k \in result : result = {k}
  OBVIOUS
<1>6. said = {} <=> \A k \in DOMAIN rows : rows[k] # "assistant"
  OBVIOUS
<1> QED
  BY <1>3, <1>4, <1>5, <1>6 DEF parse_stream

LEMMA TranscriptShape ==
  ASSUME NEW t \in Transcript
  PROVE  /\ t.kinds \subseteq EntryKind
         /\ t.whole => "placeholder" \in t.kinds
         /\ ~t.usable => t.kinds = {}
<1>1. CASE t = NoTranscript
  BY <1>1 DEF NoTranscript
<1>2. CASE t \in [usable : {TRUE}, kinds : SUBSET EntryKind, whole : BOOLEAN]
           /\ (t.whole => "placeholder" \in t.kinds)
  <2>1. t.usable \in {TRUE} /\ t.kinds \subseteq EntryKind
    BY <1>2
  <2>2. t.usable
    BY <2>1, Zenon
  <2> QED
    BY <1>2, <2>1, <2>2
<1> QED
  BY <1>1, <1>2, Zenon DEF Transcript

\* A transcript raises no reason exactly when its entries are usable, marked and
\* at max, but for placeholders that are bound to the stream.
LEMMA CleanTranscript ==
  ASSUME NEW t \in Transcript, NEW summary
  PROVE  /\ verify_transcript(t, summary) = {} <=>
              /\ t.usable /\ t.kinds # {}
              /\ "unmarked" \notin t.kinds /\ "weaker" \notin t.kinds
              /\ "placeholder" \in t.kinds =>
                   /\ t.whole /\ t.kinds \ {"placeholder"} = {"max"}
                   /\ summary.assistants > 0 /\ ~summary.synthetic
         /\ verify_transcript(t, summary) \subseteq SOFT_REASONS => "weaker" \notin t.kinds
<1>1. ~t.usable => t.kinds = {}
  BY TranscriptShape
<1> QED
  BY <1>1 DEF verify_transcript, TranscriptReasons, SOFT_REASONS

\* For a stream with real assistant rows that is the evidence of the contract.
LEMMA TranscriptAgrees ==
  ASSUME NEW t \in Transcript, NEW summary, summary.assistants > 0, ~summary.synthetic
  PROVE  verify_transcript(t, summary) = {} <=>
           /\ t.usable /\ "max" \in t.kinds
           /\ t.kinds \subseteq (IF t.whole THEN {"max", "placeholder"} ELSE {"max"})
<1>1. /\ t.kinds \subseteq {"max", "weaker", "unmarked", "placeholder"}
      /\ t.whole => "placeholder" \in t.kinds
  BY TranscriptShape DEF EntryKind
<1>2. CASE t.whole
  BY <1>1, <1>2, CleanTranscript
<1>3. CASE ~t.whole
  BY <1>1, <1>3, CleanTranscript
<1> QED
  BY <1>2, <1>3

\* The reasons of a round are those of its exit, its stream and its transcript.
LEMMA CleanRound ==
  ASSUME NEW t
  PROVE  LET summary == parse_stream(Lines)
             clean == /\ ~summary.parse_errors /\ round.exit = "zero"
                      /\ Cardinality(summary.results) = 1 /\ ~LastFails(summary.results)
                      /\ ~(summary.assistants = 0 /\ ~summary.synthetic) /\ ~summary.synthetic
         IN  /\ Passes(t) <=> clean /\ verify_transcript(t, summary) = {}
             /\ NeedsAttention(t) => clean /\ verify_transcript(t, summary) \subseteq SOFT_REASONS
<1> DEFINE summary == parse_stream(Lines)
           results == summary.results
           a == IF summary.parse_errors THEN {"stream_parse_errors"} ELSE {}
           b == IF round.exit # "zero" THEN {"exit_code"} ELSE {}
           c == IF Cardinality(results) # 1 THEN {"result_events"} ELSE {}
           d == IF LastFails(results) THEN {"result_is_error"} ELSE {}
           e == IF summary.assistants = 0 /\ ~summary.synthetic THEN {"no_assistant_events"} ELSE {}
           f == IF summary.synthetic THEN {"assistant_model"} ELSE {}
           v == verify_transcript(t, summary)
<1>1. reasons(t) = a \cup b \cup c \cup d \cup e \cup f \cup v
  BY DEF reasons
<1>2. /\ a = {} <=> ~summary.parse_errors
      /\ a \subseteq SOFT_REASONS => ~summary.parse_errors
  BY DEF SOFT_REASONS
<1>3. /\ b = {} <=> round.exit = "zero"
      /\ b \subseteq SOFT_REASONS => round.exit = "zero"
  BY DEF SOFT_REASONS
<1>4. /\ c = {} <=> Cardinality(results) = 1
      /\ c \subseteq SOFT_REASONS => Cardinality(results) = 1
  BY DEF SOFT_REASONS
<1>5. /\ d = {} <=> ~LastFails(results)
      /\ d \subseteq SOFT_REASONS => ~LastFails(results)
  BY DEF SOFT_REASONS
<1>6. /\ e = {} <=> ~(summary.assistants = 0 /\ ~summary.synthetic)
      /\ e \subseteq SOFT_REASONS => ~(summary.assistants = 0 /\ ~summary.synthetic)
  BY DEF SOFT_REASONS
<1>7. /\ f = {} <=> ~summary.synthetic
      /\ f \subseteq SOFT_REASONS => ~summary.synthetic
  BY DEF SOFT_REASONS
<1> HIDE DEF a, b, c, d, e, f, v
<1>8. /\ reasons(t) = {} <=> a = {} /\ b = {} /\ c = {} /\ d = {} /\ e = {} /\ f = {} /\ v = {}
      /\ reasons(t) \subseteq SOFT_REASONS =>
           /\ a \subseteq SOFT_REASONS /\ b \subseteq SOFT_REASONS /\ c \subseteq SOFT_REASONS
           /\ d \subseteq SOFT_REASONS /\ e \subseteq SOFT_REASONS /\ f \subseteq SOFT_REASONS
           /\ v \subseteq SOFT_REASONS
  BY <1>1
<1>9. /\ Passes(t) <=> reasons(t) = {}
      /\ NeedsAttention(t) => reasons(t) \subseteq SOFT_REASONS
  BY DEF Passes, NeedsAttention
<1> QED
  BY <1>2, <1>3, <1>4, <1>5, <1>6, <1>7, <1>8, <1>9 DEF v

\* One result, and it is no failure: it is the success.
LEMMA OneResult ==
  ASSUME TypeOK, NEW k, {l \in DOMAIN Lines : Lines[l] \in ResultRow} = {k}
  PROVE  LastFails({k}) <=> Lines[k] # "success"
<1>1. k \in DOMAIN Lines /\ k <= k /\ Lines[k] \in {"success", "failure"}
  <2>1. k \in DOMAIN Lines /\ Lines[k] \in ResultRow
    OBVIOUS
  <2>2. DOMAIN Lines = 1 .. Len(Lines) /\ Len(Lines) \in Nat
    BY LinesAreRows
  <2> QED
    BY <2>1, <2>2 DEF ResultRow
<1>2. LastFails({k}) <=> Lines[k] = "failure" /\ k <= k
  BY DEF LastFails
<1> QED
  BY <1>1, <1>2

\* The stream's half of the contract.
LEMMA StreamAgrees ==
  ASSUME TypeOK
  PROVE  LET rows == Lines
             summary == parse_stream(rows)
             result == {k \in DOMAIN rows : rows[k] \in ResultRow}
         IN  (/\ ~summary.parse_errors /\ round.exit = "zero"
              /\ Cardinality(summary.results) = 1 /\ ~LastFails(summary.results)
              /\ ~(summary.assistants = 0 /\ ~summary.synthetic) /\ ~summary.synthetic)
             <=> (/\ round.exit = "zero"
                  /\ \A k \in DOMAIN rows : rows[k] \notin {"malformed", "synthetic"}
                  /\ \E k \in DOMAIN rows : rows[k] = "assistant"
                  /\ \E k \in result : result = {k} /\ rows[k] = "success")
<1> DEFINE rows == Lines
           summary == parse_stream(rows)
           result == {k \in DOMAIN rows : rows[k] \in ResultRow}
<1>1. /\ summary.assistants = 0 <=> \A k \in DOMAIN rows : rows[k] # "assistant"
      /\ summary.synthetic <=> \E k \in DOMAIN rows : rows[k] = "synthetic"
      /\ summary.parse_errors <=> \E k \in DOMAIN rows : rows[k] = "malformed"
      /\ summary.results = result
      /\ Cardinality(result) = 1 <=> \E k \in result : result = {k}
  BY SummaryOfRows
<1>2. ASSUME NEW k \in result, result = {k}
      PROVE  LastFails(result) <=> rows[k] # "success"
  BY <1>2, OneResult
<1> HIDE DEF rows, summary, result
<1>3. (Cardinality(result) = 1 /\ ~LastFails(result)) <=> \E k \in result : result = {k} /\ rows[k] = "success"
  BY <1>1, <1>2
<1> QED
  BY <1>1, <1>3 DEF rows, summary, result

-----------------------------------------------------------------------------
(* The theorems.                                                           *)

\* The inductive invariant: what is seen is what lies before the offset, a clean
\* exit is concluded from the whole stream, and what is announced has its cause
\* in what was seen.
THEOREM Inductive == Spec => []IInv
<1>1. Init => IInv
  BY InitReading, InitAnnounced DEF IInv
<1>2. IInv /\ [Next]_vars => IInv'
  BY ReadingStep, AnnouncedStep DEF IInv
<1> QED
  BY <1>1, <1>2, PTL DEF Spec

\* Every reachable state is well typed.
THEOREM TypeCorrect == Spec => []TypeOK
<1>1. IInv => TypeOK
  BY DEF IInv, ReadingInv
<1> QED
  BY <1>1, Inductive, PTL

\* The Monitor reads each terminated row once and in order, whatever was half
\* written when it looked; and a verdict that passes rests on exactly those rows
\* and, at most, a last one that lacks its newline.
THEOREM RowsAreHandledOnce == Spec => []EveryRowIsHandledOnce
<1>1. IInv => EveryRowIsHandledOnce
  <2> SUFFICES ASSUME IInv PROVE EveryRowIsHandledOnce
    OBVIOUS
  <2> DEFINE rows == stdout.rows
             n == monitor.stdout_offset
  <2>1. /\ rows \in Seq(Row) /\ n \in Nat /\ n <= Len(rows) /\ seen = SubSeq(rows, 1, n)
        /\ seen \in Seq(Row)
    BY DEF IInv, ReadingInv, TypeOK, MonitorRecord, SeenIsRead
  <2>2. IsPrefix(seen, rows)
    <3> HIDE DEF rows, n
    <3>1. Len(seen) = n
      BY <2>1
    <3>2. SubSeq(seen, 1, Len(seen)) = seen
      BY <2>1, SubSeqFull
    <3> QED
      BY <2>1, <3>1, <3>2 DEF IsPrefix
  <2> QED
    BY <2>2 DEF IInv, ReadingInv, LastTickIsWhole, EveryRowIsHandledOnce
<1> QED
  BY <1>1, Inductive, PTL

\* What is announced of a round are its incidents: each has its cause in this
\* round, a burst is one event, no failure goes without one, and a cursor into
\* monitor.json stays good.
THEOREM EventsAreAboutTheRound == Spec => []EventsAreIncidents
<1>1. IInv => EventsAreIncidents
  <2> SUFFICES ASSUME IInv PROVE EventsAreIncidents
    OBVIOUS
  <2> DEFINE events == incidents.events
             failed == "tool_failed" \in Range(seen)
  <2>1. /\ events \in Seq(EventKinds) /\ saved \in Seq(EventKinds)
        /\ incidents.incident_active \in BOOLEAN /\ seen \in Seq(Row)
        /\ Occurrences(events, "error") \in Nat /\ Occurrences(seen, "tool_ok") \in Nat
    <3>1. /\ events \in Seq(EventKinds) /\ saved \in Seq(EventKinds)
          /\ incidents.incident_active \in BOOLEAN /\ seen \in Seq(Row)
      BY DEF IInv, ReadingInv, TypeOK, IncidentRecord
    <3> QED
      BY <3>1, OccurrencesAreFinite
  <2>2. CausesAreSeen(incidents, seen, Ours) /\ SavedIsBehind
    BY DEF IInv, AnnouncedInv
  <2>3. "fatal" \in Range(events) => [round |-> round.index, hook |-> "StopFailure"] \in fired
    BY <2>2 DEF CausesAreSeen, Ours
  <2>4. "error" \in Range(events) =>
          failed \/ [round |-> round.index, hook |-> "PostToolUseFailure"] \in fired
    BY <2>2 DEF CausesAreSeen, Ours
  <2>5. Occurrences(events, "error") <= 1 + Occurrences(seen, "tool_ok")
    BY <2>2 DEF CausesAreSeen
  <2>6. failed => \E k \in DOMAIN events : events[k] \in {"error", "fatal"}
    <3>1. failed => "error" \in Range(events) \/ "fatal" \in Range(events)
      BY <2>2 DEF CausesAreSeen
    <3> HIDE DEF events, failed
    <3> QED
      BY <3>1 DEF Range
  <2>7. IsPrefix(saved, events) /\ (monitor.at = "done" => saved = events)
    <3>1. /\ Len(saved) <= Len(events) /\ Len(saved) \in Nat /\ Len(events) \in Nat
          /\ \A k \in 1 .. Len(saved) : saved[k] = events[k]
          /\ monitor.at = "done" => saved = events
      BY <2>1, <2>2 DEF SavedIsBehind
    <3> HIDE DEF events
    <3> DEFINE n == Len(saved)
               p == SubSeq(saved, 1, n)
               q == SubSeq(events, 1, n)
    <3>2. /\ p \in Seq(EventKinds) /\ q \in Seq(EventKinds) /\ Len(p) = n /\ Len(q) = n
          /\ \A k \in 1 .. n : p[k] = saved[k] /\ q[k] = events[k]
      BY <2>1, <3>1
    <3>3. p = q
      <4> HIDE DEF n, p, q
      <4>1. \A k \in 1 .. n : p[k] = q[k]
        BY <3>1, <3>2 DEF n
      <4> QED
        BY <3>2, <4>1, SeqEqual
    <3> QED
      BY <3>1, <3>3 DEF IsPrefix
  <2> QED
    BY <2>3, <2>4, <2>5, <2>6, <2>7 DEF EventsAreIncidents
<1> QED
  BY <1>1, Inductive, PTL

\* verify_round and its contract agree: on streams of any length and on any
\* transcript a round passes exactly when every signal does, and it is left to
\* attention only when nothing in the stream failed.
THEOREM VerdictsAreTheEvidence == Spec => []VerdictIsTheEvidence
<1>1. IInv => VerdictIsTheEvidence
  <2> SUFFICES ASSUME TypeOK, NEW t \in Transcript
               PROVE  /\ Passes(t) <=> SignalsAgree(t)
                      /\ NeedsAttention(t) => ~StreamFailed /\ "weaker" \notin t.kinds
    BY DEF IInv, ReadingInv, VerdictIsTheEvidence
  <2> DEFINE rows == Lines
             summary == parse_stream(rows)
             v == verify_transcript(t, summary)
             clean == /\ ~summary.parse_errors /\ round.exit = "zero"
                      /\ Cardinality(summary.results) = 1 /\ ~LastFails(summary.results)
                      /\ ~(summary.assistants = 0 /\ ~summary.synthetic) /\ ~summary.synthetic
             result == {k \in DOMAIN rows : rows[k] \in ResultRow}
             agreed == /\ round.exit = "zero"
                       /\ \A k \in DOMAIN rows : rows[k] \notin {"malformed", "synthetic"}
                       /\ \E k \in DOMAIN rows : rows[k] = "assistant"
                       /\ \E k \in result : result = {k} /\ rows[k] = "success"
             marked == /\ t.usable /\ "max" \in t.kinds
                       /\ t.kinds \subseteq (IF t.whole THEN {"max", "placeholder"} ELSE {"max"})
  <2>1. /\ Passes(t) <=> clean /\ v = {}
        /\ NeedsAttention(t) => clean /\ v \subseteq SOFT_REASONS
    BY CleanRound
  <2>2. clean <=> agreed
    BY StreamAgrees
  <2>3. clean => (v = {} <=> marked)
    <3> SUFFICES ASSUME clean PROVE v = {} <=> marked
      OBVIOUS
    <3>1. summary.assistants \in Nat
      BY SummaryOfRows
    <3>2. summary.assistants > 0 /\ ~summary.synthetic
      BY <3>1
    <3> HIDE DEF summary
    <3> QED
      BY <3>2, TranscriptAgrees
  <2>4. v \subseteq SOFT_REASONS => "weaker" \notin t.kinds
    BY CleanTranscript
  <2>5. SignalsAgree(t) <=> agreed /\ marked
    BY DEF SignalsAgree
  <2>6. agreed => ~StreamFailed
    <3> SUFFICES ASSUME agreed PROVE ~StreamFailed
      OBVIOUS
    <3>1. PICK k \in result : result = {k} /\ rows[k] = "success"
      OBVIOUS
    <3>2. k \in DOMAIN rows /\ \A l \in DOMAIN rows : rows[l] # "failure"
      BY <3>1 DEF ResultRow
    <3>3. "assistant" \in Range(rows) /\ "success" \in Range(rows)
      BY <3>1, <3>2 DEF Range
    <3> QED
      BY <3>2, <3>3 DEF StreamFailed
  <2> HIDE DEF clean, agreed, marked, v
  <2> QED
    BY <2>1, <2>2, <2>3, <2>4, <2>5, <2>6
<1> QED
  BY <1>1, Inductive, PTL

=============================================================================
