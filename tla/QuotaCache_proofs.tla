-------------------------- MODULE QuotaCache_proofs --------------------------
(* The shared quota cache: its invariant, and what follows for the calls that *)
(* are paused.                                                                *)
EXTENDS QuotaCache, TLAPS

LEMMA Levels == NONE \notin Nat /\ NONE < LIMIT /\ 0 < LIMIT /\ NONE \in Int
BY LevelsAssumption DEF NONE

LEMMA InitIInv == Init => IInv
<1> SUFFICES ASSUME Init PROVE IInv
  OBVIOUS
<1>1. TypeOK
  <2>1. account \in [Window -> [used : Used, reset : Nat]]
    BY LevelsAssumption, BoundsAssumption DEF Init, Used
  <2>2. Idle \in [candidates : SUBSET Candidate, items : SUBSET Item, ready : SUBSET Item]
    BY DEF Idle
  <2>3. Nothing \in CacheEntry
    BY DEF Nothing, CacheEntry
  <2>4. \A j \in Job : streams[j] \in Seq(Event) /\ pending[j] = {}
    BY DEF Init
  <2> QED
    BY <2>1, <2>2, <2>3, <2>4 DEF Init, TypeOK
<1>2. EventsAreDated
  <2>1. \A w \in Window : Dated(w, windows[w])
    BY DEF Init, Dated, Nothing, NONE
  <2>2. /\ \A j \in Job : Len(streams[j]) = 0 /\ pending[j] = {}
        /\ refresh.items \cup refresh.ready = {}
    BY DEF Init, Idle
  <2> QED
    BY <2>1, <2>2 DEF EventsAreDated
<1>3. KnownIsHeld
  BY DEF Init, KnownIsHeld
<1> QED
  BY <1>1, <1>2, <1>3 DEF IInv

-----------------------------------------------------------------------------
(* The clock and the account.                                              *)

\* Time and use leave what was said of a window true: a reset that comes is no
\* longer ahead, and within a window the usage only grows.
LEMMA DatedLasts ==
  ASSUME TypeOK, TypeOK', now <= now',
         NEW w \in Window,
         \/ account'[w].reset = account[w].reset /\ account[w].used <= account'[w].used
         \/ account[w].reset <= now',
         NEW value, value.resets_at \in Nat \cup {NONE}, Dated(w, value)
  PROVE  Dated(w, value)'
<1>1. /\ now \in Nat /\ now' \in Nat /\ account[w].reset \in Nat
      /\ account[w].used \in Int /\ account'[w].used \in Int
  BY LevelsAssumption DEF TypeOK, Used
<1> QED
  BY <1>1, Levels, LevelsAssumption DEF Dated

LEMMA TypedValues ==
  ASSUME TypeOK
  PROVE  /\ \A j \in Job : \A k \in 1 .. Len(streams[j]) : streams[j][k] \in Event
         /\ \A j \in Job : \A item \in pending[j] : item.event \in Event /\ item.observed \in Nat
         /\ \A item \in refresh.items \cup refresh.ready :
              item.event \in Event /\ item.observed \in Nat
<1>1. \A j \in Job : streams[j] \in Seq(Event)
  BY DEF TypeOK
<1>2. \A j \in Job : pending[j] \subseteq Stamped
  BY DEF TypeOK
<1>3. refresh.items \subseteq Item /\ refresh.ready \subseteq Item
  BY DEF TypeOK
<1> QED
  BY <1>1, <1>2, <1>3 DEF Stamped, Item

LEMMA AccountStep ==
  ASSUME IInv, TypeOK', now <= now',
         \A w \in Window :
           \/ account'[w].reset = account[w].reset /\ account[w].used <= account'[w].used
           \/ account[w].reset <= now',
         UNCHANGED <<streams, pending, refresh, windows, known, vague>>
  PROVE  IInv'
<1>1. TypeOK /\ EventsAreDated /\ KnownIsHeld
  BY DEF IInv
<1>2. \A w \in Window, value \in Event \cup CacheEntry : Dated(w, value) => Dated(w, value)'
  <2> SUFFICES ASSUME NEW w \in Window, NEW value \in Event \cup CacheEntry, Dated(w, value)
               PROVE  Dated(w, value)'
    OBVIOUS
  <2>1. value.resets_at \in Nat \cup {NONE}
    BY DEF Event, CacheEntry
  <2> QED
    BY <1>1, <2>1, DatedLasts
<1>3. EventsAreDated'
  <2>1. \A w \in Window : windows[w] \in CacheEntry
    BY <1>1 DEF TypeOK
  <2>2. \A e \in Event : e.window \in Window
    BY DEF Event
  <2> QED
    BY <1>1, <1>2, <2>1, <2>2, TypedValues DEF EventsAreDated, Dated
<1>4. KnownIsHeld'
  <2> SUFFICES ASSUME NEW w \in Window, known[w] # NONE, now' < known[w], ~vague[w]
               PROVE  /\ known[w] = account'[w].reset /\ windows[w].resets_at = known[w]
                      /\ windows[w].used_percent >= LIMIT
    BY DEF KnownIsHeld
  <2>1. now \in Nat /\ now' \in Nat /\ known[w] \in Int /\ account[w].reset \in Nat
    BY <1>1, Levels DEF TypeOK
  <2>2. now < known[w]
    BY <2>1
  <2>3. /\ known[w] = account[w].reset /\ windows[w].resets_at = known[w]
        /\ windows[w].used_percent >= LIMIT
    BY <1>1, <2>2 DEF KnownIsHeld
  <2> QED
    BY <2>1, <2>3
<1> QED
  BY <1>3, <1>4 DEF IInv

LEMMA TickStep == IInv /\ Tick => IInv'
<1> SUFFICES ASSUME IInv, Tick PROVE IInv'
  OBVIOUS
<1>1. TypeOK /\ now \in Nat /\ now' = now + 1
  BY DEF IInv, TypeOK, Tick
<1>2. \A w \in Window : /\ account[w].used \in Used /\ account[w].reset \in Nat
                        /\ account'[w] = IF account[w].reset <= now'
                             THEN [used |-> 0, reset |-> account[w].reset + Length] ELSE account[w]
  BY <1>1 DEF TypeOK, Tick
<1>3. TypeOK'
  <2> DEFINE Running == [used : Used, reset : Nat]
             fresh(w) == [used |-> 0, reset |-> account[w].reset + Length]
  <2>1. \A w \in Window : account[w] \in Running /\ fresh(w) \in Running
    BY <1>1, <1>2, LevelsAssumption, BoundsAssumption DEF TypeOK, Used
  <2>2. account' = [w \in Window |-> IF account[w].reset <= now' THEN fresh(w) ELSE account[w]]
    BY DEF Tick
  <2>3. account' \in [Window -> Running]
    <3> HIDE DEF Running, fresh
    <3> QED
      BY <2>1, <2>2
  <2> QED
    BY <1>1, <2>3 DEF TypeOK, Tick
<1>4. \A w \in Window :
        \/ account'[w].reset = account[w].reset /\ account[w].used <= account'[w].used
        \/ account[w].reset <= now'
  <2> TAKE w \in Window
  <2>1. account[w].used <= account[w].used
    <3>1. account[w].used \in Int
      BY <1>1, LevelsAssumption DEF TypeOK, Used
    <3> QED
      BY ONLY <3>1
  <2>2. CASE ~(account[w].reset <= now')
    BY <1>2, <2>1, <2>2
  <2> QED
    BY <2>2
<1>5. now <= now' /\ UNCHANGED <<streams, pending, refresh, windows, known, vague>>
  BY <1>1 DEF Tick
<1> QED
  BY <1>3, <1>4, <1>5, AccountStep

LEMMA ConsumeStep ==
  ASSUME IInv, NEW w \in Window, Consume(w)
  PROVE  IInv'
<1>1. TypeOK /\ now \in Nat
  BY DEF IInv, TypeOK
<1>2. account[w].used \in Used /\ account[w].used < Full /\ account[w].reset \in Nat
  BY <1>1 DEF TypeOK, Consume
<1>3. account[w].used + 1 \in Used
  BY <1>2, LevelsAssumption DEF Used
<1>4. account' = [account EXCEPT ![w] = [account[w] EXCEPT !.used = account[w].used + 1]]
  BY DEF Consume
<1>5. [account[w] EXCEPT !.used = account[w].used + 1] \in [used : Used, reset : Nat]
  BY <1>1, <1>3 DEF TypeOK
<1>6. TypeOK'
  BY <1>1, <1>4, <1>5 DEF TypeOK, Consume
<1>7. \A v \in Window : account'[v].reset = account[v].reset /\ account[v].used <= account'[v].used
  <2> TAKE v \in Window
  <2>1. account[v].used \in Int
    BY <1>1, LevelsAssumption DEF TypeOK, Used
  <2>2. account[w] \in [used : Used, reset : Nat] /\ account \in [Window -> [used : Used, reset : Nat]]
    BY <1>1 DEF TypeOK
  <2>3. CASE v = w
    BY <1>4, <2>1, <2>2, <2>3
  <2>4. CASE v # w
    BY <1>4, <2>1, <2>2, <2>4
  <2> QED
    BY <2>3, <2>4
<1> QED
  BY <1>1, <1>6, <1>7, AccountStep DEF Consume

-----------------------------------------------------------------------------
(* The streams.                                                            *)

\* What the CLI writes is what the account knows now.
LEMMA ReportStep ==
  ASSUME IInv, NEW j \in Job, NEW w \in Window, NEW how \in {"usage", "rejected", "no_reset"},
         Report(j, w, how)
  PROVE  IInv'
<1> DEFINE event == parse_event(j, w, how)
<1>1. TypeOK /\ EventsAreDated /\ KnownIsHeld /\ UNCHANGED <<now, account, read, pending, refresh, windows, known, vague>>
  BY DEF IInv, Report
<1>2. event \in Event
  BY <1>1 DEF parse_event, Event, TypeOK
<1>3. event.window = w /\ Dated(w, event)
  <2>1. now \in Nat /\ account[w].used \in Used /\ account[w].reset \in Nat
    BY <1>1 DEF TypeOK
  <2>2. event.window = w
    BY DEF parse_event
  <2>3. CASE how = "usage"
    BY <2>1, <2>3, LevelsAssumption DEF parse_event, Dated, Used, NONE
  <2>4. CASE how = "rejected"
    BY <2>1, <2>4, LevelsAssumption DEF parse_event, Dated, Report
  <2>5. CASE how = "no_reset"
    BY <2>1, <2>5 DEF parse_event, Dated, NONE
  <2> QED
    BY <2>2, <2>3, <2>4, <2>5
<1> HIDE DEF event
<1>4. streams \in [Job -> Seq(Event)] /\ streams' = [streams EXCEPT ![j] = Append(streams[j], event)]
  BY <1>1 DEF TypeOK, Report, event
<1>5. /\ streams' \in [Job -> Seq(Event)]
      /\ \A i \in Job : \A k \in 1 .. Len(streams'[i]) :
           \/ k \in 1 .. Len(streams[i]) /\ streams'[i][k] = streams[i][k]
           \/ streams'[i][k] = event
  <2>1. Append(streams[j], event) \in Seq(Event)
    BY <1>2, <1>4
  <2>2. \A k \in 1 .. Len(Append(streams[j], event)) :
          \/ k \in 1 .. Len(streams[j]) /\ Append(streams[j], event)[k] = streams[j][k]
          \/ Append(streams[j], event)[k] = event
    BY <1>2, <1>4
  <2> QED
    BY <1>4, <2>1, <2>2
<1>6. TypeOK'
  <2>1. mtime' \in [Job -> Nat]
    BY <1>1 DEF TypeOK, Report
  <2> QED
    BY <1>1, <1>5, <2>1 DEF TypeOK
<1>7. EventsAreDated'
  BY <1>1, <1>3, <1>5 DEF EventsAreDated, Dated
<1>8. KnownIsHeld'
  BY <1>1 DEF KnownIsHeld
<1> QED
  BY <1>6, <1>7, <1>8 DEF IInv

LEMMA WriteStep ==
  ASSUME IInv, NEW j \in Job, Write(j)
  PROVE  IInv'
<1>1. TypeOK'
  BY DEF IInv, TypeOK, Write
<1>2. EventsAreDated'
  BY DEF IInv, EventsAreDated, Dated, Write
<1>3. KnownIsHeld'
  BY DEF IInv, KnownIsHeld, Write
<1> QED
  BY <1>1, <1>2, <1>3 DEF IInv

-----------------------------------------------------------------------------
(* The cache.                                                              *)

\* An event that was stamped, or taken from a stream, carries over what was
\* true of it.
LEMMA CarryStep ==
  ASSUME IInv, TypeOK', UNCHANGED <<now, account, streams, windows, known, vague>>,
         \A j \in Job : \A item \in pending'[j] :
           \/ item \in pending[j]
           \/ \E i \in Job : \E k \in 1 .. Len(streams[i]) : item.event = streams[i][k],
         \A item \in refresh'.items \cup refresh'.ready :
           \/ item \in refresh.items \cup refresh.ready
           \/ \E i \in Job : \E k \in 1 .. Len(streams[i]) : item.event = streams[i][k]
  PROVE  IInv'
<1>1. EventsAreDated'
  BY DEF IInv, EventsAreDated, Dated
<1>2. KnownIsHeld'
  BY DEF IInv, KnownIsHeld
<1> QED
  BY <1>1, <1>2 DEF IInv

LEMMA ObserveStep ==
  ASSUME IInv, NEW j \in Job, Observe(j)
  PROVE  IInv'
<1> DEFINE item == [event |-> streams[j][read[j] + 1], observed |-> now]
<1>1. TypeOK /\ read[j] \in Nat /\ now \in Nat /\ streams[j] \in Seq(Event) /\ read[j] < Len(streams[j])
  BY DEF IInv, TypeOK, Observe
<1>2. read[j] + 1 \in 1 .. Len(streams[j]) /\ streams[j][read[j] + 1] \in Event
  BY <1>1
<1>3. item \in Stamped /\ \E k \in 1 .. Len(streams[j]) : item.event = streams[j][k]
  BY <1>1, <1>2 DEF Stamped
<1>4. /\ pending' = [pending EXCEPT ![j] = {item}] /\ read' = [read EXCEPT ![j] = read[j] + 1]
      /\ UNCHANGED <<now, account, streams, mtime, refresh, windows, known, vague>>
  BY DEF Observe
<1> HIDE DEF item
<1>5. TypeOK' /\ \A i \in Job : \A x \in pending'[i] : x \in pending[i] \/ x = item
  BY <1>1, <1>3, <1>4 DEF TypeOK
<1> QED
  BY <1>3, <1>4, <1>5, CarryStep

LEMMA ListStep == IInv /\ ListCandidates => IInv'
<1> SUFFICES ASSUME IInv, ListCandidates PROVE IInv'
  OBVIOUS
<1> DEFINE found == {[job |-> j, modified |-> mtime[j]] : j \in {k \in Job : streams[k] # <<>>}}
<1>1. TypeOK /\ UNCHANGED <<now, account, streams, mtime, read, pending, windows, known, vague>>
  BY DEF IInv, ListCandidates
<1>2. found \subseteq Candidate
  BY <1>1 DEF TypeOK, Candidate
<1>3. refresh' = [candidates |-> found, items |-> {}, ready |-> {}]
  BY DEF ListCandidates, Idle
<1> HIDE DEF found
<1>4. TypeOK'
  BY <1>1, <1>2, <1>3 DEF TypeOK
<1> QED
  BY <1>1, <1>3, <1>4, CarryStep

LEMMA ReadStep == IInv /\ ReadStream => IInv'
<1> SUFFICES ASSUME IInv, ReadStream PROVE IInv'
  OBVIOUS
<1>1. /\ TypeOK /\ UNCHANGED <<now, account, streams, mtime, read, pending, windows, known, vague>>
      /\ refresh \in [candidates : SUBSET Candidate, items : SUBSET Item, ready : SUBSET Item]
      /\ refresh.ready = {}
  BY DEF IInv, TypeOK, ReadStream
<1>2. PICK candidate \in refresh.candidates :
        refresh' = [refresh EXCEPT
          !.candidates = @ \ {candidate},
          !.items = {[event |-> streams[candidate.job][k], place |-> k,
                      observed |-> candidate.modified] : k \in Newest(streams[candidate.job])}]
  BY DEF ReadStream
<1>3. candidate.job \in Job /\ candidate.modified \in Nat /\ streams[candidate.job] \in Seq(Event)
  <2>1. candidate \in Candidate
    BY <1>1, <1>2
  <2> QED
    BY <1>1, <2>1 DEF Candidate, TypeOK
<1> DEFINE stream == streams[candidate.job]
           found == {[event |-> stream[k], place |-> k, observed |-> candidate.modified] :
                       k \in Newest(stream)}
<1>4. Newest(stream) \subseteq 1 .. Len(stream)
  BY DEF Newest
<1>5. /\ found \subseteq Item
      /\ \A item \in found : \E k \in 1 .. Len(stream) : item.event = stream[k]
  <2> SUFFICES ASSUME NEW k \in Newest(stream),
                      NEW item, item = [event |-> stream[k], place |-> k, observed |-> candidate.modified]
               PROVE  item \in Item /\ \E l \in 1 .. Len(stream) : item.event = stream[l]
    OBVIOUS
  <2>1. k \in 1 .. Len(stream) /\ stream[k] \in Event
    BY <1>3, <1>4
  <2> QED
    BY <1>3, <2>1 DEF Item
<1>6. refresh' = [refresh EXCEPT !.candidates = @ \ {candidate}, !.items = found]
  BY <1>2
<1> HIDE DEF found
<1>7. refresh' \in [candidates : SUBSET Candidate, items : SUBSET Item, ready : SUBSET Item]
      /\ refresh'.items = found /\ refresh'.ready = {}
  BY <1>1, <1>5, <1>6
<1>8. TypeOK'
  BY <1>1, <1>7 DEF TypeOK
<1> QED
  BY <1>1, <1>3, <1>5, <1>7, <1>8, CarryStep

LEMMA CheckStep == IInv /\ CheckStored => IInv'
<1> SUFFICES ASSUME IInv, CheckStored PROVE IInv'
  OBVIOUS
<1>1. /\ TypeOK /\ UNCHANGED <<now, account, streams, mtime, read, pending, windows, known, vague>>
      /\ refresh \in [candidates : SUBSET Candidate, items : SUBSET Item, ready : SUBSET Item]
  BY DEF IInv, TypeOK, CheckStored
<1>2. PICK item \in refresh.items :
        refresh' = [refresh EXCEPT !.items = @ \ {item},
                                   !.ready = IF IsStored(item.event) THEN {} ELSE {item}]
  BY DEF CheckStored
<1>3. /\ refresh' \in [candidates : SUBSET Candidate, items : SUBSET Item, ready : SUBSET Item]
      /\ refresh'.items \subseteq refresh.items /\ refresh'.ready \subseteq refresh.items
  <2>1. CASE IsStored(item.event)
    BY <1>1, <1>2, <2>1
  <2>2. CASE ~IsStored(item.event)
    BY <1>1, <1>2, <2>2
  <2> QED
    BY <2>1, <2>2
<1>4. TypeOK'
  BY <1>1, <1>3 DEF TypeOK
<1> QED
  BY <1>1, <1>3, <1>4, CarryStep

\* One transaction of store: the cache keeps only what is true of its window,
\* and no import of a lower usage replaces the known one.
LEMMA StoreKeeps ==
  ASSUME IInv, NEW value \in Event, NEW observed \in Nat, NEW kind \in {"live", "import"},
         Dated(value.window, value), store(value, observed, kind), UNCHANGED <<now, account>>
  PROVE  /\ windows' \in [Window -> CacheEntry]
         /\ known' \in [Window -> Nat \cup {NONE}] /\ vague' \in [Window -> BOOLEAN]
         /\ \A w \in Window : Dated(w, windows[w])'
         /\ KnownIsHeld'
<1> DEFINE w == value.window
           entry == [observed_at |-> observed, session |-> value.session,
                     used_percent |-> value.used_percent, resets_at |-> value.resets_at,
                     source |-> kind]
<1>1. /\ windows \in [Window -> CacheEntry] /\ now \in Nat
      /\ known \in [Window -> Nat \cup {NONE}] /\ vague \in [Window -> BOOLEAN]
      /\ \A v \in Window : Dated(v, windows[v])
      /\ KnownIsHeld
  BY DEF IInv, TypeOK, EventsAreDated
<1>2. /\ w \in Window /\ value.used_percent \in Used \cup {NONE}
      /\ value.resets_at \in Nat \cup {NONE} /\ value.session \in Job
  BY DEF Event
<1>3. entry \in CacheEntry /\ Dated(w, entry)
  BY <1>2 DEF CacheEntry, Dated
<1>4. CASE ~supersedes(windows[w], value, observed, kind)
  <2>1. UNCHANGED <<windows, known, vague>>
    BY <1>4 DEF store
  <2> QED
    BY <1>1, <2>1 DEF Dated, KnownIsHeld
<1>5. CASE supersedes(windows[w], value, observed, kind)
  <2>1. windows' = [windows EXCEPT ![w] = entry]
    BY <1>5 DEF store
  <2>2. /\ entry.used_percent = value.used_percent /\ entry.resets_at = value.resets_at
    OBVIOUS
  <2> HIDE DEF entry
  <2>3. /\ windows' \in [Window -> CacheEntry] /\ windows'[w] = entry
        /\ \A v \in Window \ {w} : windows'[v] = windows[v]
    BY <1>1, <1>2, <1>3, <2>1
  <2>4. \A v \in Window : Dated(v, windows[v])'
    BY <1>1, <1>3, <2>3 DEF Dated
  <2>5. CASE value.used_percent = NONE \/ value.resets_at = NONE
    <3>1. vague' = [vague EXCEPT ![w] = TRUE] /\ known' = known
      BY <1>5, <2>5 DEF store
    <3>2. vague' \in [Window -> BOOLEAN] /\ vague'[w] /\ \A v \in Window \ {w} : vague'[v] = vague[v]
      BY <1>1, <1>2, <3>1
    <3>3. KnownIsHeld'
      BY <1>1, <2>3, <3>1, <3>2 DEF KnownIsHeld
    <3> QED
      BY <1>1, <2>3, <2>4, <3>1, <3>2, <3>3
  <2>6. CASE /\ value.used_percent # NONE /\ value.resets_at # NONE
             /\ value.used_percent >= LIMIT
    <3>1. known' = [known EXCEPT ![w] = value.resets_at] /\ vague' = [vague EXCEPT ![w] = FALSE]
      BY <1>5, <2>6 DEF store
    <3>2. /\ known' \in [Window -> Nat \cup {NONE}] /\ vague' \in [Window -> BOOLEAN]
          /\ known'[w] = value.resets_at
          /\ \A v \in Window \ {w} : known'[v] = known[v] /\ vague'[v] = vague[v]
      BY <1>1, <1>2, <3>1
    <3>3. now < value.resets_at => value.resets_at = account[w].reset
      BY <1>1, <1>2, Levels DEF Dated
    <3>4. KnownIsHeld'
      BY <1>1, <2>2, <2>3, <2>6, <3>2, <3>3 DEF KnownIsHeld
    <3> QED
      BY <2>3, <2>4, <3>2, <3>4
  <2>7. CASE /\ value.used_percent # NONE /\ value.resets_at # NONE
             /\ ~(value.used_percent >= LIMIT)
    <3>1. known' = [known EXCEPT ![w] = IF kind = "live" THEN NONE ELSE known[w]] /\ vague' = vague
      BY <1>5, <2>7 DEF store
    <3>2. /\ known' \in [Window -> Nat \cup {NONE}]
          /\ known'[w] = IF kind = "live" THEN NONE ELSE known[w]
          /\ \A v \in Window \ {w} : known'[v] = known[v]
      BY <1>1, <1>2, <3>1
    <3>3. kind = "import" => known[w] = NONE \/ ~(now < known[w]) \/ vague[w]
      <4> SUFFICES ASSUME kind = "import", known[w] # NONE, now < known[w], ~vague[w]
                   PROVE  FALSE
        OBVIOUS
      <4>1. /\ known[w] = account[w].reset /\ windows[w].resets_at = known[w]
            /\ windows[w].used_percent >= LIMIT
        BY <1>1, <1>2 DEF KnownIsHeld
      <4>2. ~(value.resets_at < windows[w].resets_at)
        BY <1>5, <2>7, <4>1 DEF supersedes
      <4>3. value.resets_at = account[w].reset
        BY <1>1, <1>2, <2>7, <4>1, <4>2 DEF Dated
      <4>4. /\ windows[w].used_percent # NONE
            /\ value.used_percent < windows[w].used_percent
        <5>1. windows[w].used_percent \in Int /\ value.used_percent \in Int
          BY <1>1, <1>2, Levels DEF CacheEntry, Used
        <5> QED
          BY <2>7, <4>1, <5>1, Levels, LevelsAssumption
      <4> QED
        BY <1>5, <2>7, <4>1, <4>3, <4>4 DEF supersedes
    <3>4. KnownIsHeld'
      BY <1>1, <2>3, <3>1, <3>2, <3>3 DEF KnownIsHeld
    <3> QED
      BY <1>1, <2>3, <2>4, <3>1, <3>2, <3>4
  <2> QED
    BY <2>5, <2>6, <2>7
<1> QED
  BY <1>4, <1>5

LEMMA StoreLiveStep ==
  ASSUME IInv, NEW j \in Job, StoreLive(j)
  PROVE  IInv'
<1>1. TypeOK /\ EventsAreDated /\ UNCHANGED <<now, account, streams, mtime, read, refresh>>
  BY DEF IInv, StoreLive
<1>2. PICK item \in pending[j] : store(item.event, item.observed, "live")
  BY DEF StoreLive
<1>3. item.event \in Event /\ item.observed \in Nat /\ Dated(item.event.window, item.event)
  BY <1>1, <1>2, TypedValues DEF EventsAreDated
<1>4. /\ windows' \in [Window -> CacheEntry]
      /\ known' \in [Window -> Nat \cup {NONE}] /\ vague' \in [Window -> BOOLEAN]
      /\ \A w \in Window : Dated(w, windows[w])'
      /\ KnownIsHeld'
  BY <1>1, <1>2, <1>3, StoreKeeps
<1>5. pending' \in [Job -> SUBSET Stamped] /\ \A i \in Job : pending'[i] \subseteq pending[i]
  BY <1>1 DEF TypeOK, StoreLive
<1>6. TypeOK'
  BY <1>1, <1>4, <1>5 DEF TypeOK
<1>7. EventsAreDated'
  BY <1>1, <1>4, <1>5 DEF EventsAreDated, Dated
<1> QED
  BY <1>4, <1>6, <1>7 DEF IInv

LEMMA StoreImportStep == IInv /\ StoreImport => IInv'
<1> SUFFICES ASSUME IInv, StoreImport PROVE IInv'
  OBVIOUS
<1>1. TypeOK /\ EventsAreDated /\ UNCHANGED <<now, account, streams, mtime, read, pending>>
  BY DEF IInv, StoreImport
<1>2. PICK item \in refresh.ready : store(item.event, item.observed, "import")
  BY DEF StoreImport
<1>3. item.event \in Event /\ item.observed \in Nat /\ Dated(item.event.window, item.event)
  BY <1>1, <1>2, TypedValues DEF EventsAreDated
<1>4. /\ windows' \in [Window -> CacheEntry]
      /\ known' \in [Window -> Nat \cup {NONE}] /\ vague' \in [Window -> BOOLEAN]
      /\ \A w \in Window : Dated(w, windows[w])'
      /\ KnownIsHeld'
  BY <1>1, <1>2, <1>3, StoreKeeps
<1>5. /\ refresh' \in [candidates : SUBSET Candidate, items : SUBSET Item, ready : SUBSET Item]
      /\ refresh'.items = refresh.items /\ refresh'.ready = {}
  BY <1>1 DEF TypeOK, StoreImport
<1>6. TypeOK'
  BY <1>1, <1>4, <1>5 DEF TypeOK
<1>7. EventsAreDated'
  BY <1>1, <1>4, <1>5 DEF EventsAreDated, Dated
<1> QED
  BY <1>4, <1>6, <1>7 DEF IInv

-----------------------------------------------------------------------------
(* The theorems.                                                           *)

LEMMA NextStep == IInv /\ [Next]_vars => IInv'
<1> SUFFICES ASSUME IInv, [Next]_vars PROVE IInv'
  OBVIOUS
<1>1. CASE UNCHANGED vars
  BY <1>1 DEF IInv, TypeOK, EventsAreDated, KnownIsHeld, Dated, vars
<1>2. CASE Tick
  BY <1>2, TickStep
<1>3. ASSUME NEW w \in Window, Consume(w) PROVE IInv'
  BY <1>3, ConsumeStep
<1>4. ASSUME NEW j \in Job, NEW w \in Window, NEW how \in {"usage", "rejected", "no_reset"},
             Report(j, w, how)
      PROVE  IInv'
  BY <1>4, ReportStep
<1>5. ASSUME NEW j \in Job, Write(j) \/ Observe(j) \/ StoreLive(j) PROVE IInv'
  BY <1>5, WriteStep, ObserveStep, StoreLiveStep
<1>6. CASE ListCandidates \/ ReadStream \/ CheckStored \/ StoreImport
  BY <1>6, ListStep, ReadStep, CheckStep, StoreImportStep
<1> QED
  BY <1>1, <1>2, <1>3, <1>4, <1>5, <1>6 DEF Next

\* The inductive invariant: whatever is written, stamped, found or stored of a
\* window is over or true of the window that runs.
THEOREM Inductive == Spec => []IInv
BY InitIInv, NextStep, PTL DEF Spec

\* Every reachable state is well typed.
THEOREM TypeCorrect == Spec => []TypeOK
<1>1. IInv => TypeOK
  BY DEF IInv
<1> QED
  BY <1>1, Inductive, PTL

\* A known high usage pauses until its reset, whatever is imported after it.
THEOREM HoldsOutliveImports == Spec => []HoldOutlivesImports
<1>1. IInv => HoldOutlivesImports
  <2> SUFFICES ASSUME IInv, NEW w \in Window, known[w] # NONE, now < known[w], ~vague[w]
               PROVE  ~quota_gate
    BY DEF HoldOutlivesImports
  <2>1. /\ windows[w].resets_at = known[w] /\ windows[w].used_percent >= LIMIT
        /\ now \in Nat /\ known[w] \in Int
    BY Levels DEF IInv, KnownIsHeld, TypeOK
  <2>2. held(windows[w])
    BY <2>1 DEF held
  <2> QED
    BY <2>2 DEF quota_gate
<1> QED
  BY <1>1, Inductive, PTL

\* A hold with a known reset is about the window that runs, and the account is at
\* its limit there.
THEOREM PausesAreReal == Spec => []PauseIsReal
<1>1. IInv => PauseIsReal
  <2> SUFFICES ASSUME IInv, NEW w \in Window, held(windows[w]), windows[w].resets_at # NONE
               PROVE  account[w].used >= LIMIT
    BY DEF PauseIsReal
  <2>1. /\ now \in Nat /\ windows[w].resets_at \in Int /\ Dated(w, windows[w])
    BY Levels DEF IInv, EventsAreDated, TypeOK, CacheEntry
  <2>2. ~(now >= windows[w].resets_at)
        /\ (windows[w].used_percent = NONE \/ windows[w].used_percent >= LIMIT)
    BY DEF held, rejected
  <2> QED
    BY <2>1, <2>2 DEF Dated
<1> QED
  BY <1>1, Inductive, PTL

=============================================================================
