----------------------------- MODULE QuotaCache -----------------------------
(***************************************************************************)
(* The account quota that the jobs of one state root share.  Each round's  *)
(* Observer stores the rate_limit events of its own stream as they are     *)
(* monitored; a start or a revise imports what it finds in the streams of  *)
(* the latest rounds, which carry no time of their own and are dated by    *)
(* the file's mtime; status() decides from the cache file whether new      *)
(* calls are paused.  The account itself is the truth the events report:   *)
(* its usage grows within a window and starts again at the reset.          *)
(***************************************************************************)
EXTENDS Integers, Sequences, FiniteSetsExt

CONSTANTS
  Job,        \* jobs whose last round has a stream
  Window,     \* the quota windows (five_hour, seven_day, ...)
  LIMIT,      \* the usage that pauses (90%)
  Full,       \* the highest usage
  Length,     \* how long a window lasts
  MaxTime,    \* bound on the clock
  MaxEvents   \* bound on the rate_limit events of all streams

ASSUME LevelsAssumption == LIMIT \in Nat \ {0} /\ Full \in Nat /\ LIMIT <= Full
ASSUME BoundsAssumption == Length \in Nat \ {0} /\ MaxTime \in Nat /\ MaxEvents \in Nat

NONE == -1
Used == 0 .. Full

VARIABLES
  now,       \* the clock
  account,   \* what the provider knows of each window
  streams,   \* the rate_limit events of each job's stdout.ndjson
  mtime,     \* and the file's modification time
  read,      \* how many events each job's Observer was given
  pending,   \* the event it stamped and has not stored
  refresh,   \* a refresh_from_jobs: the candidates and the events to import
  windows,   \* the cache file
  known,     \* history: the reset of the known high usage no live event took back
  vague      \* history: an event without usage or reset was stored since

vars == <<now, account, streams, mtime, read, pending, refresh, windows, known, vague>>

Nothing ==
  [observed_at |-> 0, session |-> "none", used_percent |-> NONE, resets_at |-> NONE, source |-> "none"]
Idle == [candidates |-> {}, items |-> {}, ready |-> {}]

Init ==
  /\ now = 1
  /\ account \in [Window -> [used : {0}, reset : {Length}]]
  /\ streams = [j \in Job |-> <<>>]
  /\ mtime = [j \in Job |-> 1]
  /\ read = [j \in Job |-> 0]
  /\ pending = [j \in Job |-> {}]
  /\ refresh = Idle
  /\ windows = [w \in Window |-> Nothing]
  /\ known = [w \in Window |-> NONE]
  /\ vague = [w \in Window |-> FALSE]

-----------------------------------------------------------------------------
(* The account and the streams.                                            *)

Tick ==
  /\ now < MaxTime
  /\ now' = now + 1
  /\ account' = [w \in Window |->
                   IF account[w].reset <= now'
                     THEN [used |-> 0, reset |-> account[w].reset + Length] ELSE account[w]]
  /\ UNCHANGED <<streams, mtime, read, pending, refresh, windows, known, vague>>

Consume(w) ==
  /\ account[w].used < Full
  /\ account' = [account EXCEPT ![w].used = @ + 1]
  /\ UNCHANGED <<now, streams, mtime, read, pending, refresh, windows, known, vague>>

\* parse_event: the usage, or a rejection that carries none; the reset may be
\* missing.
parse_event(j, w, how) ==
  [session |-> j, window |-> w,
   used_percent |-> IF how = "rejected" THEN NONE ELSE account[w].used,
   resets_at |-> IF how = "no_reset" THEN NONE ELSE account[w].reset]

TotalEvents == FoldSet(LAMBDA j, n : n + Len(streams[j]), 0, Job)

\* Only an account at its limit is rejected.
Report(j, w, how) ==
  /\ TotalEvents < MaxEvents
  /\ how = "rejected" => account[w].used >= LIMIT
  /\ streams' = [streams EXCEPT ![j] = Append(@, parse_event(j, w, how))]
  /\ mtime' = [mtime EXCEPT ![j] = now]
  /\ UNCHANGED <<now, account, read, pending, refresh, windows, known, vague>>

\* Other output of the round.
Write(j) ==
  /\ streams[j] # <<>> /\ mtime[j] # now
  /\ mtime' = [mtime EXCEPT ![j] = now]
  /\ UNCHANGED <<now, account, streams, read, pending, refresh, windows, known, vague>>

-----------------------------------------------------------------------------
(* The cache.                                                              *)

\* Mutant: whatever was observed later is stored.
supersedes_by_time(old, value, observed, kind) ==
  /\ observed >= old.observed_at
  /\ ~(old.resets_at # NONE /\ value.resets_at # NONE /\ value.resets_at < old.resets_at)

\* store's three tests: not older, not of an older window, and no import of a
\* lower usage over a known one of the same window.
supersedes(old, value, observed, kind) ==
  /\ observed >= old.observed_at
  /\ ~(old.resets_at # NONE /\ value.resets_at # NONE /\ value.resets_at < old.resets_at)
  /\ ~(/\ kind = "import" /\ old.resets_at = value.resets_at
       /\ old.used_percent # NONE /\ value.used_percent # NONE
       /\ value.used_percent < old.used_percent)

\* One locked transaction on the file.
store(value, observed, kind) ==
  LET w == value.window
  IN  IF ~supersedes(windows[w], value, observed, kind) THEN UNCHANGED <<windows, known, vague>>
      ELSE
        /\ windows' = [windows EXCEPT ![w] =
             [observed_at |-> observed, session |-> value.session,
              used_percent |-> value.used_percent, resets_at |-> value.resets_at,
              source |-> kind]]
        /\ IF value.used_percent = NONE \/ value.resets_at = NONE
             THEN vague' = [vague EXCEPT ![w] = TRUE] /\ UNCHANGED known
           ELSE IF value.used_percent >= LIMIT
             THEN /\ known' = [known EXCEPT ![w] = value.resets_at]
                  /\ vague' = [vague EXCEPT ![w] = FALSE]
           ELSE /\ known' = [known EXCEPT ![w] = IF kind = "live" THEN NONE ELSE @]
                /\ UNCHANGED vague

\* The Observer takes the time before it asks for the cache's lock.
Observe(j) ==
  /\ read[j] < Len(streams[j]) /\ pending[j] = {}
  /\ pending' = [pending EXCEPT ![j] = {[event |-> streams[j][read[j] + 1], observed |-> now]}]
  /\ read' = [read EXCEPT ![j] = @ + 1]
  /\ UNCHANGED <<now, account, streams, mtime, refresh, windows, known, vague>>

StoreLive(j) ==
  /\ \E item \in pending[j] : store(item.event, item.observed, "live")
  /\ pending' = [pending EXCEPT ![j] = {}]
  /\ UNCHANGED <<now, account, streams, mtime, read, refresh>>

\* refresh_from_jobs: the candidates, each with its mtime as it was found.
ListCandidates ==
  /\ refresh = Idle
  /\ refresh' = [Idle EXCEPT !.candidates =
       {[job |-> j, modified |-> mtime[j]] : j \in {k \in Job : streams[k] # <<>>}}]
  /\ UNCHANGED <<now, account, streams, mtime, read, pending, windows, known, vague>>

\* Where the newest event of each window is.
Newest(stream) ==
  {k \in 1 .. Len(stream) :
     \A l \in 1 .. Len(stream) : l > k => stream[l].window # stream[k].window}

\* The candidates are sorted by mtime.
ReadStream ==
  /\ refresh.items = {} /\ refresh.ready = {}
  /\ \E candidate \in refresh.candidates :
       /\ \A other \in refresh.candidates : candidate.modified <= other.modified
       /\ LET stream == streams[candidate.job]
          IN  refresh' = [refresh EXCEPT
                !.candidates = @ \ {candidate},
                !.items = {[event |-> stream[k], place |-> k, observed |-> candidate.modified] :
                             k \in Newest(stream)}]
  /\ UNCHANGED <<now, account, streams, mtime, read, pending, windows, known, vague>>

\* An event the cache has already (event_sha256) is left out; the file is read
\* without its lock.
IsStored(event) ==
  /\ windows[event.window].session = event.session
  /\ windows[event.window].used_percent = event.used_percent
  /\ windows[event.window].resets_at = event.resets_at

\* The stream is read from its end.
CheckStored ==
  /\ refresh.ready = {}
  /\ \E item \in refresh.items :
       /\ \A other \in refresh.items : other.place <= item.place
       /\ refresh' = [refresh EXCEPT
            !.items = @ \ {item},
            !.ready = IF IsStored(item.event) THEN {} ELSE {item}]
  /\ UNCHANGED <<now, account, streams, mtime, read, pending, windows, known, vague>>

StoreImport ==
  /\ \E item \in refresh.ready : store(item.event, item.observed, "import")
  /\ refresh' = [refresh EXCEPT !.ready = {}]
  /\ UNCHANGED <<now, account, streams, mtime, read, pending>>

-----------------------------------------------------------------------------
(* status and the gate of start and revise.                                *)

rejected(value) == value.source # "none" /\ value.used_percent = NONE

\* Mutant: a hold does not look at its reset.
held_until_lifted(value) == rejected(value) \/ value.used_percent >= LIMIT

\* A window at its limit pauses until its known reset.
held(value) ==
  /\ rejected(value) \/ value.used_percent >= LIMIT
  /\ ~(value.resets_at # NONE /\ now >= value.resets_at)

\* quota_gate refuses a new call when a window is held.
quota_gate == \A w \in Window : ~held(windows[w])

-----------------------------------------------------------------------------
Next ==
  \/ Tick
  \/ (\E w \in Window : Consume(w))
  \/ (\E j \in Job, w \in Window, how \in {"usage", "rejected", "no_reset"} : Report(j, w, how))
  \/ (\E j \in Job : Write(j) \/ Observe(j) \/ StoreLive(j))
  \/ ListCandidates \/ ReadStream \/ CheckStored \/ StoreImport

Spec == Init /\ [][Next]_vars

-----------------------------------------------------------------------------
(* Properties.                                                             *)

\* A usage known to be at the limit pauses new calls until its reset, whatever
\* streams are imported after it and whatever their mtime, as long as no live
\* event takes it back and every stored event says its usage and its reset.
HoldOutlivesImports ==
  \A w \in Window : known[w] # NONE /\ now < known[w] /\ ~vague[w] => ~quota_gate

\* A call is paused by a window whose reset is known only while the account is
\* at its limit in the window that runs: no late observation, import or missed
\* reset pauses a fresh one.
PauseIsReal ==
  \A w \in Window :
    held(windows[w]) /\ windows[w].resets_at # NONE => account[w].used >= LIMIT

-----------------------------------------------------------------------------
(* The inductive invariant.                                                *)

Event == [session : Job, window : Window,
          used_percent : Used \cup {NONE}, resets_at : Nat \cup {NONE}]
Candidate == [job : Job, modified : Nat]
Stamped == [event : Event, observed : Nat]
Item == [event : Event, place : Nat, observed : Nat]
CacheEntry == [observed_at : Nat, session : Job \cup {"none"}, used_percent : Used \cup {NONE},
               resets_at : Nat \cup {NONE}, source : {"none", "live", "import"}]

TypeOK ==
  /\ now \in Nat
  /\ account \in [Window -> [used : Used, reset : Nat]]
  /\ streams \in [Job -> Seq(Event)] /\ mtime \in [Job -> Nat]
  /\ read \in [Job -> Nat]
  /\ pending \in [Job -> SUBSET Stamped]
  /\ refresh \in [candidates : SUBSET Candidate, items : SUBSET Item, ready : SUBSET Item]
  /\ windows \in [Window -> CacheEntry]
  /\ known \in [Window -> Nat \cup {NONE}]
  /\ vague \in [Window -> BOOLEAN]

\* What was once said of a window has no reset ahead, or is about the window
\* that runs: then a usage at the limit is still there.
Dated(w, value) ==
  \/ value.resets_at <= now
  \/ /\ value.resets_at = account[w].reset
     /\ (value.used_percent = NONE \/ value.used_percent >= LIMIT) => account[w].used >= LIMIT

\* So does every event that is written, stamped, found or stored.
EventsAreDated ==
  /\ \A j \in Job : \A k \in 1 .. Len(streams[j]) :
       Dated(streams[j][k].window, streams[j][k])
  /\ \A j \in Job : \A item \in pending[j] : Dated(item.event.window, item.event)
  /\ \A item \in refresh.items \cup refresh.ready : Dated(item.event.window, item.event)
  /\ \A w \in Window : Dated(w, windows[w])

\* A known high usage is the one the cache holds, for the window that runs.
KnownIsHeld ==
  \A w \in Window :
    known[w] # NONE /\ now < known[w] /\ ~vague[w] =>
      /\ known[w] = account[w].reset /\ windows[w].resets_at = known[w]
      /\ windows[w].used_percent >= LIMIT

IInv == TypeOK /\ EventsAreDated /\ KnownIsHeld

=============================================================================
