--------------------------- MODULE RoundEvidence ---------------------------
(***************************************************************************)
(* What is known of a Claude round while it runs and what is concluded     *)
(* when it ends.  The provider appends rows to stdout.ndjson; its hooks,   *)
(* processes of their own, append to hooks.ndjson under the StateLock; the *)
(* worker's Monitor drains both files and saves events to monitor.json.    *)
(* When the provider has exited the worker verifies the round from the     *)
(* same stdout and the session's transcript, which the CLI flushes when it *)
(* likes.                                                                  *)
(*                                                                         *)
(* The module follows one round, the second of its job: an earlier one has *)
(* left hook processes and a caller's cursor behind, and a later one may   *)
(* supersede it.  The job's phases and processes are those of DelegateJob, *)
(* reduced to what the evidence depends on: busy, finalized,               *)
(* stop_requested.                                                         *)
(***************************************************************************)
EXTENDS Naturals, FiniteSets, SequencesExt

CONSTANTS
  MaxRows,         \* bound on the rows of the stream
  MaxHooks,        \* bound on the hooks of the round
  MaxCheckpoints  \* how many of the two checkpoints may fall due

ASSUME BoundsAssumption == MaxRows \in Nat /\ MaxHooks \in Nat /\ MaxCheckpoints \in 0 .. 2

Earlier == 0
This == 1
Later == 2
Round == {Earlier, This, Later}

\* Rows of the stream as the Monitor and the verifier tell them apart:
\* "synthetic" is an assistant row of another model, "failure" a result that is
\* an error or of another session, "malformed" a line that is not a JSON object.
\* The tail is what stands behind the last newline: nothing, a piece of a row, which
\* is malformed as it stands, or a row that lacks nothing but its newline.
Row == {"assistant", "synthetic", "tool_failed", "tool_ok", "success", "failure", "malformed"}
ResultRow == {"success", "failure"}
LastPiece == Row \cup {"none"}
\* "Interrupt" is a failure hook with is_interrupt set.
HookName == {"PostToolUseFailure", "StopFailure", "Interrupt"}

VARIABLES
  round,    \* the current round in job.json
  stdout,   \* stdout.ndjson of the round: its terminated rows and its tail
  hooks,    \* hooks.ndjson of the round
  firing,   \* hook processes that have not taken the StateLock yet
  fired,    \* history: the hooks that fired
  monitor,  \* the worker's Monitor: where it is and how far it has read
  incidents,  \* what it makes of what it read
  saved,    \* the events in monitor.json
  seen      \* history: the rows the Monitor has read

vars == <<round, stdout, hooks, firing, fired, monitor, incidents, saved, seen>>

\* The transcript verify_round reads: whether the baseline and the file are
\* usable, the kinds of the entries that are new since the baseline, and
\* whether the real ones are exactly the assistant rows of the stream.
EntryKind == {"max", "weaker", "unmarked", "placeholder"}
NoTranscript == [usable |-> FALSE, kinds |-> {}, whole |-> FALSE]
Transcript ==
  {NoTranscript} \cup
    {t \in [usable : {TRUE}, kinds : SUBSET EntryKind, whole : BOOLEAN] :
       t.whole => "placeholder" \in t.kinds}

NewMonitor ==
  [at |-> "waiting", complete |-> FALSE, stdout_offset |-> 0, hooks_offset |-> 0]
NoIncidents ==
  [seen_errors |-> {}, incident_active |-> FALSE, events |-> <<>>, checkpoints |-> 0]

NewRound(index) ==
  [index |-> index, busy |-> TRUE, finalized |-> FALSE, stop_requested |-> FALSE,
   provider |-> "running", exit |-> "none", verified |-> FALSE, ok |-> FALSE]

\* The earlier round has settled; a hook process of it that reports a failure may
\* still be on its way.
Init ==
  /\ round = NewRound(This)
  /\ stdout = [rows |-> <<>>, tail |-> "none"]
  /\ hooks = <<>>
  /\ \E name \in HookName \ {"Interrupt"} : firing = {[round |-> Earlier, hook |-> name]}
  /\ fired = firing
  /\ monitor = NewMonitor
  /\ incidents = NoIncidents
  /\ saved = <<>>
  /\ seen = <<>>

-----------------------------------------------------------------------------
(* The provider and its hooks.                                             *)

ProviderRuns == round.provider = "running"

\* The lines that one who reads to the end of the file finds.
Lines == stdout.rows \o (IF stdout.tail = "none" THEN <<>> ELSE <<stdout.tail>>)

\* Some bytes of a row, or all but its newline, reach the file.
BeginRow(text) ==
  /\ ProviderRuns /\ stdout.tail = "none" /\ Len(stdout.rows) < MaxRows
  /\ stdout' = [stdout EXCEPT !.tail = text]
  /\ UNCHANGED <<round, hooks, firing, fired, monitor, incidents, saved, seen>>

EndRow(row) ==
  /\ ProviderRuns /\ stdout.tail \in {"malformed", row}
  /\ stdout' = [rows |-> Append(stdout.rows, row), tail |-> "none"]
  /\ UNCHANGED <<round, hooks, firing, fired, monitor, incidents, saved, seen>>

FireHook(name) ==
  /\ ProviderRuns
  /\ Cardinality({item \in fired : item.round = round.index}) < MaxHooks
  /\ firing' = firing \cup {[round |-> round.index, hook |-> name]}
  /\ fired' = fired \cup {[round |-> round.index, hook |-> name]}
  /\ UNCHANGED <<round, stdout, hooks, monitor, incidents, saved, seen>>

\* Mutant: the round's state is not looked at.
AcceptsAnyHook(hook) == TRUE

\* record_hook's guard: the current round, neither finalized nor being stopped.
AcceptsHook(hook) ==
  hook.round = round.index /\ ~round.finalized /\ ~round.stop_requested

record_hook(hook) ==
  /\ hook \in firing
  /\ firing' = firing \ {hook}
  /\ hooks' = IF AcceptsHook(hook) THEN Append(hooks, hook) ELSE hooks
  /\ UNCHANGED <<round, stdout, fired, monitor, incidents, saved, seen>>

\* The provider exits, by itself or killed by the worker's timeout; the tail stays
\* as it is.
ProviderExits(how) ==
  /\ ProviderRuns
  /\ round' = [round EXCEPT !.provider = "gone", !.exit = IF @ = "none" THEN how ELSE @]
  /\ UNCHANGED <<stdout, hooks, firing, fired, monitor, incidents, saved, seen>>

\* The timeout's signals do not end it within ten seconds: the round goes on to
\* its verdict beside a provider that still writes.
KillFails ==
  /\ ProviderRuns /\ monitor.at = "waiting" /\ round.exit = "none"
  /\ round' = [round EXCEPT !.exit = "other"]
  /\ UNCHANGED <<stdout, hooks, firing, fired, monitor, incidents, saved, seen>>

-----------------------------------------------------------------------------
(* The Monitor.                                                            *)

\* Monitor.error: a burst of failures is one event, the same failure is one
\* event of the round, and a terminal failure surfaces inside a burst too.
error(m, signature, fatal) ==
  [m EXCEPT !.events = IF signature \notin m.seen_errors /\ (fatal \/ ~m.incident_active)
                       THEN Append(@, IF fatal THEN "fatal" ELSE "error") ELSE @,
            !.seen_errors = @ \cup {signature},
            !.incident_active = TRUE]

\* Monitor.hook and Monitor.stream.
hook(m, item) ==
  IF item.hook = "Interrupt" THEN m ELSE error(m, item.hook, item.hook = "StopFailure")

stream(m, row) ==
  IF row = "tool_failed" THEN error(m, "tool_result", FALSE)
  ELSE IF row = "tool_ok" THEN [m EXCEPT !.incident_active = FALSE]
  ELSE m

\* Mutant: a line without its newline is read with the rest.
drained_with_tail == Lines

\* Monitor.drain stops before a line that has no newline yet.
drained == stdout.rows

\* A tick starts; complete is the one after the wait.
BeginTick(complete) ==
  /\ monitor.at = "waiting"
  /\ complete => round.exit # "none"
  /\ monitor' = [monitor EXCEPT !.at = "hooks", !.complete = complete]
  /\ UNCHANGED <<round, stdout, hooks, firing, fired, incidents, saved, seen>>

\* hooks.ndjson is read line by line, until there is none.
DrainHook ==
  /\ monitor.at = "hooks" /\ monitor.hooks_offset < Len(hooks)
  /\ incidents' = hook(incidents, hooks[monitor.hooks_offset + 1])
  /\ monitor' = [monitor EXCEPT !.hooks_offset = @ + 1]
  /\ UNCHANGED <<round, stdout, hooks, firing, fired, saved, seen>>

HooksDrained ==
  /\ monitor.at = "hooks" /\ monitor.hooks_offset = Len(hooks)
  /\ monitor' = [monitor EXCEPT !.at = "stream"]
  /\ UNCHANGED <<round, stdout, hooks, firing, fired, incidents, saved, seen>>

\* Then stdout.ndjson.
DrainRow ==
  /\ monitor.at = "stream" /\ monitor.stdout_offset < Len(drained)
  /\ LET row == drained[monitor.stdout_offset + 1]
     IN  incidents' = stream(incidents, row) /\ seen' = Append(seen, row)
  /\ monitor' = [monitor EXCEPT !.stdout_offset = @ + 1]
  /\ UNCHANGED <<round, stdout, hooks, firing, fired, saved>>

\* The 10 and the 15 minute checkpoint, those that are due: either may be late.
Checkpointed(m, due) ==
  [m EXCEPT !.checkpoints = @ + due,
            !.events = @ \o [k \in 1 .. due |-> "checkpoint"]]

\* The end of a tick: the checkpoints and monitor.json.
EndTick(due) ==
  /\ monitor.at = "stream" /\ monitor.stdout_offset = Len(drained)
  /\ incidents.checkpoints + due <= MaxCheckpoints
  /\ monitor.complete => due = 0
  /\ incidents' = Checkpointed(incidents, due)
  /\ saved' = incidents'.events
  /\ monitor' = [monitor EXCEPT !.at = IF monitor.complete THEN "done" ELSE "waiting"]
  /\ UNCHANGED <<round, stdout, hooks, firing, fired, seen>>

-----------------------------------------------------------------------------
(* The verdict.                                                            *)

\* parse_stream strips each line: a tail that is a whole row is read like any other.
parse_stream(lines) ==
  [assistants |-> Cardinality({k \in DOMAIN lines : lines[k] = "assistant"}),
   synthetic |-> \E k \in DOMAIN lines : lines[k] = "synthetic",
   results |-> {k \in DOMAIN lines : lines[k] \in ResultRow},
   parse_errors |-> \E k \in DOMAIN lines : lines[k] = "malformed"]

TranscriptReasons(t, bound) ==
  IF ~t.usable THEN {"transcript_unusable"}
  ELSE IF t.kinds = {} THEN {"no_new_assistant_entries"}
  ELSE (IF "placeholder" \in t.kinds /\ ~bound
          THEN {"placeholder_binding_failed", "effort_missing"} ELSE {})
         \cup (IF "unmarked" \in t.kinds THEN {"effort_missing"} ELSE {})
         \cup (IF "weaker" \in t.kinds THEN {"effort_not_max"} ELSE {})

\* Mutant: placeholders are left out beside any entries at max.
verify_transcript_unbound(t, summary) ==
  TranscriptReasons(t, t.kinds \ {"placeholder"} = {"max"})

\* verify_transcript: placeholders are left out only when the real entries are
\* the stream's and all at max.
verify_transcript(t, summary) ==
  TranscriptReasons(t, /\ t.whole /\ t.kinds \ {"placeholder"} = {"max"}
                       /\ summary.assistants > 0 /\ ~summary.synthetic)

SOFT_REASONS == {"transcript_unusable", "no_new_assistant_entries", "effort_missing"}

LastFails(results) ==
  \E k \in results : Lines[k] = "failure" /\ \A l \in results : l <= k

reasons(t) ==
  LET summary == parse_stream(Lines)
      results == summary.results
  IN  (IF summary.parse_errors THEN {"stream_parse_errors"} ELSE {})
        \cup (IF round.exit # "zero" THEN {"exit_code"} ELSE {})
        \cup (IF Cardinality(results) # 1 THEN {"result_events"} ELSE {})
        \cup (IF LastFails(results) THEN {"result_is_error"} ELSE {})
        \cup (IF summary.assistants = 0 /\ ~summary.synthetic THEN {"no_assistant_events"} ELSE {})
        \cup (IF summary.synthetic THEN {"assistant_model"} ELSE {})
        \cup verify_transcript(t, summary)

Passes(t) == reasons(t) = {}
NeedsAttention(t) == ~Passes(t) /\ reasons(t) \subseteq SOFT_REASONS

\* verify_round and complete_round: a round being stopped keeps its phase.
CompleteRound ==
  /\ monitor.at = "done"
  /\ \E t \in Transcript :
       round' = [round EXCEPT !.verified = TRUE, !.ok = Passes(t), !.finalized = TRUE,
                               !.busy = round.stop_requested /\ @]
  /\ monitor' = [monitor EXCEPT !.at = "gone"]
  /\ UNCHANGED <<stdout, hooks, firing, fired, incidents, saved, seen>>

-----------------------------------------------------------------------------
(* The job around it.                                                      *)

WorkerGone == monitor.at = "gone"

\* The next line is longer than the Monitor's bound, terminated or not: tick raises,
\* the worker records its own failure and leaves the provider.
MonitorRaises ==
  /\ monitor.at = "stream" /\ monitor.stdout_offset < Len(Lines)
  /\ monitor' = [monitor EXCEPT !.at = "gone"]
  /\ round' = [round EXCEPT !.finalized = @ \/ ~round.stop_requested,
                            !.busy = round.stop_requested /\ @]
  /\ UNCHANGED <<stdout, hooks, firing, fired, incidents, saved, seen>>

WorkerDies ==
  /\ ~WorkerGone
  /\ monitor' = [monitor EXCEPT !.at = "gone"]
  /\ UNCHANGED <<round, stdout, hooks, firing, fired, incidents, saved, seen>>

reconcile ==
  /\ round.busy /\ WorkerGone /\ ~round.finalized
  /\ round' = [round EXCEPT !.busy = FALSE]
  /\ UNCHANGED <<stdout, hooks, firing, fired, monitor, incidents, saved, seen>>

RequestStop ==
  /\ ~round.stop_requested
  /\ round' = [round EXCEPT !.stop_requested = TRUE]
  /\ UNCHANGED <<stdout, hooks, firing, fired, monitor, incidents, saved, seen>>

\* The processes are signalled; what is left is reported as stop_incomplete.
FinishStop(remaining) ==
  /\ round.stop_requested
  /\ remaining => ProviderRuns \/ ~WorkerGone
  /\ round' = [round EXCEPT !.busy = FALSE, !.finalized = @ \/ ~remaining,
                            !.provider = IF remaining THEN @ ELSE "gone",
                            !.exit = IF @ = "none" /\ ~remaining THEN "other" ELSE @]
  /\ monitor' = [monitor EXCEPT !.at = IF remaining THEN @ ELSE "gone"]
  /\ UNCHANGED <<stdout, hooks, firing, fired, incidents, saved, seen>>

\* A revise; the round it opens is followed no further than that it is busy.
revise ==
  /\ ~round.busy /\ ~ProviderRuns /\ WorkerGone /\ round.index = This
  /\ round' = [NewRound(Later) EXCEPT !.provider = "gone"]
  /\ stdout' = [rows |-> <<>>, tail |-> "none"]
  /\ hooks' = <<>> /\ seen' = <<>>
  /\ monitor' = [NewMonitor EXCEPT !.at = "gone"]
  /\ incidents' = NoIncidents
  /\ saved' = <<>>
  /\ UNCHANGED <<firing, fired>>

-----------------------------------------------------------------------------
Next ==
  \/ (\E row \in Row : BeginRow(row) \/ EndRow(row))
  \/ (\E name \in HookName : FireHook(name)) \/ (\E item \in firing : record_hook(item))
  \/ (\E how \in {"zero", "other"} : ProviderExits(how))
  \/ KillFails
  \/ (\E complete \in BOOLEAN : BeginTick(complete)) \/ DrainHook \/ HooksDrained
  \/ DrainRow \/ (\E due \in 0 .. 2 : EndTick(due))
  \/ CompleteRound
  \/ MonitorRaises \/ WorkerDies \/ reconcile
  \/ RequestStop \/ (\E remaining \in BOOLEAN : FinishStop(remaining)) \/ revise

Spec == Init /\ [][Next]_vars

-----------------------------------------------------------------------------
(* Properties.                                                             *)

\* The Monitor reads every terminated row once and in order, whatever was half
\* written when it looked.  A verdict that passes rests on rows that were all
\* monitored, but for one: a last row whose newline never came is a row of the
\* verdict that no Monitor handled.
EveryRowIsHandledOnce ==
  /\ IsPrefix(seen, stdout.rows)
  /\ round.ok => seen = stdout.rows /\ stdout.tail # "malformed"

Occurrences(sequence, value) == Cardinality({k \in DOMAIN sequence : sequence[k] = value})

\* The events of a round are its incidents: a terminal failure was fired by
\* this round's provider, not by a late hook of another; a burst of tool
\* failures is one event until a tool succeeds; no failure the Monitor
\* handled leaves the round without an event; and what readers of monitor.json
\* have seen behind their cursor is never taken back, nor lost at the end.
EventsAreIncidents ==
  LET events == incidents.events
      failed == "tool_failed" \in Range(seen)
  IN  /\ "fatal" \in Range(events) => [round |-> round.index, hook |-> "StopFailure"] \in fired
      /\ "error" \in Range(events) =>
           failed \/ [round |-> round.index, hook |-> "PostToolUseFailure"] \in fired
      /\ Occurrences(events, "error") <= 1 + Occurrences(seen, "tool_ok")
      /\ failed => \E k \in DOMAIN events : events[k] \in {"error", "fatal"}
      /\ IsPrefix(saved, events)
      /\ monitor.at = "done" => saved = events

\* verify_round's contract: "A round passes only when every independent signal
\* agrees", with the stream read line by line to the end of the file.
SignalsAgree(t) ==
  LET result == {k \in DOMAIN Lines : Lines[k] \in ResultRow}
  IN  /\ round.exit = "zero"
      /\ \A k \in DOMAIN Lines : Lines[k] \notin {"malformed", "synthetic"}
      /\ \E k \in DOMAIN Lines : Lines[k] = "assistant"
      /\ \E k \in result : result = {k} /\ Lines[k] = "success"
      /\ t.usable /\ "max" \in t.kinds
      /\ t.kinds \subseteq (IF t.whole THEN {"max", "placeholder"} ELSE {"max"})

\* What the stream alone shows to have failed.
StreamFailed ==
  \/ round.exit # "zero"
  \/ \E k \in DOMAIN Lines : Lines[k] \in {"failure", "synthetic", "malformed"}
  \/ {"assistant", "success"} \ Range(Lines) # {}

\* Whatever the transcript holds when a monitored round is verified, the round
\* passes exactly when the signals agree, and is left to attention only when
\* the transcript is inconclusive and nothing in the stream failed.
VerdictIsTheEvidence ==
  monitor.at = "done" =>
    \A t \in Transcript :
      /\ Passes(t) <=> SignalsAgree(t)
      /\ NeedsAttention(t) => ~StreamFailed /\ "weaker" \notin t.kinds

-----------------------------------------------------------------------------
(* The inductive invariant.                                                *)

Hook == [round : Round, hook : HookName]

RoundRecord ==
  [index : Round, busy : BOOLEAN, finalized : BOOLEAN, stop_requested : BOOLEAN,
   provider : {"running", "gone"}, exit : {"none", "zero", "other"},
   verified : BOOLEAN, ok : BOOLEAN]

Place == {"waiting", "hooks", "stream", "done", "gone"}
MonitorRecord == [at : Place, complete : BOOLEAN, stdout_offset : Nat, hooks_offset : Nat]

EventKinds == {"error", "fatal", "checkpoint"}
IncidentRecord ==
  [seen_errors : SUBSET (HookName \cup {"tool_result"}), incident_active : BOOLEAN,
   events : Seq(EventKinds), checkpoints : Nat]

TypeOK ==
  /\ round \in RoundRecord
  /\ stdout \in [rows : Seq(Row), tail : LastPiece]
  /\ hooks \in Seq(Hook) /\ firing \subseteq Hook /\ fired \subseteq Hook
  /\ monitor \in MonitorRecord
  /\ incidents \in IncidentRecord /\ saved \in Seq(EventKinds)
  /\ seen \in Seq(Row)

\* The Monitor has read what lies before its offset.
SeenIsRead ==
  /\ monitor.stdout_offset <= Len(stdout.rows)
  /\ seen = SubSeq(stdout.rows, 1, monitor.stdout_offset)

\* The tick after the wait sees the whole stream of a provider that exited by
\* itself; one that outlives its timeout has no clean exit.
LastTickIsWhole ==
  /\ round.exit = "zero" => ~ProviderRuns
  /\ monitor.at \in {"hooks", "stream", "done"} /\ monitor.complete => round.exit # "none"
  /\ monitor.at = "done" =>
       monitor.complete /\ (round.exit = "zero" => seen = stdout.rows)
  /\ round.ok => ~ProviderRuns /\ seen = stdout.rows /\ stdout.tail # "malformed"

ReadingInv == TypeOK /\ SeenIsRead /\ LastTickIsWhole

\* hooks.ndjson holds hooks of this round that fired.
HooksAreOurs ==
  /\ firing \subseteq fired
  /\ \A k \in 1 .. Len(hooks) : hooks[k].round = round.index /\ hooks[k] \in fired

\* The hooks this round fired.
Ours == {name \in HookName : [round |-> round.index, hook |-> name] \in fired}

\* What m announces has its cause in the rows and hooks that were read; a burst
\* that goes on has used up the event that the next success allows again; and
\* whoever is in a burst, or has seen an error, has announced one.
CausesAreSeen(m, rows, names) ==
  /\ "fatal" \in Range(m.events) => "StopFailure" \in names
  /\ "error" \in Range(m.events) => "tool_failed" \in Range(rows) \/ "PostToolUseFailure" \in names
  /\ Occurrences(m.events, "error") <= 1 + Occurrences(rows, "tool_ok")
  /\ ~m.incident_active => Occurrences(m.events, "error") <= Occurrences(rows, "tool_ok")
  /\ "tool_failed" \in Range(rows) => "tool_result" \in m.seen_errors
  /\ m.incident_active \/ m.seen_errors # {} =>
       "error" \in Range(m.events) \/ "fatal" \in Range(m.events)

\* Events are only added, and what is added is saved when the tick ends.
SavedIsBehind ==
  /\ Len(saved) <= Len(incidents.events)
  /\ \A k \in 1 .. Len(saved) : saved[k] = incidents.events[k]
  /\ monitor.at = "done" => saved = incidents.events

AnnouncedInv == HooksAreOurs /\ CausesAreSeen(incidents, seen, Ours) /\ SavedIsBehind

IInv == ReadingInv /\ AnnouncedInv

=============================================================================
