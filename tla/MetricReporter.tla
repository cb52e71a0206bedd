--------------------------- MODULE MetricReporter ---------------------------
(***************************************************************************)
(* The metrics.rs bridge (metrique-metricsrs): a MetricRecorder whose        *)
(* counters, gauges and histogram buckets are atomics that any thread        *)
(* updates, read out into entries of a sink                                 *)
(*   - by the task of a MetricReporter, every publish interval and once more *)
(*     when it is shut down, or                                            *)
(*   - by the calls of flush_metrics of a Lambda reporter.                   *)
(*                                                                         *)
(* The sink is any sink that keeps the EntrySink contract; BackgroundQueue   *)
(* is proved to be one. A readout is not a snapshot: it visits one atomic    *)
(* after the other while threads go on recording, and two calls of           *)
(* flush_metrics may read out at the same time.                              *)
(***************************************************************************)
EXTENDS Integers, Sequences, FiniteSets, FiniteSetsExt, Functions

CONSTANTS Counters, Gauges, Buckets,   (* the atomics of the registry       *)
          Flushes,                     (* the calls of flush, flush_metrics *)
          ReporterFlushes,             (* bound: the ones that may be flush *)
          Capacity,                    (* entries the sink's buffer holds   *)
          Setups,                      (* the ways to build a reporter      *)
          MaxRecords, MaxTicks         (* bounds: updates; periodic entries *)

ASSUME ReporterAssumption ==
  /\ IsFiniteSet(Flushes) /\ "task" \notin Flushes
  /\ Capacity \in Nat \ {0} /\ MaxRecords \in Nat

Atomics == Counters \cup Gauges \cup Buckets
Readers == Flushes \cup {"task"}

VARIABLES
  setup,      (* how the reporter was built                              *)
  cell,       (* cell[a]: value of atomic a                              *)
  pc,         (* pc[r]: where reader r is                                *)
  todo,       (* todo[r]: atomics its readout has not visited            *)
  got,        (* got[r]: what its readout found so far                   *)
  entries,    (* the k-th entry appended to the sink                     *)
  ticks,      (* periodic entries published                              *)
  cancelled,  (* the cancellation token of the reporter                  *)
  stopped,    (* progress of the call of shutdown()                      *)
  recorded,   (* history: what was recorded in each atomic               *)
  promised,   (* history: recorded, when the call of r was made          *)
  overlapped, (* history: calls that read out at the same time           *)
  \* the sink
  appended, buffer, writing, written, durable, dropped, wait, owed, asked, due, life

Sink == INSTANCE EntrySink

own == <<setup, cell, pc, todo, got, entries, ticks, cancelled, stopped,
         recorded, promised, overlapped>>
readout == <<todo, got, entries>>
history == <<recorded, promised, overlapped>>
still == <<setup, cell, readout, ticks, cancelled, stopped, history>>   (* all of own but pc *)
sink == <<appended, buffer, writing, written, durable, dropped, wait, owed, asked, due, life>>
vars == <<own, sink>>

Nothing == [a \in Atomics |-> 0]

Init ==
  /\ setup \in Setups
  /\ cell = Nothing
  /\ pc = [r \in Readers |-> IF r = "task" THEN "building" ELSE "idle"]
  /\ todo = [r \in Readers |-> {}]
  /\ got = [r \in Readers |-> Nothing]
  /\ entries = <<>>
  /\ ticks = 0
  /\ cancelled = FALSE
  /\ stopped = "no"
  /\ recorded = Nothing
  /\ promised = [r \in Readers |-> Nothing]
  /\ overlapped = {}
  /\ Sink!Init

-----------------------------------------------------------------------------
(* Building and recording.                                                 *)

(* metrics_sink((sink, handle)): `let _ = handle` reads nothing, so the      *)
(* closure does not capture the handle and metrics_sink itself drops it: the *)
(* sink is shut down before the reporter is built.                           *)
MetricsSink ==
  /\ setup = "handle"
  /\ pc["task"] = "building"
  /\ Sink!Ask
  /\ UNCHANGED own

(* MetricReporter::new spawns the task; install_reporter fills the OnceLock. *)
New ==
  /\ pc["task"] = "building"
  /\ setup = "handle" => asked /\ life \in {"stopped", "cut"}
  /\ pc' = [pc EXCEPT !["task"] = IF setup = "lambda" THEN "installed" ELSE "sleeping"]
  /\ UNCHANGED <<still, sink>>

(* A thread increments a counter, records in a histogram, or sets a gauge:   *)
(* the n-th value of a gauge is n.                                           *)
Record(a) ==
  /\ pc["task"] # "building"
  /\ recorded[a] < MaxRecords
  /\ recorded' = [recorded EXCEPT ![a] = @ + 1]
  /\ cell' = [cell EXCEPT ![a] = IF a \in Gauges THEN recorded[a] + 1 ELSE @ + 1]
  /\ UNCHANGED <<setup, pc, readout, ticks, cancelled, stopped, promised, overlapped, sink>>

-----------------------------------------------------------------------------
(* Reading out: the steps of MetricRecorder::readout in reader r.            *)

IsReading(r) == pc[r] \in {"reading", "last"}

StartReading(r, at) ==
  /\ pc' = [pc EXCEPT ![r] = at]
  /\ todo' = [todo EXCEPT ![r] = Atomics]
  /\ got' = [got EXCEPT ![r] = Nothing]
  /\ LET others == {o \in Readers \ {r} : IsReading(o)}
     IN overlapped' = IF others = {} THEN overlapped ELSE overlapped \cup others \cup {r}

(* Counters first, then gauges, then histograms. *)
Phase(T) == CASE T \cap Counters # {} -> T \cap Counters
              [] T \cap Counters = {} /\ T \cap Gauges # {} -> T \cap Gauges
              [] OTHER -> T

(* Mutation: the value is loaded and never reset. *)
LeaveValue(a) == cell

(* A counter or bucket is swapped with zero, a gauge only loaded. *)
TakeValue(a) == [cell EXCEPT ![a] = IF a \in Gauges THEN @ ELSE 0]

Visit(r, a) ==
  /\ IsReading(r)
  /\ a \in Phase(todo[r])
  /\ got' = [got EXCEPT ![r][a] = cell[a]]
  /\ cell' = TakeValue(a)
  /\ todo' = [todo EXCEPT ![r] = @ \ {a}]
  /\ UNCHANGED <<setup, pc, entries, ticks, cancelled, stopped, recorded, promised,
                 overlapped, sink>>

(* destination.append(recorder.readout()) *)
Publish(r) ==
  /\ IsReading(r)
  /\ todo[r] = {}
  /\ entries' = Append(entries, got[r])
  /\ got' = [got EXCEPT ![r] = Nothing]
  /\ Sink!AppendEntry
  /\ pc' = [pc EXCEPT ![r] = IF r # "task" THEN "flush"
                             ELSE IF @ = "last" THEN "shutting" ELSE "sleeping"]
  /\ UNCHANGED <<setup, cell, todo, ticks, cancelled, stopped, history>>

-----------------------------------------------------------------------------
(* MetricReporter: the task of spawn_metric_reporter, shutdown() and flush() *)

Tick ==
  /\ pc["task"] = "sleeping"
  /\ ticks < MaxTicks
  /\ ticks' = ticks + 1
  /\ StartReading("task", "reading")
  /\ UNCHANGED <<setup, cell, entries, cancelled, stopped, recorded, promised, sink>>

(* Mutation: the loop's end goes straight to the shutdown handle. *)
LeaveWithoutReading ==
  /\ pc["task"] = "sleeping"
  /\ cancelled
  /\ pc' = [pc EXCEPT !["task"] = "shutting"]
  /\ UNCHANGED <<still, sink>>

(* The task sees the token: it leaves the loop and publishes once more. *)
LeaveLoop ==
  /\ pc["task"] = "sleeping"
  /\ cancelled
  /\ StartReading("task", "last")
  /\ UNCHANGED <<setup, cell, entries, ticks, cancelled, stopped, recorded, promised, sink>>

Shutdown ==
  /\ pc["task"] \notin {"building", "installed"}
  /\ stopped = "no"
  /\ cancelled' = TRUE
  /\ stopped' = "called"
  /\ promised' = [promised EXCEPT !["task"] = recorded]
  /\ UNCHANGED <<setup, cell, pc, readout, ticks, recorded, overlapped, sink>>

(* The shutdown handle shuts the sink down, unless it is the caller's to do. *)
RunHandle ==
  /\ pc["task"] = "shutting"
  /\ setup = "stream"
  /\ Sink!Ask
  /\ UNCHANGED own

(* Mutation: the task waits for the sink to stop whoever shuts it down. *)
AwaitStop ==
  /\ pc["task"] = "shutting"
  /\ life \in {"stopped", "cut"}
  /\ pc' = [pc EXCEPT !["task"] = "done"]
  /\ UNCHANGED <<still, sink>>

(* The handle returns, whether or not it panicked, and the task ends. *)
TaskEnds ==
  /\ pc["task"] = "shutting"
  /\ setup = "stream" => asked /\ life \in {"stopped", "cut"}
  /\ pc' = [pc EXCEPT !["task"] = "done"]
  /\ UNCHANGED <<still, sink>>

(* tasks.wait() returns when the tracker, closed by new, has no task left. *)
ShutdownReturns ==
  /\ stopped = "called"
  /\ pc["task"] = "done"
  /\ stopped' = "returned"
  /\ UNCHANGED <<setup, cell, pc, readout, ticks, cancelled, recorded, promised, overlapped, sink>>

(* MetricReporter::flush flushes the sink; it reads nothing out. *)
Flush(f) ==
  /\ f \in ReporterFlushes
  /\ pc["task"] \notin {"building", "installed"}
  /\ pc[f] = "idle"
  /\ pc' = [pc EXCEPT ![f] = "flush"]
  /\ UNCHANGED <<still, sink>>

-----------------------------------------------------------------------------
(* Lambda: flush_metrics, and flush_async of either reporter.                *)

FlushMetrics(f) ==
  /\ pc["task"] = "installed"
  /\ pc[f] = "idle"
  /\ promised' = [promised EXCEPT ![f] = recorded]
  /\ StartReading(f, "reading")
  /\ UNCHANGED <<setup, cell, entries, ticks, cancelled, stopped, recorded, sink>>

(* "flushing metrics that are not initialized" *)
FlushMetricsFails(f) ==
  /\ setup = "lambda"
  /\ pc["task"] = "building"
  /\ pc[f] = "idle"
  /\ pc' = [pc EXCEPT ![f] = "error"]
  /\ UNCHANGED <<still, sink>>

(* Mutation: the call returns without awaiting the FlushWait. *)
FlushNotAwaited(f) ==
  /\ pc[f] = "flush"
  /\ Sink!Request(f)
  /\ pc' = [pc EXCEPT ![f] = "done"]
  /\ UNCHANGED still

FlushAsync(f) ==
  /\ pc[f] = "flush"
  /\ Sink!Request(f) \/ Sink!Refuse(f)
  /\ pc' = [pc EXCEPT ![f] = "waiting"]
  /\ UNCHANGED still

FlushReturns(f) ==
  /\ pc[f] = "waiting"
  /\ wait[f] = "resolved"
  /\ pc' = [pc EXCEPT ![f] = "done"]
  /\ UNCHANGED <<still, sink>>

-----------------------------------------------------------------------------
(* The sink works by itself, and closes only when it was asked to.           *)
SinkWorks ==
  /\ \/ Sink!Take \/ Sink!Write \/ Sink!Persist \/ Sink!Stop
     \/ asked /\ Sink!Close
     \/ \E F \in SUBSET Flushes : Sink!Resolve(F)
  /\ UNCHANGED own

SinkFails == Sink!CutShort /\ UNCHANGED own

TaskNext == \/ New \/ Tick \/ LeaveLoop \/ Publish("task") \/ RunHandle \/ TaskEnds
            \/ \E a \in Atomics : Visit("task", a)

FlushNext(f) ==
  \/ Publish(f) \/ FlushAsync(f) \/ FlushReturns(f)
  \/ \E a \in Atomics : Visit(f, a)

Next ==
  \/ MetricsSink \/ TaskNext \/ Shutdown \/ ShutdownReturns
  \/ \E a \in Atomics : Record(a)
  \/ \E f \in Flushes : Flush(f) \/ FlushMetrics(f) \/ FlushMetricsFails(f) \/ FlushNext(f)
  \/ SinkWorks \/ SinkFails

Spec == Init /\ [][Next]_vars

(* The runtime polls the task and the calls, and the sink's thread runs.     *)
FairSpec ==
  /\ Spec
  /\ WF_vars(TaskNext) /\ WF_vars(ShutdownReturns) /\ WF_vars(SinkWorks)
  /\ \A f \in Flushes : WF_vars(FlushNext(f))

-----------------------------------------------------------------------------
(* What the entries of es numbered in K say of atomic a. *)
ReportOf(es, a, K) ==
  IF a \in Gauges THEN Max({0} \cup {es[k][a] : k \in K})
  ELSE SumFunction([k \in K |-> es[k][a]])

(* An amount recorded in a counter or a histogram is in its atomic, in one   *)
(* readout under way or in one entry: none is lost and none counted twice,   *)
(* however recording threads and readouts interleave.                        *)
EachInOnePlace ==
  \A a \in Atomics \ Gauges :
    recorded[a] = cell[a] + SumFunction([r \in Readers |-> got[r][a]])
                  + ReportOf(entries, a, DOMAIN entries)

(* When shutdown() returns, what had been recorded when it was called is in  *)
(* entries appended to the sink and, if the reporter shuts the sink down     *)
(* itself, these are flushed (or were thrown out of a full buffer).          *)
ShutdownReports ==
  stopped = "returned" =>
    \A a \in Atomics :
      promised["task"][a] <=
        ReportOf(entries, a, IF setup = "stream" /\ life # "cut" THEN durable \cup dropped
                    ELSE DOMAIN entries)

(* When flush_metrics returns, what had been recorded when it was called is  *)
(* flushed. Not so for two calls at once: one may hold, not yet appended,    *)
(* what the other then no longer finds.                                      *)
FlushReports ==
  \A f \in Flushes \ overlapped :
    pc[f] = "done" /\ life # "cut" =>
      \A a \in Atomics : promised[f][a] <= ReportOf(entries, a, durable \cup dropped)

(* Reports are exact: see the three parts. *)
ReportsAreExact == EachInOnePlace /\ ShutdownReports /\ FlushReports

(* Calls of shutdown(), flush() and flush_metrics() return, whatever the     *)
(* sink does: also when it is cut short, or was shut down already.           *)
CallsReturn ==
  /\ stopped = "called" ~> stopped = "returned"
  /\ \A f \in Flushes : pc[f] \notin {"idle", "error"} ~> pc[f] = "done"

-----------------------------------------------------------------------------
(* The inductive invariant of the proofs, in five parts.                     *)

Shapes ==
  /\ cell \in [Atomics -> Nat] /\ recorded \in [Atomics -> 0..MaxRecords]
  /\ \A a \in Gauges : cell[a] = recorded[a]
  /\ DOMAIN pc = Readers
  /\ todo \in [Readers -> SUBSET Atomics]
  /\ got \in [Readers -> [Atomics -> Nat]]
  /\ promised \in [Readers -> [Atomics -> Nat]]
  /\ entries \in Seq([Atomics -> Nat])
  /\ \A r \in Readers, a \in Atomics : promised[r][a] <= recorded[a]
  /\ \A k \in DOMAIN entries, a \in Gauges : entries[k][a] <= MaxRecords

(* A readout holds nothing before it visits an atomic and after its entry is  *)
(* appended, and one that is not alone is noted.                             *)
ReadoutsAreNoted ==
  /\ overlapped \subseteq Flushes
  /\ \A r \in Readers :
       /\ ~IsReading(r) => got[r] = Nothing /\ todo[r] = {}
       /\ \A a \in todo[r] : got[r][a] = 0
       /\ \A a \in Gauges : got[r][a] <= MaxRecords
       /\ \A o \in Readers \ {r} : IsReading(r) /\ IsReading(o) => r \in overlapped

(* What the ways to build a reporter exclude, and how far each got. *)
SetupIsKept ==
  /\ setup = "lambda" =>
       /\ pc["task"] \in {"building", "installed"}
       /\ ~asked /\ life \in {"open", "cut"}
  /\ setup # "lambda" =>
       /\ pc["task"] # "installed"
       /\ \A f \in Flushes : ~IsReading(f) /\ promised[f] = Nothing
  /\ setup = "stream" =>
       /\ asked => pc["task"] \in {"shutting", "done"} /\ due = appended
       /\ pc["task"] = "done" => asked /\ life \in {"stopped", "cut"}
  /\ cancelled <=> stopped # "no"
  /\ pc["task"] \in {"last", "shutting", "done"} => cancelled
  /\ stopped = "returned" => pc["task"] = "done"
  /\ \A f \in Flushes : pc[f] # "last"

(* The sink's side of the promise. *)
SinkSettles ==
  /\ appended = Len(entries) /\ due \in 0..appended
  /\ buffer \in Seq(1..appended) /\ writing \in 0..appended
  /\ written \subseteq 1..appended /\ dropped \subseteq 1..appended
  /\ durable \subseteq written
  /\ DOMAIN wait = Flushes
  /\ owed \in [Flushes -> 0..appended]
  /\ life \in {"closing", "stopped"} => asked
  /\ life = "stopped" => Sink!Settled(due)
  /\ life = "open" =>
       \A f \in Flushes : wait[f] # "late" /\ (wait[f] = "resolved" => Sink!Settled(owed[f]))
  /\ \A f \in Flushes : pc[f] = "done" => wait[f] = "resolved"

(* What reader r and the entries numbered in K hold covers what r promised.   *)
Covered(r, a, K) ==
  IF a \in Gauges THEN promised[r][a] <= got[r][a] \/ promised[r][a] <= ReportOf(entries, a, K)
  ELSE promised[r][a] <= got[r][a] + ReportOf(entries, a, K)

(* From its visit of an atomic on, a reader that is alone covers its promise. *)
PromisesAreCovered ==
  /\ pc["task"] = "last" => \A a \in Atomics \ todo["task"] : Covered("task", a, DOMAIN entries)
  /\ pc["task"] \in {"shutting", "done"} => \A a \in Atomics : Covered("task", a, DOMAIN entries)
  /\ \A f \in Flushes \ overlapped :
       /\ pc[f] = "reading" => \A a \in Atomics \ todo[f] : Covered(f, a, DOMAIN entries)
       /\ pc[f] = "flush" => \A a \in Atomics : Covered(f, a, DOMAIN entries)
       /\ pc[f] \in {"waiting", "done"} => \A a \in Atomics : Covered(f, a, 1..owed[f])

ReportsInv ==
  Shapes /\ ReadoutsAreNoted /\ SetupIsKept /\ SinkSettles /\ PromisesAreCovered /\ EachInOnePlace
=============================================================================
