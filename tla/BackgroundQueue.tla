--------------------------- MODULE BackgroundQueue ---------------------------
(***************************************************************************)
(* The background queue of metrique-writer (sink/background.rs): appender   *)
(* threads push entries into a bounded ring and flush signals into an       *)
(* unbounded channel; one background thread, the Receiver, drains the ring  *)
(* into an output stream, flushes the stream at least once per flush        *)
(* interval, and wakes the flush signals once everything appended before    *)
(* them has reached the stream.                                            *)
(*                                                                         *)
(* An entry is the number of its push (1, 2, ...): the ring's force_push is *)
(* linearizable, so the pushes are totally ordered.  A flush signal is the  *)
(* number of its flush_async call.  Every step below is one access to state *)
(* another thread can see, together with the thread-local work around it.   *)
(***************************************************************************)
EXTENDS Integers, Sequences, FiniteSets

CONSTANTS
  Appenders,     (* threads that can own a clone of the queue               *)
  Capacity,      (* BackgroundQueueBuilder::capacity                        *)
  ClockCheck,    (* the clock is read every ClockCheck entries (32 in code) *)
  HasObserver,   (* whether a BackgroundQueueObserver is installed          *)
  Outcomes,      (* what stream.next may answer, a subset of DOMAIN EffectOf *)
  MaxEntries,    (* bound on pushes                                         *)
  MaxFlushes,    (* bound on flush_async calls                              *)
  MaxExtra       (* bound on failed stream flushes: one only fails while     *)
                 (* extra, the number of counted non-entries, is below it    *)

ASSUME CapacityAssumption == Capacity \in Nat \ {0}
ASSUME ClockCheckAssumption == ClockCheck \in Nat \ {0}
ASSUME BoundsAssumption == MaxEntries \in Nat /\ MaxFlushes \in Nat /\ MaxExtra \in Nat
ASSUME ObserverAssumption == HasObserver \in BOOLEAN

(***************************************************************************)
(* The three counters the Receiver keeps between two flushes, and what one  *)
(* call of consume adds to them.  A validation error is also reported into  *)
(* the stream itself when no tracing subscriber is installed and the rate   *)
(* limiter lets it through; that report is one more write with its own      *)
(* outcome.                                                                *)
(***************************************************************************)
Counters == {"emitted", "io_errors", "validation_errors"}

Tally(e, i, v) == [k \in Counters |-> CASE k = "emitted" -> e
                                        [] k = "io_errors" -> i
                                        [] k = "validation_errors" -> v]

EffectOf == [ok                  |-> Tally(1, 0, 0),
             io                  |-> Tally(0, 1, 0),
             validation          |-> Tally(0, 0, 1),
             validation_reported |-> Tally(1, 0, 1),
             validation_lost     |-> Tally(0, 1, 1)]

(* The writes an outcome makes besides the entry itself. *)
ReportsOf(o) == IF o \in {"validation_reported", "validation_lost"} THEN 1 ELSE 0

ASSUME OutcomesAssumption == Outcomes \subseteq DOMAIN EffectOf

Zero == Tally(0, 0, 0)
Plus(a, b) == [k \in Counters |-> a[k] + b[k]]
Total(a) == a["emitted"] + a["io_errors"] + a["validation_errors"]

Entries == 1..MaxEntries
Signals == 1..MaxFlushes

VARIABLES
  (* shared between threads *)
  queue,            (* Inner::queue, the ring, oldest entry first            *)
  signal,           (* signal[f]: where flush signal f is                    *)
  token,            (* the Parker's token                                    *)
  shutdown_signal,  (* the AtomicBool                                        *)
  (* appenders and the join handle *)
  owners,           (* appenders that hold a clone of the Arc<Inner>         *)
  doing,            (* doing[t]: what appender t still has to do             *)
  handle,           (* life of the BackgroundQueueJoinHandle                 *)
  (* the Receiver *)
  pc,               (* its program counter                                   *)
  closing,          (* it is inside shut_down, or unwinding                  *)
  in_hand,          (* entry popped and not yet consumed, 0 for none         *)
  entry_count,      (* entries the current drain_until_deadline has drained  *)
  status,           (* DrainResult of the last one, "Drained" out of scope    *)
  entries_before_wake,
  expired,          (* the current deadline has passed                       *)
  counters,         (* metrics_emitted, metric_io_errors, ...                *)
  (* the world outside: the stream and the observer *)
  consumed,         (* entries handed to stream.next                         *)
  flushed,          (* the ones handed over before the last stream.flush     *)
  reported,         (* what the observer was told, added up                  *)
  overflows,        (* QueueOverflow events                                  *)
  (* history *)
  pushed,           (* number of pushes so far                               *)
  sent,             (* number of flush_async calls so far                    *)
  evicted,          (* entries force_push threw out                          *)
  before,           (* before[f]: pushed when f was sent                     *)
  late,             (* signals sent once shut_down had begun                 *)
  handled,          (* handled[f]: handle_waiting_wakers calls f has waited   *)
  at_signal,        (* pushed when the shutdown signal was stored            *)
  cut,              (* what cut the thread's work short, if anything          *)
  extra             (* counted writes and flushes that are not an entry      *)

ring == <<queue, pushed, evicted>>
flushes == <<signal, sent, before, late, handled>>
clones == <<owners, doing, overflows>>
joining == <<handle, shutdown_signal, at_signal>>
drain == <<in_hand, entry_count, status>>
loop == <<closing, expired, cut>>
stream == <<consumed, flushed>>
tallies == <<counters, reported, extra>>
vars == <<ring, flushes, token, clones, joining, pc, drain, loop,
          entries_before_wake, stream, tallies>>

SignalStates == {"unsent", "queued", "waiting", "woken", "dropped", "refused"}
HandleStates == {"held", "stored", "joining", "joined", "join_panicked", "forgotten"}
Panics == {"write_panic", "flush_panic"}
Cuts == {"no", "timeout"} \cup Panics
Labels == {"pop", "consume", "wakers", "wake_flush", "wake", "recv",
           "decide", "park", "deadline", "flush", "exit_check", "final_flush",
           "drop_wakers", "done"}

SignalsIn(state) == {f \in Signals : signal[f] = state}

(* handle_waiting_wakers' waiting_wakers. *)
waiting_wakers == SignalsIn("waiting")

(* A FlushWait resolves when the sender inside its signal is dropped. *)
Resolved(f) == signal[f] \in {"woken", "dropped", "refused"}

-----------------------------------------------------------------------------
(* BackgroundQueueBuilder::do_build: one queue, one handle, one thread. *)
Init ==
  /\ queue = <<>>
  /\ signal = [f \in Signals |-> "unsent"]
  /\ token = FALSE
  /\ shutdown_signal = FALSE
  /\ owners \in {{t} : t \in Appenders}
  /\ doing = [t \in Appenders |-> "idle"]
  /\ handle = "held"
  /\ pc = "pop"
  /\ closing = FALSE
  /\ in_hand = 0
  /\ entry_count = 0
  /\ status = "Drained"
  /\ entries_before_wake = 0
  /\ expired = FALSE
  /\ counters = Zero
  /\ consumed = {}
  /\ flushed = {}
  /\ reported = Zero
  /\ overflows = 0
  /\ pushed = 0
  /\ sent = 0
  /\ evicted = {}
  /\ before = [f \in Signals |-> 0]
  /\ late = {}
  /\ handled = [f \in Signals |-> 0]
  /\ at_signal = 0
  /\ cut = "no"
  /\ extra = 0

-----------------------------------------------------------------------------
(* Appenders. *)

Idle(t) == t \in owners /\ doing[t] = "idle"
Does(t, what) == doing' = [doing EXCEPT ![t] = what]

(* Mutation: a full ring rejects the new entry instead of the oldest one. *)
ForcePushDropsNewest(q, e) ==
  IF Len(q) < Capacity THEN Append(q, e) ELSE q

(* ArrayQueue::force_push: append, throwing out the oldest entry if full. *)
ForcePush(q, e) == Append(IF Len(q) < Capacity THEN q ELSE Tail(q), e)

(* What that throws out. *)
Displaced(q) == IF Len(q) < Capacity THEN {} ELSE {Head(q)}

(* Inner::push, up to and including force_push. *)
Push(t) ==
  /\ Idle(t)
  /\ pushed < MaxEntries
  /\ pushed' = pushed + 1
  /\ queue' = ForcePush(queue, pushed + 1)
  /\ evicted' = evicted \cup Displaced(queue)
  /\ Does(t, IF Displaced(queue) # {} /\ HasObserver THEN "overflow" ELSE "unpark")
  /\ UNCHANGED <<flushes, token, owners, overflows, joining, pc, drain, loop,
                 entries_before_wake, stream, tallies>>

(* Inner::push: the QueueOverflow event. *)
Overflow(t) ==
  /\ doing[t] = "overflow"
  /\ overflows' = overflows + 1
  /\ Does(t, "unpark")
  /\ UNCHANGED <<ring, flushes, token, owners, joining, pc, drain, loop,
                 entries_before_wake, stream, tallies>>

(* Inner::flush_async up to the send, which fails once the Receiver is gone: *)
(* the signal is then dropped on the spot and its FlushWait is ready.        *)
FlushAsync(t) ==
  /\ Idle(t)
  /\ sent < MaxFlushes
  /\ sent' = sent + 1
  /\ signal' = [signal EXCEPT ![sent + 1] = IF pc = "done" THEN "refused" ELSE "queued"]
  /\ before' = [before EXCEPT ![sent + 1] = pushed]
  /\ late' = IF closing THEN late \cup {sent + 1} ELSE late
  /\ Does(t, "unpark")
  /\ UNCHANGED <<ring, handled, token, owners, overflows, joining, pc, drain, loop,
                 entries_before_wake, stream, tallies>>

(* Mutation: the unpark is skipped when the thread does not look parked. *)
TokenIfParked == token \/ pc = "park"

(* Unparker::unpark leaves its token whether or not the thread is parked. *)
Token == TRUE

(* The unparker.unpark() that ends push and flush_async. *)
Unpark(t) ==
  /\ doing[t] = "unpark"
  /\ token' = Token
  /\ Does(t, "idle")
  /\ UNCHANGED <<ring, flushes, owners, overflows, joining, pc, drain, loop,
                 entries_before_wake, stream, tallies>>

(* BackgroundQueue::clone, and dropping a clone. *)
Clone(t, u) ==
  /\ Idle(t)
  /\ u \notin owners
  /\ owners' = owners \cup {u}
  /\ UNCHANGED <<ring, flushes, token, doing, overflows, joining, pc, drain, loop,
                 entries_before_wake, stream, tallies>>

DropQueue(t) ==
  /\ Idle(t)
  /\ owners' = owners \ {t}
  /\ UNCHANGED <<ring, flushes, token, doing, overflows, joining, pc, drain, loop,
                 entries_before_wake, stream, tallies>>

-----------------------------------------------------------------------------
(* The join handle: drop (or shut_down) stores the signal, unparks the      *)
(* thread and joins it, with an unwrap that passes the thread's panic on;   *)
(* forget leaves the thread to itself.                                      *)

HandleStore ==
  /\ handle = "held"
  /\ handle' = "stored"
  /\ shutdown_signal' = TRUE
  /\ at_signal' = pushed
  /\ UNCHANGED <<ring, flushes, token, clones, pc, drain, loop, entries_before_wake,
                 stream, tallies>>

HandleUnpark ==
  /\ handle = "stored"
  /\ handle' = "joining"
  /\ token' = Token
  /\ UNCHANGED <<ring, flushes, clones, shutdown_signal, at_signal, pc, drain, loop,
                 entries_before_wake, stream, tallies>>

HandleJoin ==
  /\ handle = "joining"
  /\ pc = "done"
  /\ handle' = IF cut \in Panics THEN "join_panicked" ELSE "joined"
  /\ UNCHANGED <<ring, flushes, token, clones, shutdown_signal, at_signal, pc, drain,
                 loop, entries_before_wake, stream, tallies>>

HandleForget ==
  /\ handle = "held"
  /\ handle' = "forgotten"
  /\ UNCHANGED <<ring, flushes, token, clones, shutdown_signal, at_signal, pc, drain,
                 loop, entries_before_wake, stream, tallies>>

-----------------------------------------------------------------------------
(* The Receiver thread. *)

At(label) == pc = label
Goto(label) == pc' = label
NotMine == <<clones, joining>>

(* The clock passes the current deadline.  It may do so at any time; only    *)
(* the labels at which the clock is read next tell the difference.          *)
Tick ==
  /\ pc \in {"consume", "park", "deadline"}
  /\ ~expired
  /\ expired' = TRUE
  /\ UNCHANGED <<NotMine, ring, flushes, token, pc, drain, closing, cut,
                 entries_before_wake, stream, tallies>>

(* Where drain_until_deadline returns to. *)
AfterDrain == IF closing THEN "final_flush" ELSE "wakers"

(* drain_until_deadline: queue.pop() yields an entry, or None. *)
Pop ==
  /\ At("pop")
  /\ \/ /\ queue # <<>>
        /\ in_hand' = Head(queue)
        /\ queue' = Tail(queue)
        /\ Goto("consume")
        /\ UNCHANGED status
     \/ /\ queue = <<>>
        /\ status' = "Drained"
        /\ Goto(AfterDrain)
        /\ UNCHANGED <<in_hand, queue>>
  /\ UNCHANGED <<NotMine, pushed, evicted, flushes, token, entry_count, loop,
                 entries_before_wake, stream, tallies>>

(* consume, and the deadline check every ClockCheck entries. *)
Consume(o) ==
  LET n   == entry_count + 1
      hit == n % ClockCheck = 0 /\ expired
  IN
  /\ At("consume")
  /\ consumed' = consumed \cup {in_hand}
  /\ in_hand' = 0
  /\ counters' = Plus(counters, EffectOf[o])
  /\ extra' = extra + ReportsOf(o)
  /\ entry_count' = n
  /\ status' = IF hit THEN "HitDeadline" ELSE status
  /\ cut' = IF hit /\ closing THEN "timeout" ELSE cut
  /\ Goto(IF hit THEN AfterDrain ELSE "pop")
  /\ UNCHANGED <<NotMine, ring, flushes, token, closing, expired,
                 entries_before_wake, flushed, reported>>

(* Mutation: the counters are handed to the observer and kept as well. *)
KeepTally(tally) == tally

(* What mem::take leaves in the counters. *)
TakeTally(tally) == IF HasObserver THEN Zero ELSE tally

(* flush_stream: flush, then hand the counters to the observer, if any. *)
FlushStream(fails) ==
  LET tally == Plus(counters, Tally(0, IF fails THEN 1 ELSE 0, 0)) IN
  /\ fails => extra < MaxExtra
  /\ flushed' = consumed
  /\ extra' = extra + (IF fails THEN 1 ELSE 0)
  /\ counters' = TakeTally(tally)
  /\ reported' = IF HasObserver THEN Plus(reported, tally) ELSE reported
  /\ UNCHANGED <<NotMine, ring, flushes, token, drain, loop, entries_before_wake,
                 consumed>>

(* Mutation: the wakers are woken as soon as the drain hits its deadline. *)
WakeNowIgnoresCount(left) == TRUE

(* handle_waiting_wakers: everything sent before them has been popped. *)
WakeNow(left) == left = 0 \/ status = "Drained"

(* Mutation: a plain subtraction, which underflows. *)
PlainSub(a, b) == a - b

(* usize::saturating_sub. *)
SaturatingSub(a, b) == IF b >= a THEN 0 ELSE a - b

(* handle_waiting_wakers, its first half: count the drained entries against *)
(* the waiting wakers and decide whether to wake them.                      *)
HandleWakers ==
  LET left == SaturatingSub(entries_before_wake, entry_count) IN
  /\ At("wakers")
  /\ handled' = [f \in Signals |-> IF signal[f] \in {"queued", "waiting"}
                                   THEN handled[f] + 1 ELSE handled[f]]
  /\ \/ /\ waiting_wakers # {}
        /\ entries_before_wake' = left
        /\ Goto(IF WakeNow(left) THEN "wake_flush" ELSE "decide")
     \/ /\ waiting_wakers = {}
        /\ Goto("recv")
        /\ UNCHANGED entries_before_wake
  /\ entry_count' = 0
  /\ UNCHANGED <<NotMine, ring, signal, sent, before, late, token, in_hand, status,
                 loop, stream, tallies>>

(* ... flush_stream() before they are woken. *)
WakeFlush(fails) == At("wake_flush") /\ FlushStream(fails) /\ Goto("wake")

(* The second half runs in the same call when the first one woke everybody. *)
AfterWake == "recv"

(* waiting_wakers.clear(): every sender is dropped. *)
Wake ==
  /\ At("wake")
  /\ signal' = [f \in Signals |-> IF signal[f] = "waiting" THEN "woken" ELSE signal[f]]
  /\ handled' = [f \in Signals |-> IF signal[f] = "waiting" THEN 0 ELSE handled[f]]
  /\ entries_before_wake' = 0
  /\ Goto(AfterWake)
  /\ UNCHANGED <<NotMine, ring, sent, before, late, token, drain, loop, stream,
                 tallies>>

(* Mutation: new wakers wait for one entry more than the ring can hold. *)
PatienceOffByOne == Capacity + 1

(* The number of pops after which everything now in the ring is out of it. *)
Patience == Capacity

(* handle_waiting_wakers, its second half: one turn of the try_recv loop    *)
(* (the channel is first-in, first-out), or its end.                        *)
Recv ==
  /\ At("recv")
  /\ \/ \E f \in SignalsIn("queued") :
          /\ \A g \in SignalsIn("queued") : f <= g
          /\ signal' = [signal EXCEPT ![f] = "waiting"]
          /\ UNCHANGED <<pc, entries_before_wake>>
     \/ /\ SignalsIn("queued") = {}
        /\ entries_before_wake' = IF waiting_wakers # {} THEN Patience
                                  ELSE entries_before_wake
        /\ Goto("decide")
        /\ UNCHANGED signal
  /\ UNCHANGED <<NotMine, ring, sent, before, late, handled, token, drain, loop,
                 stream, tallies>>

(* Mutation: spin instead of parking. *)
NextLoopActionSpins(shutdown, progress) ==
  IF status = "HitDeadline" \/ shutdown THEN "flush" ELSE "deadline"

(* next_loop_action, by the label it leads to: Flush, Continue or Park. *)
NextLoopAction(shutdown, progress) ==
  IF status = "HitDeadline" \/ shutdown THEN "flush"
  ELSE IF progress THEN "deadline"
  ELSE "park"

Decide ==
  /\ At("decide")
  /\ Goto(NextLoopAction(shutdown_signal, waiting_wakers # {}))
  /\ status' = "Drained"
  /\ UNCHANGED <<NotMine, ring, flushes, token, in_hand, entry_count, loop,
                 entries_before_wake, stream, tallies>>

(* park_deadline(next_flush) returns; either way the token is taken. *)
Park ==
  /\ At("park")
  /\ token \/ expired
  /\ token' = FALSE
  /\ Goto("deadline")
  /\ UNCHANGED <<NotMine, ring, flushes, drain, loop, entries_before_wake, stream,
                 tallies>>

(* The deadline check that ends a turn of the inner loop. *)
Deadline ==
  /\ At("deadline")
  /\ Goto(IF expired THEN "flush" ELSE "pop")
  /\ UNCHANGED <<NotMine, ring, flushes, token, drain, loop, entries_before_wake,
                 stream, tallies>>

(* The periodic flush after the inner loop. *)
Flush(fails) == At("flush") /\ FlushStream(fails) /\ Goto("exit_check")

(* Mutation: the thread never looks at the reference count. *)
ExitOnlyWhenAsked == shutdown_signal

(* The two exits of run: the shutdown signal, and an Arc::get_mut that       *)
(* succeeds because no appender holds a clone any more.                      *)
ExitRequested == shutdown_signal \/ owners = {}

(* Mutation: shut_down goes straight to its last flush. *)
ShutDownLabelSkipsDrain == "final_flush"

(* shut_down begins with a drain. *)
ShutDownLabel == "pop"

(* Into shut_down, or to the top of the outer loop again; both begin with a  *)
(* new deadline and a drain.                                                *)
ExitCheck ==
  /\ At("exit_check")
  /\ closing' = ExitRequested
  /\ Goto(IF ExitRequested THEN ShutDownLabel ELSE "pop")
  /\ expired' = FALSE
  /\ UNCHANGED <<NotMine, ring, flushes, token, drain, cut,
                 entries_before_wake, stream, tallies>>

(* shut_down: the last flush_stream, then drop(self.stream). *)
FinalFlush(fails) == At("final_flush") /\ FlushStream(fails) /\ Goto("drop_wakers")

(* A panic of stream.next or stream.flush: nothing catches it, the thread     *)
(* unwinds through run and drops the WakerTracker; the counters are lost.     *)
Panic ==
  /\ pc \in {"consume", "wake_flush", "flush", "final_flush"}
  /\ consumed' = IF At("consume") THEN consumed \cup {in_hand} ELSE consumed
  /\ in_hand' = 0
  /\ cut' = IF At("consume") THEN "write_panic" ELSE "flush_panic"
  /\ closing' = TRUE
  /\ Goto("drop_wakers")
  /\ UNCHANGED <<NotMine, ring, flushes, token, entry_count, status, expired,
                 entries_before_wake, flushed, tallies>>

(* Mutation: the channel outlives the thread, with the signals in it. *)
DroppedWithTrackerOnly == {"waiting"}

(* The WakerTracker owns the wakers it took and the receiving end of the     *)
(* channel, with the signals in it.                                         *)
DroppedWithTracker == {"waiting", "queued"}

(* run returns, or unwinds, and drops the WakerTracker. *)
DropWakers ==
  /\ At("drop_wakers")
  /\ signal' = [f \in Signals |-> IF signal[f] \in DroppedWithTracker
                                  THEN "dropped" ELSE signal[f]]
  /\ Goto("done")
  /\ UNCHANGED <<NotMine, ring, sent, before, late, handled, token, drain, loop,
                 entries_before_wake, stream, tallies>>

-----------------------------------------------------------------------------
Receiver ==
  \/ Pop \/ HandleWakers \/ Wake \/ Recv \/ Decide \/ Park \/ Deadline
  \/ ExitCheck \/ DropWakers \/ Panic
  \/ \E o \in Outcomes : Consume(o)
  \/ \E fails \in BOOLEAN : WakeFlush(fails) \/ Flush(fails) \/ FinalFlush(fails)

Appender(t) ==
  \/ Push(t) \/ Overflow(t) \/ FlushAsync(t) \/ Unpark(t) \/ DropQueue(t)
  \/ \E u \in Appenders : Clone(t, u)

Handle == HandleStore \/ HandleUnpark \/ HandleJoin \/ HandleForget

Next == Receiver \/ Tick \/ Handle \/ \E t \in Appenders : Appender(t)

Spec == Init /\ [][Next]_vars

(***************************************************************************)
(* The background thread is scheduled, time passes, a thread inside push,   *)
(* flush_async or the handle's drop gets to finish it.  Nobody has to       *)
(* append, to flush, to drop a queue or to drop the handle.                 *)
(***************************************************************************)
Fairness ==
  /\ WF_vars(Receiver)
  /\ WF_vars(Tick)
  /\ WF_vars(HandleUnpark \/ HandleJoin)
  /\ \A t \in Appenders : WF_vars(Overflow(t) \/ Unpark(t))

FairSpec == Spec /\ Fairness

-----------------------------------------------------------------------------
(* Properties. *)

TypeOK ==
  /\ queue \in Seq(Entries)
  /\ signal \in [Signals -> SignalStates]
  /\ token \in BOOLEAN
  /\ shutdown_signal \in BOOLEAN
  /\ owners \subseteq Appenders
  /\ doing \in [Appenders -> {"idle", "overflow", "unpark"}]
  /\ handle \in HandleStates
  /\ pc \in Labels
  /\ closing \in BOOLEAN
  /\ in_hand \in (IF pc = "consume" THEN Entries ELSE {0})
  /\ entry_count \in Nat
  /\ status \in {"Drained", "HitDeadline"}
  /\ entries_before_wake \in Nat
  /\ expired \in BOOLEAN
  /\ counters \in [Counters -> Nat]
  /\ consumed \subseteq Entries
  /\ flushed \subseteq Entries
  /\ reported \in [Counters -> Nat]
  /\ overflows \in Nat
  /\ pushed \in 0..MaxEntries
  /\ sent \in 0..MaxFlushes
  /\ evicted \subseteq Entries
  /\ before \in [Signals -> 0..MaxEntries]
  /\ late \subseteq Signals
  /\ handled \in [Signals -> Nat]
  /\ at_signal \in 0..MaxEntries
  /\ cut \in Cuts
  /\ extra \in Nat

(* The entries appended so far when f was sent are out of the ring, and     *)
(* stream.flush was called after the last of them was written.              *)
Covered(f) == 1..before[f] \subseteq flushed \cup evicted

(* S1 of the WakerTracker: a waker it wakes is covered.  So is a waker that  *)
(* only resolves because the thread exits, when it was sent before the       *)
(* shutdown began and neither a timeout nor a panic cut the thread short.    *)
FlushSafety ==
  \A f \in Signals :
    \/ signal[f] = "woken"
    \/ signal[f] = "dropped" /\ f \notin late /\ cut = "no"
    => Covered(f)

(* L1: whenever handle_waiting_wakers leaves no waker waiting, which lets the *)
(* thread park, every signal sent before that call has been woken, so that    *)
(* the thread never goes to sleep on a flush it has seen. And under            *)
(* uninterrupted load, where every drain hits its deadline, a waker is woken   *)
(* within a number of handle_waiting_wakers calls that depends on the capacity *)
(* alone: one round of capacity pops for the wakers before it and one for      *)
(* itself, at ClockCheck pops a call or more. For ClockCheck >= 2 this is at   *)
(* most capacity calls after the first.                                       *)
L1 ==
  /\ pc \in {"decide", "park"} /\ waiting_wakers = {} =>
       \A f \in SignalsIn("queued") : handled[f] = 0
  /\ \A f \in Signals :
       handled[f] <= 2 * ((Capacity + ClockCheck - 1) \div ClockCheck)

(* A parked thread that has something to do has its token, or is about to    *)
(* get it from the thread that gave it the work: no wakeup is lost between   *)
(* the last look at the ring and the park.                                   *)
NoLostWakeup ==
  pc = "park" /\ ~token =>
    /\ queue # <<>> \/ SignalsIn("queued") # {} =>
         \E t \in Appenders : doing[t] \in {"overflow", "unpark"}
    /\ shutdown_signal => handle = "stored"

(* Every push is in the ring, in the thread's hand, written or thrown out. *)
EntriesAddUp ==
  pushed = Len(queue) + (IF in_hand = 0 THEN 0 ELSE 1)
             + Cardinality(consumed) + Cardinality(evicted)

(* Every entry written, and every report and failed flush besides, has been   *)
(* counted, except for the one the stream panicked on.                       *)
WritesAddUp ==
  Total(counters) + Total(reported) + (IF cut = "write_panic" THEN 1 ELSE 0) =
    Cardinality(consumed) + extra

(* The threads that owe the observer a QueueOverflow. *)
Owing == {t \in Appenders : doing[t] = "overflow"}

(* Every entry thrown out has its event, sent or owed. *)
EventsAddUp == HasObserver => Cardinality(evicted) = overflows + Cardinality(Owing)

(* Every push is accounted for exactly once: it is in the ring, in the       *)
(* thread's hand, written, or thrown out; every entry written has been       *)
(* counted as emitted or as an error, every one thrown out has its event;    *)
(* and when the thread is done the observer has been told of all of it.      *)
Accounting ==
  /\ EntriesAddUp
  /\ WritesAddUp
  /\ EventsAddUp
  /\ HasObserver /\ pc = "done" /\ cut \notin Panics => Total(counters) = 0

(* Once the thread is done, which is when drop of the join handle returns,   *)
(* every entry appended before that drop began is written and flushed, or    *)
(* was thrown out by a later push; when the thread stops on its own, because *)
(* no appender is left, that is every entry.  Only the shutdown timeout or a *)
(* panic of the stream can cut this short.                                   *)
ShutdownDrains ==
  pc = "done" /\ cut = "no" =>
    1..(IF shutdown_signal THEN at_signal ELSE pushed) \subseteq flushed \cup evicted

(***************************************************************************)
(* The queue as an EntrySink: the ring is its buffer, a signal waits until  *)
(* its sender is dropped, and the sink closes when shut_down begins.        *)
(***************************************************************************)
SinkWait == [f \in Signals |-> IF signal[f] = "unsent" THEN "none"
                               ELSE IF Resolved(f) THEN "resolved"
                               ELSE IF f \in late THEN "late" ELSE "waiting"]

SinkLife == IF cut # "no" THEN "cut"
            ELSE IF pc = "done" THEN "stopped"
            ELSE IF closing THEN "closing" ELSE "open"

Sink == INSTANCE EntrySink WITH
  Flushes <- Signals,          appended <- pushed,   buffer  <- queue,
  writing <- in_hand,          written  <- consumed, durable <- flushed,
  dropped <- evicted,          wait     <- SinkWait, owed    <- before,
  asked   <- shutdown_signal,  due      <- at_signal, life   <- SinkLife

(* Whatever its threads do, the queue is an EntrySink: it writes in the order *)
(* of the appends and only ever drops its oldest entry, resolves no flush and *)
(* ends no shutdown before what it covers is flushed or dropped, and stops    *)
(* without leaving anybody waiting.                                          *)
ImplementsEntrySink == Sink!Spec

(* Every FlushWait resolves. *)
FlushResolves == \A f \in Signals : (signal[f] # "unsent") ~> Resolved(f)

(* Dropping the join handle returns; and with the handle forgotten, the       *)
(* thread outlives its appenders only until its next flush.                    *)
ThreadExits ==
  /\ (handle = "stored") ~> (handle \in {"joined", "join_panicked"})
  /\ (owners = {}) ~> (pc = "done")

(* Busy-loop freedom (S2): the thread keeps coming back to its park, or is   *)
(* done; wakers never keep it spinning.                                      *)
AlwaysParksAgain == []<>(pc \in {"park", "done"})

-----------------------------------------------------------------------------
(***************************************************************************)
(* The inductive invariant behind FlushSafety, ShutdownDrains and            *)
(* ImplementsEntrySink.                                                    *)
(***************************************************************************)

(* Entries that left the ring, the one in hand included: 1..Removed. *)
Removed == pushed - Len(queue)

(* The ring holds the consecutive entries Removed + 1 .. pushed. *)
RingIsWindow ==
  /\ Len(queue) <= Capacity
  /\ Len(queue) <= pushed
  /\ \A i \in 1..Len(queue) : queue[i] = Removed + i

(* What left the ring is in hand, consumed or evicted, and nothing else is. *)
OutIsAccounted ==
  /\ in_hand <= Removed
  /\ consumed \cup evicted \subseteq 1..Removed
  /\ 1..Removed \subseteq consumed \cup evicted \cup {in_hand}
  /\ in_hand # 0 => \A e \in consumed : e < in_hand
  /\ flushed \subseteq consumed

SignalsAreNumbered ==
  /\ \A f \in Signals : signal[f] = "unsent" <=> f > sent
  /\ \A f \in Signals : before[f] <= pushed
  /\ late \subseteq 1..sent
  /\ at_signal <= pushed
  /\ shutdown_signal <=> handle \notin {"held", "forgotten"}

(* The wakers never wait for more pops than they have to: what is left in    *)
(* the ring of the entries before a waker fits into its countdown.           *)
Countdown ==
  /\ pc \notin {"recv", "wake"} =>
       \A f \in waiting_wakers :
         before[f] - Removed <= entries_before_wake - entry_count
                                  - (IF in_hand = 0 THEN 0 ELSE 1)
                                \/ before[f] <= Removed
  /\ pc \in {"recv", "decide", "park", "deadline", "wake", "wake_flush", "flush",
             "exit_check"} => entry_count = 0

(* When the wakers are about to be woken, what they wait for is out of the   *)
(* ring, and, once the stream is flushed, covered.                           *)
WakeIsSafe ==
  /\ (pc = "wakers" /\ status = "Drained") \/ pc = "wake_flush" =>
       \A f \in waiting_wakers : before[f] <= Removed
  /\ pc = "wake" => \A f \in waiting_wakers : Covered(f)
  /\ \A f \in SignalsIn("woken") : Covered(f)

(* The same for what shut_down leaves behind. *)
CloseIsSafe ==
  /\ pc \in {"final_flush", "drop_wakers", "done"} => closing
  /\ closing => pc \in {"pop", "consume", "final_flush", "drop_wakers", "done"}
  /\ cut # "no" => closing
  /\ closing /\ cut = "no" => shutdown_signal \/ owners = {}
  /\ handle \in {"joined", "join_panicked"} => pc = "done"
  /\ cut = "no" =>
       /\ pc = "final_flush" =>
            /\ \A f \in SignalsIn("queued") \cup waiting_wakers :
                 f \in late \/ before[f] <= Removed
            /\ IF shutdown_signal THEN at_signal <= Removed ELSE pushed <= Removed
       /\ pc = "drop_wakers" =>
            \A f \in SignalsIn("queued") \cup waiting_wakers : f \in late \/ Covered(f)
       /\ pc \in {"drop_wakers", "done"} =>
            1..(IF shutdown_signal THEN at_signal ELSE pushed) \subseteq flushed \cup evicted
       /\ \A f \in SignalsIn("dropped") : f \in late \/ Covered(f)

IInv ==
  /\ TypeOK
  /\ RingIsWindow
  /\ OutIsAccounted
  /\ SignalsAreNumbered
  /\ Countdown
  /\ WakeIsSafe
  /\ CloseIsSafe

(***************************************************************************)
(* The inductive invariants behind NoLostWakeup, Accounting and L1.          *)
(***************************************************************************)

(* Somebody has made the thread's next park return, or is about to. *)
WakeupPending == token \/ \E t \in Appenders : doing[t] \in {"overflow", "unpark"}

(* From the pop that found the ring empty up to the park, an entry that       *)
(* arrives comes with a wakeup; so does a signal from the last try_recv on;    *)
(* and the shutdown signal, from the last look at it on.                       *)
WakeupsAreKept ==
  /\ queue # <<>> /\ status = "Drained" /\
       pc \in {"wakers", "wake_flush", "wake", "recv", "decide", "park"} => WakeupPending
  /\ SignalsIn("queued") # {} /\ (pc = "park" \/ (pc = "decide" /\ waiting_wakers = {}))
       => WakeupPending
  /\ pc = "park" => status = "Drained"
  /\ pc = "park" /\ shutdown_signal => token \/ handle = "stored"

(* The counts agree, and the last flush has handed the counters over. *)
CountsAgree ==
  /\ EntriesAddUp
  /\ WritesAddUp
  /\ EventsAddUp
  /\ IsFiniteSet(Owing)
  /\ cut \in Panics => pc \in {"drop_wakers", "done"}
  /\ HasObserver /\ pc \in {"drop_wakers", "done"} /\ cut \notin Panics => Total(counters) = 0

(* Calls of handle_waiting_wakers in which n pops are certain, when every      *)
(* drain hits its deadline.                                                    *)
Rounds(n) == (n + ClockCheck - 1) \div ClockCheck

(* A waker waits for the round that is under way when it is sent and for one   *)
(* of its own.  Between two calls, what is left of the current round fits into *)
(* what a waker may still wait; with no round under way a signal has waited    *)
(* for no call; and a drain that hit its deadline popped ClockCheck entries.   *)
RoundsAreBounded ==
  /\ entries_before_wake <= Capacity
  /\ pc = "wakers" /\ status = "HitDeadline" => entry_count >= ClockCheck
  /\ pc \notin {"wake_flush", "wake", "recv"} /\ ~closing =>
       \A f \in Signals :
         /\ signal[f] = "waiting" => /\ entries_before_wake >= 1
                                     /\ handled[f] + Rounds(entries_before_wake)
                                          <= 2 * Rounds(Capacity)
         /\ signal[f] = "queued" =>
              IF waiting_wakers = {} THEN handled[f] = 0
              ELSE handled[f] + Rounds(entries_before_wake) <= Rounds(Capacity)
  /\ \A f \in Signals :
       /\ handled[f] <= 2 * Rounds(Capacity)
       /\ signal[f] = "queued" => handled[f] <= Rounds(Capacity)
       /\ signal[f] = "unsent" => handled[f] = 0
       /\ pc = "recv" /\ signal[f] = "waiting" => handled[f] <= Rounds(Capacity)
=============================================================================
