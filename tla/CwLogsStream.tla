---------------------------- MODULE CwLogsStream ----------------------------
(***************************************************************************)
(* The CloudWatch Logs stream (metrique-writer-cloudwatch/src/lib.rs).  The  *)
(* owner of the stream formats entries into log events and gathers them in a *)
(* batch; full batches go through a bounded channel to the submit loop, an   *)
(* async task that puts them one request at a time.  A second task relays    *)
(* the handle's shutdown request into the same channel.                      *)
(*                                                                         *)
(* A log event is its number; formatting only decides how many events an     *)
(* entry becomes and how long they are.  An entry that fails to format, or   *)
(* formats to invalid UTF-8, adds nothing and is not modelled.               *)
(***************************************************************************)
EXTENDS Integers, Sequences, FiniteSets, Functions

CONSTANTS
  MaxBatchEvents,    (* MAX_BATCH_EVENTS                                     *)
  MaxBatchBytes,     (* MAX_BATCH_BYTES                                      *)
  MaxEventBytes,     (* MAX_EVENT_BYTES                                      *)
  EventOverhead,     (* EVENT_OVERHEAD_BYTES                                 *)
  ChannelCapacity,   (* CwLogsStreamConfig::channel_capacity                 *)
  Sizes,             (* the lengths an event may have                        *)
  MaxLines,          (* bound on events per entry                            *)
  MaxEvents,         (* bound on events                                      *)
  RuntimeMayStop     (* whether the async runtime may drop its tasks         *)

ASSUME LimitsAssumption ==
  /\ MaxBatchEvents \in Nat \ {0} /\ MaxBatchBytes \in Nat /\ MaxEventBytes \in Nat
  /\ EventOverhead \in Nat /\ ChannelCapacity \in Nat \ {0} /\ Sizes \subseteq Nat
ASSUME BoundsAssumption == MaxLines \in Nat /\ MaxEvents \in Nat /\ RuntimeMayStop \in BOOLEAN

Events == 1..MaxEvents

VARIABLES
  (* CwLogsStream, used by one thread *)
  stream,        (* "live" or "dropped"                                     *)
  tx,            (* it has its sender                                       *)
  batch,         (* events gathered                                         *)
  batch_bytes,
  lines,         (* events of the entry that next is working on             *)
  (* the channel *)
  channel,       (* WorkerCommands: a batch of events, or Shutdown         *)
  closed,        (* the receiver is closed or gone                          *)
  (* tasks *)
  worker,        (* where submit_loop is                                    *)
  in_flight,     (* the batch it is putting                                 *)
  relay,         (* where the shutdown relay is                             *)
  handle,        (* where CwLogsStreamHandle::shutdown is                   *)
  response,      (* the oneshot the worker answers shutdown with            *)
  (* what became of the events *)
  submitted,     (* put, in order                                           *)
  failed,        (* put, with an error                                      *)
  dropped,       (* BatchDropped: the channel was full                      *)
  oversized,     (* EventOversized                                          *)
  refused,       (* EntryDroppedAfterShutdown                               *)
  lost,          (* given up without a report                               *)
  (* history *)
  size,          (* size[e]: the length of event e                          *)
  made,          (* number of events so far                                 *)
  owed           (* events enqueued when shutdown was called                *)

gathering == <<stream, tx, batch, batch_bytes, lines>>
tasks == <<worker, in_flight, relay>>
closing == <<handle, response, owed>>
fates == <<submitted, failed, dropped, oversized, refused, lost>>
events == <<size, made>>
vars == <<gathering, channel, closed, tasks, closing, fates, events>>

(* WorkerCommand::Shutdown, next to the batches of WorkerCommand::PutLogEvents. *)
Shutdown == <<0>>
EventsIn(commands) == UNION {Range(c) : c \in Range(commands) \ {Shutdown}}

(* CwLogsStream::builder().build() *)
Init ==
  /\ stream = "live"
  /\ tx = TRUE
  /\ batch = <<>>
  /\ batch_bytes = 0
  /\ lines = <<>>
  /\ channel = <<>>
  /\ closed = FALSE
  /\ worker = "create"
  /\ in_flight = <<>>
  /\ relay = "waiting"
  /\ handle = "held"
  /\ response = "none"
  /\ submitted = <<>>
  /\ failed = {}
  /\ dropped = {}
  /\ oversized = {}
  /\ refused = {}
  /\ lost = {}
  /\ size = [e \in Events |-> 0]
  /\ made = 0
  /\ owed = {}

-----------------------------------------------------------------------------
(* The stream. *)

(* Slots taken in the channel: a sender that was waiting when a command was  *)
(* received owns the slot that this freed.                                   *)
Taken == Len(channel) + (IF relay = "granted" THEN 1 ELSE 0)

(* Mutation: a batch the channel has no room for is dropped without a word. *)
ReportFullSilently == {}

(* The events reported by BatchDropped when the channel is full. *)
ReportFull == Range(batch)

(* try_send puts the batch behind the others. *)
OfferLast == Append(channel, batch)

(* enqueue_batch: what happens to the channel and to the events.  Nothing    *)
(* does without a sender.                                                    *)
EnqueueBatch ==
  \/ /\ ~tx
     /\ UNCHANGED <<channel, dropped, lost>>
  \/ /\ tx /\ closed
     /\ lost' = lost \cup Range(batch)
     /\ UNCHANGED <<channel, dropped>>
  \/ /\ tx /\ ~closed /\ Taken >= ChannelCapacity
     /\ dropped' = dropped \cup ReportFull
     /\ UNCHANGED <<channel, lost>>
  \/ /\ tx /\ ~closed /\ Taken < ChannelCapacity
     /\ channel' = OfferLast
     /\ UNCHANGED <<dropped, lost>>

(* ... what it leaves in the batch, and whether the sender is kept. *)
BatchAfter == IF tx THEN <<>> ELSE batch
BytesAfter == IF tx THEN 0 ELSE batch_bytes
TxAfter == tx /\ ~closed

NotEnqueued == UNCHANGED <<channel, dropped, lost, tx>>

(* next: the entry is turned down, or formatted into events. *)
NextEntry(sizes) ==
  LET new == [i \in 1..Len(sizes) |-> made + i] IN
  /\ stream = "live"
  /\ lines = <<>>
  /\ made + Len(sizes) <= MaxEvents
  /\ made' = made + Len(sizes)
  /\ size' = [e \in Events |-> IF e \in Range(new) THEN sizes[e - made] ELSE size[e]]
  /\ IF tx THEN lines' = new /\ UNCHANGED refused
     ELSE refused' = refused \cup Range(new) /\ UNCHANGED lines
  /\ UNCHANGED <<stream, tx, batch, batch_bytes, channel, closed, tasks, closing,
                 submitted, failed, dropped, oversized, lost>>

(* Mutation: the batch may grow one event past its limit. *)
ExceedsLimitsLate(bytes) ==
  Len(batch) > MaxBatchEvents \/ batch_bytes + bytes + EventOverhead > MaxBatchBytes

(* batch_would_exceed_limits *)
ExceedsLimits(bytes) ==
  Len(batch) >= MaxBatchEvents \/ batch_bytes + bytes + EventOverhead > MaxBatchBytes

(* next: one turn of the loop over the entry's lines. *)
NextLine ==
  LET e     == Head(lines)
      full  == batch # <<>> /\ ExceedsLimits(size[e])
  IN
  /\ lines # <<>>
  /\ lines' = Tail(lines)
  /\ IF size[e] > MaxEventBytes
     THEN /\ oversized' = oversized \cup {e}
          /\ NotEnqueued
          /\ UNCHANGED <<batch, batch_bytes>>
     ELSE /\ IF full THEN EnqueueBatch /\ tx' = TxAfter ELSE NotEnqueued
          /\ batch' = Append(IF full THEN BatchAfter ELSE batch, e)
          /\ batch_bytes' = (IF full THEN BytesAfter ELSE batch_bytes)
                              + size[e] + EventOverhead
          /\ UNCHANGED oversized
  /\ UNCHANGED <<stream, closed, tasks, closing, submitted, failed, refused, events>>

(* flush *)
Flush ==
  /\ stream = "live"
  /\ lines = <<>>
  /\ batch # <<>>
  /\ EnqueueBatch
  /\ tx' = TxAfter
  /\ batch' = BatchAfter
  /\ batch_bytes' = BytesAfter
  /\ UNCHANGED <<stream, lines, closed, tasks, closing, submitted, failed, oversized,
                 refused, events>>

(* Mutation: the batch that is not full yet is forgotten. *)
DropEnqueuesNothing == FALSE

(* Drop enqueues the batch that is left. *)
DropEnqueues == batch # <<>>

(* Drop: enqueue what is left, then drop the sender. *)
DropStream ==
  /\ stream = "live"
  /\ lines = <<>>
  /\ stream' = "dropped"
  /\ IF DropEnqueues
     THEN EnqueueBatch /\ batch' = BatchAfter /\ batch_bytes' = BytesAfter
     ELSE UNCHANGED <<channel, dropped, lost, batch, batch_bytes>>
  /\ tx' = FALSE
  /\ UNCHANGED <<lines, closed, tasks, closing, submitted, failed, oversized, refused,
                 events>>

-----------------------------------------------------------------------------
(* The submit loop. *)

(* create_log_resources, whose errors are ignored. *)
Create ==
  /\ worker = "create"
  /\ worker' = "recv"
  /\ UNCHANGED <<gathering, channel, closed, in_flight, relay, closing, fates, events>>

(* Nobody holds a sender any more: neither the stream nor the relay. *)
NoSenders == ~tx /\ relay \notin {"upgraded", "queued", "granted"}

(* rx.recv().await takes a command; the slot it frees goes to the relay if it *)
(* is waiting for one.                                                       *)
ReceiveFrom ==
  /\ channel # <<>>
  /\ channel' = Tail(channel)
  /\ relay' = IF relay = "queued" THEN "granted" ELSE relay

(* Mutation: the channel stays open while it is drained. *)
StaysOpen == FALSE

(* rx.close() *)
Closes == TRUE

(* Mutation: a shutdown request ends the loop at once. *)
OnShutdownStop == "answer"

(* Shutdown: close the channel, then drain it. *)
OnShutdown == "drain"

Receive ==
  /\ worker = "recv"
  /\ ReceiveFrom
  /\ IF Head(channel) = Shutdown
     THEN worker' = OnShutdown /\ closed' = Closes /\ UNCHANGED in_flight
     ELSE worker' = "put" /\ in_flight' = Head(channel) /\ UNCHANGED closed
  /\ UNCHANGED <<gathering, closing, fates, events>>

(* recv returns None: the loop ends. *)
ReceiveNone ==
  /\ worker = "recv"
  /\ channel = <<>>
  /\ NoSenders
  /\ worker' = "done"
  /\ closed' = TRUE
  /\ UNCHANGED <<gathering, channel, in_flight, relay, closing, fates, events>>

(* submit_batch: the request is answered, and the loop it was called from    *)
(* goes on.                                                                  *)
SubmitBatch(ok) ==
  /\ worker \in {"put", "drain_put"}
  /\ IF ok THEN submitted' = submitted \o in_flight /\ UNCHANGED failed
     ELSE failed' = failed \cup Range(in_flight) /\ UNCHANGED submitted
  /\ in_flight' = <<>>
  /\ worker' = IF worker = "put" THEN "recv" ELSE "drain"
  /\ UNCHANGED <<gathering, channel, closed, relay, closing, dropped, oversized, refused,
                 lost, events>>

(* The drain after a shutdown request. *)
Drain ==
  /\ worker = "drain"
  /\ \/ /\ ReceiveFrom
        /\ worker' = "drain_put"
        /\ in_flight' = Head(channel)
     \/ /\ channel = <<>>
        /\ closed \/ NoSenders
        /\ worker' = "answer"
        /\ UNCHANGED <<channel, in_flight, relay>>
  /\ UNCHANGED <<gathering, closed, closing, fates, events>>

(* response_tx.send(()), and the loop ends. *)
Answer ==
  /\ worker = "answer"
  /\ worker' = "done"
  /\ response' = "sent"
  /\ UNCHANGED <<gathering, channel, closed, in_flight, relay, handle, owed, fates, events>>

-----------------------------------------------------------------------------
(* The handle and the shutdown relay. *)

(* shutdown: hand a response sender to the relay, which may be gone. *)
ShutdownCall ==
  /\ handle = "held"
  /\ IF relay = "waiting"
     THEN /\ handle' = "awaiting"
          /\ response' = "pending"
          /\ owed' = EventsIn(channel) \cup Range(in_flight)
     ELSE /\ handle' = "returned"
          /\ UNCHANGED <<response, owed>>
  /\ UNCHANGED <<gathering, channel, closed, tasks, fates, events>>

(* rx.await, with an answer or because its sender was dropped. *)
ShutdownReturn ==
  /\ handle = "awaiting"
  /\ response \in {"sent", "dropped"}
  /\ handle' = "returned"
  /\ UNCHANGED <<gathering, channel, closed, tasks, response, owed, fates, events>>

DropHandle ==
  /\ handle = "held"
  /\ handle' = "dropped"
  /\ UNCHANGED <<gathering, channel, closed, tasks, response, owed, fates, events>>

(* Mutation: the relay holds a weak sender that is already dead. *)
NeverUpgrades == FALSE

(* weak_tx.upgrade() finds the stream's sender alive. *)
Upgrades == tx

(* The relay wakes up: the handle was dropped; or it is asked to shut down   *)
(* and upgrades its weak sender, or answers itself if the stream is gone.    *)
RelayWake ==
  /\ relay = "waiting"
  /\ \/ handle = "dropped" /\ relay' = "done" /\ UNCHANGED response
     \/ handle = "awaiting" /\ Upgrades /\ relay' = "upgraded" /\ UNCHANGED response
     \/ handle = "awaiting" /\ ~Upgrades /\ relay' = "done" /\ response' = "sent"
  /\ UNCHANGED <<gathering, channel, closed, worker, in_flight, handle, owed, fates, events>>

(* sender.send(Shutdown).await: there is a slot, or it queues for one. *)
RelaySend ==
  /\ \/ /\ relay = "granted" \/ (relay = "upgraded" /\ Taken < ChannelCapacity)
        /\ channel' = Append(channel, Shutdown)
        /\ relay' = "done"
     \/ /\ relay = "upgraded" /\ Taken >= ChannelCapacity
        /\ relay' = "queued"
        /\ UNCHANGED channel
  /\ UNCHANGED <<gathering, closed, worker, in_flight, closing, fates, events>>

(* The runtime drops both tasks, wherever they are, with all they own. *)
RuntimeStops ==
  /\ RuntimeMayStop
  /\ worker # "stopped"
  /\ worker' = "stopped"
  /\ relay' = "done"
  /\ closed' = TRUE
  /\ lost' = lost \cup EventsIn(channel) \cup Range(in_flight)
  /\ channel' = <<>>
  /\ in_flight' = <<>>
  /\ response' = IF response = "pending" THEN "dropped" ELSE response
  /\ UNCHANGED <<gathering, handle, owed, submitted, failed, dropped, oversized, refused,
                 events>>

-----------------------------------------------------------------------------
SizeLists == UNION {[1..n -> Sizes] : n \in 1..MaxLines}

Stream == NextLine \/ Flush \/ DropStream \/ \E sizes \in SizeLists : NextEntry(sizes)
SubmitLoop ==
  \/ Create \/ Receive \/ ReceiveNone \/ Drain \/ Answer
  \/ \E ok \in BOOLEAN : SubmitBatch(ok)
Relay == RelayWake \/ RelaySend
Handle == ShutdownCall \/ ShutdownReturn \/ DropHandle

Next == Stream \/ SubmitLoop \/ Relay \/ Handle \/ RuntimeStops

Spec == Init /\ [][Next]_vars

(* The runtime runs its tasks and requests are answered (the SDK has its own  *)
(* timeouts).  The owner of the stream need not use it, or drop it.           *)
FairSpec == Spec /\ WF_vars(SubmitLoop) /\ WF_vars(Relay) /\ WF_vars(ShutdownReturn)

-----------------------------------------------------------------------------
(* Properties. *)

TypeOK ==
  /\ stream \in {"live", "dropped"} /\ tx \in BOOLEAN /\ closed \in BOOLEAN
  /\ batch \in Seq(Events) /\ lines \in Seq(Events) /\ in_flight \in Seq(Events)
  /\ batch_bytes \in Nat
  /\ channel \in Seq(Seq(Events) \cup {Shutdown})
  /\ Taken <= ChannelCapacity
  /\ worker \in {"create", "recv", "put", "drain", "drain_put", "answer", "done", "stopped"}
  /\ relay \in {"waiting", "upgraded", "queued", "granted", "done"}
  /\ handle \in {"held", "awaiting", "returned", "dropped"}
  /\ response \in {"none", "pending", "sent", "dropped"}
  /\ submitted \in Seq(Events)
  /\ \A s \in {failed, dropped, oversized, refused, lost, owed} : s \subseteq Events
  /\ size \in [Events -> Sizes \cup {0}] /\ made \in 0..MaxEvents

(* Where an event can be. *)
Places == <<Range(lines), Range(batch), EventsIn(channel), Range(in_flight),
            Range(submitted), failed, dropped, oversized, refused, lost>>

(* Every event is in exactly one place: none is put twice, and one that is    *)
(* never put has been reported, unless it was lost to a closed channel.      *)
ExactlyOneFate ==
  /\ UNION Range(Places) = 1..made
  /\ \A i, j \in DOMAIN Places : i # j => Places[i] \cap Places[j] = {}
  /\ \A i, j \in DOMAIN submitted : i # j => submitted[i] # submitted[j]

(* Events go missing without a report only after a shutdown was asked for     *)
(* (or the runtime stopped): dropping the stream alone loses nothing, even   *)
(* of the batch that was not full yet.                                       *)
SilentLossOnlyAfterShutdown ==
  /\ lost # {} => handle \in {"awaiting", "returned"} \/ worker = "stopped"
  /\ stream = "dropped" /\ batch # <<>> =>
       handle \in {"awaiting", "returned"} \/ worker = "stopped"

(* When shutdown() returns, every batch enqueued before the call has been put. *)
(* The exceptions are the documented ones: the stream was dropped before the  *)
(* request reached the submit loop, or the runtime is gone.                   *)
ShutdownDrains ==
  handle = "returned" /\ stream = "live" /\ worker # "stopped" =>
    owed \subseteq Range(submitted) \cup failed

BatchesOut == ({batch} \cup {in_flight} \cup Range(channel)) \ {Shutdown}

(* The bytes of b up to each event, if none exceeds max. *)
RunningTotals(b, max) ==
  {total \in [DOMAIN b -> 0..max] :
     \A i \in DOMAIN b :
       total[i] = (IF i = 1 THEN 0 ELSE total[i - 1]) + size[b[i]] + EventOverhead}

Bounded(b) ==
  Len(b) <= MaxBatchEvents /\ (Len(b) > 1 => RunningTotals(b, MaxBatchBytes) # {})

(* PutLogEvents' limits, with the slack the code has: a batch over the byte   *)
(* limit holds a single event.                                               *)
BatchesAreBounded == \A b \in BatchesOut : tx \/ b # batch => Bounded(b)

(* shutdown() returns. *)
ShutdownReturns == (handle = "awaiting") ~> (handle = "returned")

(* Every enqueued batch is put, or lost with the runtime. *)
EnqueuedIsPut ==
  \A e \in Events :
    (e \in EventsIn(channel)) ~> (e \in Range(submitted) \cup failed \cup lost)

-----------------------------------------------------------------------------
(* The inductive invariant of CwLogsStreamProofs. *)

Asked == handle \in {"awaiting", "returned"}

(* No sequence repeats an event, so moving one never leaves a copy behind. *)
Unrepeated ==
  /\ \A s \in {lines, batch, in_flight, submitted} : IsInjective(s)
  /\ \A i \in DOMAIN channel : channel[i] # Shutdown => IsInjective(channel[i])
  /\ \A i, j \in DOMAIN channel :
       i # j /\ channel[i] # Shutdown /\ channel[j] # Shutdown =>
         Range(channel[i]) \cap Range(channel[j]) = {}

(* There is one request, the relay's last act; the drain meets no other. *)
OneRequest ==
  /\ \A i, j \in DOMAIN channel : channel[i] = Shutdown /\ channel[j] = Shutdown => i = j
  /\ \A i \in DOMAIN channel : channel[i] = Shutdown =>
       Asked /\ relay = "done" /\ worker \in {"create", "recv", "put"}
  /\ worker \in {"drain", "drain_put", "answer"} => relay = "done"
  /\ relay \in {"upgraded", "queued", "granted"} => Asked

(* The channel is closed, and empty for good, from the request or from the    *)
(* departure of the last sender on.                                          *)
Ends ==
  /\ worker \notin {"put", "drain_put"} => in_flight = <<>>
  /\ worker \in {"answer", "done", "stopped"} => channel = <<>>
  /\ closed <=> worker \in {"drain", "drain_put", "answer", "done", "stopped"}
  /\ worker \in {"done", "stopped"} => relay = "done" \/ (relay = "waiting" /\ ~tx)
  /\ stream = "dropped" => lines = <<>> /\ ~tx
  /\ stream = "live" /\ (closed \/ ~tx) /\ worker # "stopped" =>
       Asked /\ closed /\ relay = "done"

(* What shutdown() owes is on its way until it is put. *)
Owing ==
  /\ ~Asked => owed = {}
  /\ worker # "stopped" =>
       owed \subseteq EventsIn(channel) \cup Range(in_flight) \cup Range(submitted) \cup failed
  /\ response = "sent" => worker \in {"done", "stopped"} \/ stream = "dropped"
  /\ response = "dropped" => worker = "stopped"
  /\ handle = "returned" => response \in {"sent", "dropped"} \/ owed = {}

(* batch_bytes is what the batch weighs, and within the limits while there is  *)
(* somebody to send the batch to; so is every batch that was sent.            *)
Limits ==
  /\ batch = <<>> => batch_bytes = 0
  /\ \E total \in RunningTotals(batch, batch_bytes) :
       batch # <<>> => total[Len(batch)] = batch_bytes
  /\ tx => Len(batch) <= MaxBatchEvents /\ (Len(batch) > 1 => batch_bytes <= MaxBatchBytes)
  /\ \A b \in ({in_flight} \cup Range(channel)) \ {Shutdown} : Bounded(b)
=============================================================================
