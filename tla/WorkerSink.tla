----------------------------- MODULE WorkerSink -----------------------------
(***************************************************************************)
(* The background aggregation sink of metrique-aggregation: clients send   *)
(* entries through an unbounded channel to a worker thread, which merges    *)
(* them by key in a KeyedAggregator and emits one row per key when          *)
(* somebody asks for a flush, when the flush interval has passed, or when   *)
(* the last client is gone.                                                *)
(*                                                                         *)
(* Clients may send for ever. An entry of Watched stands for one entry in    *)
(* flight, which may be sent again once it has been emitted; Load stands     *)
(* for all the others, of which any number are in flight.                   *)
(***************************************************************************)
EXTENDS Naturals, Sequences, FiniteSets

CONSTANTS
  Clients,    \* owners of a WorkerSink or of a guard that merges on drop
  Watched,
  Load,
  KeyOf,      \* the key an entry is aggregated by
  Gone,       \* the receiving half of a flush that nobody awaits any more
  MaxQueued   \* bound on the channel, which has none in the code

Entries == Watched \cup {Load}

ASSUME SinkAssumption ==
  /\ Gone \notin Clients
  /\ Load \notin Watched
  /\ DOMAIN KeyOf = Entries
  /\ MaxQueued \in Nat

VARIABLES
  client,     \* what each client is doing
  channel,    \* the messages the worker has not received
  storage,    \* KeyedAggregator::storage: the entries merged, by key
  drain,      \* what the running flush has still to emit
  pc,         \* the worker: "recv", "flush", "exited", "dead" (panicked)
  due,        \* flush_interval has passed since last_flush
  answer,     \* who is told when the running flush is over
  exiting,    \* the running flush is the last
  fate,       \* history: what became of each entry
  covers      \* history: what a flush has still to see emitted

aggregator == <<storage, drain>>
worker == <<pc, answer, exiting>>
vars == <<client, channel, aggregator, worker, due, fate, covers>>

Keys == {KeyOf[e] : e \in Entries}

(* QueueMessage *)
Message == [entry : Entries] \cup [flush : Clients \cup {Gone}]

ClientStates ==
  {"out", "idle", "awaiting", "returned", "panicked", "guarding", "merged"}

(* Aggregates by key; a key without an entry has none. *)
Aggregates == UNION {[K -> (SUBSET Entries) \ {{}}] : K \in SUBSET Keys}

Empty == [k \in {} |-> {}]

-----------------------------------------------------------------------------
(* The state of the channel and of its two ends. *)

Sent == {e \in Watched : fate[e] = "sent"}

(* The receiver lives as long as the worker's closure. *)
Alive == pc \notin {"exited", "dead"}

(* Every client that is not out owns a sender, directly or in its guard. *)
Senders == {t \in Clients : client[t] # "out"}

Init ==
  /\ \E t \in Clients : client = [u \in Clients |-> IF u = t THEN "idle" ELSE "out"]
  /\ channel = <<>>
  /\ storage = Empty
  /\ drain = Empty
  /\ pc = "recv"
  /\ due = FALSE
  /\ answer = Gone
  /\ exiting = FALSE
  /\ fate = [e \in Watched |-> "new"]
  /\ covers = [t \in Clients |-> {}]

-----------------------------------------------------------------------------
(* Clients. *)

Become(t, state) == client' = [client EXCEPT ![t] = state]

(* send, which ignores that the receiver is gone. *)
Enqueue(e) ==
  /\ e \notin Sent
  /\ Len(channel) < MaxQueued
  /\ channel' = IF Alive THEN Append(channel, [entry |-> e]) ELSE channel
  /\ fate' = [w \in Watched |->
                IF w # e THEN fate[w] ELSE IF Alive THEN "sent" ELSE "lost"]
  /\ UNCHANGED <<aggregator, worker, due, covers>>

Send(t, e) ==
  /\ client[t] = "idle"
  /\ Enqueue(e)
  /\ UNCHANGED client

(* Drop of a MergeOnDrop or CloseAndMergeOnDrop: the value is merged, and its *)
(* target dropped afterwards.                                                *)
DropGuard(t, e) ==
  /\ client[t] = "guarding"
  /\ Enqueue(e)
  /\ Become(t, "merged")

(* flush, up to its await. A message that cannot be sent is dropped, and the *)
(* unwrap of the answer panics.                                              *)
FlushCall(t) ==
  /\ client[t] = "idle"
  /\ Len(channel) < MaxQueued
  /\ IF Alive
     THEN /\ channel' = Append(channel, [flush |-> t])
          /\ covers' = [covers EXCEPT ![t] = Sent]
          /\ Become(t, "awaiting")
     ELSE /\ Become(t, "panicked")
          /\ UNCHANGED <<channel, covers>>
  /\ UNCHANGED <<aggregator, worker, due, fate>>

(* The future of a flush is dropped before it resolves. *)
CancelFlush(t) ==
  /\ client[t] = "awaiting"
  /\ Become(t, "idle")
  /\ channel' = [i \in DOMAIN channel |->
                   IF channel[i] = [flush |-> t] THEN [flush |-> Gone] ELSE channel[i]]
  /\ answer' = IF answer = t THEN Gone ELSE answer
  /\ covers' = [covers EXCEPT ![t] = {}]
  /\ UNCHANGED <<aggregator, pc, exiting, due, fate>>

(* The caller goes on after its flush. *)
Resume(t) ==
  /\ client[t] \in {"returned", "panicked"}
  /\ Become(t, "idle")
  /\ UNCHANGED <<channel, aggregator, worker, due, fate, covers>>

(* A clone of the sink for u, or a guard over one. *)
Share(t, u, state) ==
  /\ client[t] = "idle"
  /\ client[u] = "out"
  /\ Become(u, state)
  /\ UNCHANGED <<channel, aggregator, worker, due, fate, covers>>

Drop(t) ==
  /\ client[t] \in {"idle", "merged"}
  /\ Become(t, "out")
  /\ UNCHANGED <<channel, aggregator, worker, due, fate, covers>>

-----------------------------------------------------------------------------
(* The worker. *)

(* The clock: flush_interval has passed. *)
Tick ==
  /\ Alive
  /\ ~due
  /\ due' = TRUE
  /\ UNCHANGED <<client, channel, aggregator, worker, fate, covers>>

(* get_or_create_accum, and the entry merged into the accumulator. *)
Merged(e) ==
  [k \in DOMAIN storage \cup {KeyOf[e]} |->
     (IF k \in DOMAIN storage THEN storage[k] ELSE {})
       \cup (IF k = KeyOf[e] THEN {e} ELSE {})]

(* Mutation: flush iterates over the aggregates without draining them. *)
StartFlushKeeps(aggregates) ==
  /\ drain' = aggregates
  /\ storage' = aggregates
  /\ pc' = "flush"

(* KeyedAggregator::flush begins to drain the storage. *)
StartFlush(aggregates) ==
  /\ drain' = aggregates
  /\ storage' = Empty
  /\ pc' = "flush"

(* Mutation: only recv_timeout watches the interval. *)
NeverDue == FALSE

(* threshold_elapsed *)
FlushesAfterMerge == due

RecvEntry ==
  /\ pc = "recv"
  /\ channel # <<>>
  /\ "entry" \in DOMAIN Head(channel)
  /\ channel' = Tail(channel)
  /\ LET merged == Merged(Head(channel).entry)
     IN IF FlushesAfterMerge
        THEN StartFlush(merged)
        ELSE storage' = merged /\ UNCHANGED <<drain, pc>>
  /\ UNCHANGED <<client, answer, exiting, due, fate, covers>>

(* Mutation: the answer is sent before the flush. *)
RecvFlushAnswersFirst ==
  /\ pc = "recv"
  /\ channel # <<>>
  /\ "flush" \in DOMAIN Head(channel)
  /\ channel' = Tail(channel)
  /\ StartFlush(storage)
  /\ client' = [t \in Clients |-> IF Head(channel).flush = t THEN "returned" ELSE client[t]]
  /\ UNCHANGED <<answer, exiting, due, fate, covers>>

RecvFlush ==
  /\ pc = "recv"
  /\ channel # <<>>
  /\ "flush" \in DOMAIN Head(channel)
  /\ channel' = Tail(channel)
  /\ StartFlush(storage)
  /\ answer' = Head(channel).flush
  /\ UNCHANGED <<client, exiting, due, fate, covers>>

Timeout ==
  /\ pc = "recv"
  /\ channel = <<>>
  /\ Senders # {}
  /\ due
  /\ StartFlush(storage)
  /\ UNCHANGED <<client, channel, answer, exiting, due, fate, covers>>

Disconnected ==
  /\ pc = "recv"
  /\ channel = <<>>
  /\ Senders = {}
  /\ StartFlush(storage)
  /\ exiting' = TRUE
  /\ UNCHANGED <<client, channel, answer, due, fate, covers>>

(* One turn of flush's loop: the row of key k is appended to the inner sink. *)
Emit(k) ==
  /\ pc = "flush"
  /\ k \in DOMAIN drain
  /\ drain' = [j \in DOMAIN drain \ {k} |-> drain[j]]
  /\ fate' = [e \in Watched |-> IF e \in drain[k] THEN "emitted" ELSE fate[e]]
  /\ covers' = [t \in Clients |-> covers[t] \ drain[k]]
  /\ UNCHANGED <<client, channel, storage, worker, due>>

(* flush is over: last_flush is set and the answer sent, or the worker ends. *)
FlushDone ==
  /\ pc = "flush"
  /\ DOMAIN drain = {}
  /\ pc' = IF exiting THEN "exited" ELSE "recv"
  /\ due' = (exiting /\ due)
  /\ answer' = Gone
  /\ client' = [t \in Clients |-> IF t = answer THEN "returned" ELSE client[t]]
  /\ UNCHANGED <<channel, aggregator, exiting, fate, covers>>

(* Mutation: flushes that are queued when the worker dies are forgotten. *)
OrphansTold == {answer}

(* With the receiver and the worker's stack all the answers are dropped. *)
Orphans == {t \in Clients : client[t] = "awaiting"}

(* Merging, closing or appending panics: the worker unwinds, and with it go   *)
(* the aggregates and the channel.                                           *)
Panic ==
  /\ \/ pc = "recv" /\ channel # <<>> /\ "entry" \in DOMAIN Head(channel)
     \/ pc = "flush" /\ DOMAIN drain # {}
  /\ pc' = "dead"
  /\ channel' = <<>>
  /\ storage' = Empty
  /\ drain' = Empty
  /\ answer' = Gone
  /\ client' = [t \in Clients |-> IF t \in Orphans THEN "panicked" ELSE client[t]]
  /\ fate' = [e \in Watched |-> IF e \in Sent THEN "lost" ELSE fate[e]]
  /\ UNCHANGED <<exiting, due, covers>>

-----------------------------------------------------------------------------
Worker ==
  \/ RecvEntry
  \/ RecvFlush
  \/ Timeout
  \/ Disconnected
  \/ \E k \in Keys : Emit(k)
  \/ FlushDone

Client(t) ==
  \/ \E e \in Entries : Send(t, e) \/ DropGuard(t, e)
  \/ FlushCall(t)
  \/ CancelFlush(t)
  \/ Resume(t)
  \/ \E u \in Clients, state \in {"idle", "guarding"} : Share(t, u, state)
  \/ Drop(t)

Next == Worker \/ Tick \/ Panic \/ \E t \in Clients : Client(t)

Spec == Init /\ [][Next]_vars

(* The worker thread runs and time passes. Nothing is assumed of the clients. *)
FairSpec == Spec /\ WF_vars(Worker) /\ WF_vars(Tick)

-----------------------------------------------------------------------------
TypeOK ==
  /\ client \in [Clients -> ClientStates]
  /\ channel \in Seq(Message) /\ Len(channel) <= MaxQueued
  /\ storage \in Aggregates
  /\ drain \in Aggregates
  /\ pc \in {"recv", "flush", "exited", "dead"}
  /\ due \in BOOLEAN
  /\ answer \in Clients \cup {Gone}
  /\ exiting \in BOOLEAN
  /\ fate \in [Watched -> {"new", "sent", "emitted", "lost"}]
  /\ covers \in [Clients -> SUBSET Watched]

Queued(e) == {i \in DOMAIN channel : channel[i] = [entry |-> e]}
Stored(e) == {k \in DOMAIN storage : e \in storage[k]}
Draining(e) == {k \in DOMAIN drain : e \in drain[k]}

(* An entry that was sent and not yet emitted or lost is in exactly one       *)
(* message or in exactly one aggregate, the one of its key; any other entry   *)
(* is in none. So each send is emitted in one row; and a worker that ends    *)
(* because no client is left has emitted everything, however drops, timeouts *)
(* and flushes interleaved.                                                  *)
EachInOnePlace ==
  /\ \A e \in Watched :
       /\ Stored(e) \cup Draining(e) \subseteq {KeyOf[e]}
       /\ Cardinality(Queued(e)) + Cardinality(Stored(e)) + Cardinality(Draining(e))
            = (IF e \in Sent THEN 1 ELSE 0)
  /\ pc = "exited" => Sent = {} /\ Senders = {} /\ channel = <<>>

(* When flush returns, every entry sent before it was called, by any client,  *)
(* has been emitted.                                                         *)
FlushCovers == \A t \in Clients : client[t] = "returned" => covers[t] = {}

(* An entry does not wait for ever in its aggregate, even if new entries keep *)
(* the channel from ever being empty.                                        *)
SentIsEmitted == \A e \in Watched : (fate[e] = "sent") ~> (fate[e] \in {"emitted", "lost"})

(* Nobody hangs: flush returns or panics, and without clients the worker ends. *)
NobodyHangs ==
  /\ \A t \in Clients : (client[t] = "awaiting") ~> (client[t] # "awaiting")
  /\ (Senders = {}) ~> ~Alive

-----------------------------------------------------------------------------
(* The inductive invariant of WorkerSinkProofs. *)

Held(aggregates) == UNION {aggregates[k] : k \in DOMAIN aggregates}

(* The entries whose message is before the i-th. *)
QueuedBefore(i) == {e \in Entries : \E j \in DOMAIN channel : j < i /\ channel[j] = [entry |-> e]}

(* Entries are merged only between flushes, the aggregates are drained only    *)
(* in one, and what the last flush finds is all there will ever be.           *)
Phases ==
  /\ pc = "recv" => DOMAIN drain = {} /\ answer = Gone
  /\ pc # "recv" => DOMAIN storage = {}
  /\ ~Alive => channel = <<>> /\ DOMAIN drain = {} /\ answer = Gone
  /\ exiting => pc # "recv" /\ Senders = {} /\ channel = <<>>
  /\ pc = "exited" => exiting

(* EachInOnePlace without counting. *)
KeptOnce ==
  /\ \A k \in DOMAIN storage : \A e \in storage[k] : KeyOf[e] = k
  /\ \A k \in DOMAIN drain : \A e \in drain[k] : KeyOf[e] = k
  /\ \A e \in Watched, i \in DOMAIN channel :
       channel[i] = [entry |-> e] =>
         /\ e \notin Held(storage) \cup Held(drain)
         /\ \A j \in DOMAIN channel : channel[j] = [entry |-> e] => j = i
  /\ \A e \in Watched :
       e \in Sent <=> \/ e \in Held(storage) \cup Held(drain)
                      \/ \E i \in DOMAIN channel : channel[i] = [entry |-> e]

(* What a flush has still to see emitted is ahead of it: already merged, or    *)
(* in a message before its own; and each awaited flush has one message or is  *)
(* the one that runs.                                                         *)
FlushIsBehind ==
  /\ \A t \in Clients : answer = t =>
       client[t] = "awaiting" /\ covers[t] \subseteq Held(drain)
  /\ \A t \in Clients, i \in DOMAIN channel :
       channel[i] = [flush |-> t] =>
         /\ client[t] = "awaiting" /\ answer # t
         /\ \A j \in DOMAIN channel : channel[j] = [flush |-> t] => j = i
         /\ covers[t] \subseteq Held(storage) \cup Held(drain) \cup QueuedBefore(i)
  /\ FlushCovers
=============================================================================
