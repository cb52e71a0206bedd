----------------------------- MODULE GlobalSink -----------------------------
(***************************************************************************)
(* The global entry sink of metrique-writer-core (global.rs): a static,      *)
(* read-write locked slot that holds the attached sink.  attach fills it and *)
(* returns an AttachHandle; dropping the handle runs the registered shutdown *)
(* functions, last registered first, then empties the slot and drops what    *)
(* was in it, which shuts the attached queue down; forgetting the handle     *)
(* leaves everything running.                                               *)
(*                                                                         *)
(* An attachment is the number of its attach call, an entry the number of    *)
(* its append, a shutdown function the number of its registration.  The      *)
(* attached queue is modelled by its promise, that dropping its handle       *)
(* writes what was appended before (ShutdownDrains of BackgroundQueue).      *)
(* attach on a slot that is taken, and the panicking forms of sink and       *)
(* append, change nothing and are left out, as are the test sinks, which     *)
(* divert a thread's calls before they reach the slot.                       *)
(***************************************************************************)
EXTENDS Integers, Sequences, FiniteSets, SequencesExt

CONSTANTS
  Threads,
  MaxAttach,     (* bound on attach calls                                   *)
  MaxEntries,    (* bound on appends                                        *)
  MaxFns         (* bound on registrations                                  *)

ASSUME BoundsAssumption == MaxAttach \in Nat /\ MaxEntries \in Nat /\ MaxFns \in Nat

Attachments == 1..MaxAttach
Entries == 1..MaxEntries
Fns == 1..MaxFns

VARIABLES
  attached,      (* ATTACHED: the attachment in the slot, 0 for None         *)
  writing,       (* the attachment whose handle holds the write lock, 0 for none *)
  (* threads *)
  at,            (* at[t]: where thread t is                                 *)
  seen,          (* seen[t]: the attachment it read from the slot            *)
  holds,         (* holds[t]: the entry or function it carries               *)
  clone,         (* clone[t]: the attachment whose BoxEntrySink it holds, 0   *)
  (* attach handles and their registries *)
  handle,        (* handle[g]: the life of the AttachHandle                  *)
  open,          (* open[g]: the ShutdownRegistry is not drained             *)
  subscribers,   (* subscribers[g]: its functions, in order of registration  *)
  todo,          (* todo[g]: armed ShutdownOnDrop guards, next one first     *)
  unwinding,     (* unwinding[g]: panics in flight in the drop               *)
  aborted,       (* a second panic while unwinding aborts the process        *)
  (* attached queues *)
  queue,         (* queue[g]: entries appended to it, not written            *)
  written,       (* written[g]                                               *)
  thread,        (* thread[g]: "running", "asked", "reporting" or "stopped"   *)
  (* history *)
  made,          (* number of appends so far                                 *)
  fns,           (* number of registrations so far                           *)
  accepted,      (* accepted[g]: entries try_append returned Ok for          *)
  ran,           (* ran[g]: functions that were called, in order             *)
  forgotten      (* attachments whose handle was forgotten                   *)

slot == <<attached, writing>>
calls == <<at, seen, holds, clone>>
handles == <<handle, open, subscribers, todo, unwinding, aborted, forgotten>>
queues == <<queue, written, thread>>
history == <<made, fns, accepted, ran>>
vars == <<slot, calls, handles, queues, history>>

Init ==
  /\ attached = 0 /\ writing = 0
  /\ at = [t \in Threads |-> "idle"]
  /\ seen = [t \in Threads |-> 0]
  /\ holds = [t \in Threads |-> 0]
  /\ clone = [t \in Threads |-> 0]
  /\ handle = [g \in Attachments |-> "none"]
  /\ open = [g \in Attachments |-> FALSE]
  /\ subscribers = [g \in Attachments |-> <<>>]
  /\ todo = [g \in Attachments |-> <<>>]
  /\ unwinding = [g \in Attachments |-> 0]
  /\ aborted = FALSE
  /\ queue = [g \in Attachments |-> {}]
  /\ written = [g \in Attachments |-> {}]
  /\ thread = [g \in Attachments |-> "stopped"]
  /\ made = 0 /\ fns = 0
  /\ accepted = [g \in Attachments |-> {}]
  /\ ran = [g \in Attachments |-> <<>>]
  /\ forgotten = {}

-----------------------------------------------------------------------------
(* The lock. *)

(* Mutation: append lets go of the lock before it appends. *)
ReadersButAppend == {t \in Threads : at[t] = "register"}

(* Threads inside a read-locked section that another step can interrupt. *)
Readers == {t \in Threads : at[t] \in {"append", "register"}}

ReportersIn == {g \in Attachments : thread[g] = "reporting"}

(* A read lock can be taken; a write lock can be taken. *)
CanRead == writing = 0
CanWrite == writing = 0 /\ Readers = {} /\ ReportersIn = {}

-----------------------------------------------------------------------------
(* attach *)

(* write.is_some() is a panic that leaves the slot alone. *)
Vacant == attached = 0

Attach(g) ==
  /\ CanWrite
  /\ Vacant
  /\ handle[g] = "none"
  /\ \A h \in 1..(g - 1) : handle[h] # "none"
  /\ attached' = g
  /\ handle' = [handle EXCEPT ![g] = "held"]
  /\ open' = [open EXCEPT ![g] = TRUE]
  /\ thread' = [thread EXCEPT ![g] = "running"]
  /\ UNCHANGED <<writing, calls, subscribers, todo, unwinding, aborted, forgotten, queue,
                 written, history>>

-----------------------------------------------------------------------------
(* Callers. *)

(* try_append on an empty slot, which returns the entry, or with the slot     *)
(* read-locked.                                                              *)
TryAppend(t) ==
  /\ at[t] = "idle"
  /\ made < MaxEntries
  /\ made' = made + 1
  /\ CanRead
  /\ \/ /\ attached = 0
        /\ UNCHANGED <<at, seen, holds>>
     \/ /\ attached # 0
        /\ at' = [at EXCEPT ![t] = "append"]
        /\ seen' = [seen EXCEPT ![t] = attached]
        /\ holds' = [holds EXCEPT ![t] = made + 1]
  /\ UNCHANGED <<slot, clone, handles, queues, fns, accepted, ran>>

Done(t) ==
  /\ at' = [at EXCEPT ![t] = "idle"]
  /\ seen' = [seen EXCEPT ![t] = 0]
  /\ holds' = [holds EXCEPT ![t] = 0]

(* attached.sink.0.append(entry), and the read lock is released. *)
AppendInside(t) ==
  /\ at[t] = "append"
  /\ queue' = [queue EXCEPT ![seen[t]] = @ \cup {holds[t]}]
  /\ accepted' = [accepted EXCEPT ![seen[t]] = @ \cup {holds[t]}]
  /\ Done(t)
  /\ UNCHANGED <<slot, clone, handles, written, thread, made, fns, ran>>

(* try_sink, and the first half of a LazySink's append: a clone of the sink. *)
TrySink(t) ==
  /\ at[t] = "idle"
  /\ clone[t] = 0
  /\ CanRead /\ attached # 0
  /\ clone' = [clone EXCEPT ![t] = attached]
  /\ UNCHANGED <<slot, at, seen, holds, handles, queues, history>>

(* Appending to that clone, which the slot knows nothing of. *)
AppendToClone(t) ==
  /\ at[t] = "idle"
  /\ clone[t] # 0
  /\ made < MaxEntries
  /\ made' = made + 1
  /\ queue' = [queue EXCEPT ![clone[t]] = @ \cup {made + 1}]
  /\ clone' = [clone EXCEPT ![t] = 0]
  /\ UNCHANGED <<slot, at, seen, holds, handles, written, thread, fns, accepted, ran>>

(* register_shutdown_fn: read-lock, find the slot taken and upgrade the weak  *)
(* registry, which lives as long as its handle.                              *)
RegisterRead(t) ==
  /\ at[t] = "idle"
  /\ CanRead /\ attached # 0
  /\ handle[attached] \in {"held", "dropping"}
  /\ fns < MaxFns
  /\ fns' = fns + 1
  /\ at' = [at EXCEPT ![t] = "register"]
  /\ seen' = [seen EXCEPT ![t] = attached]
  /\ holds' = [holds EXCEPT ![t] = fns + 1]
  /\ UNCHANGED <<slot, clone, handles, queues, made, accepted, ran>>

(* Mutation: push does not notice that the registry was drained. *)
PushAnyway(g) == TRUE

(* ShutdownRegistry::push's answer. *)
PushAccepts(g) == open[g]

(* ... registry.push(f), which panics when the registry has been drained; the *)
(* read lock is released either way.                                         *)
RegisterPush(t) ==
  LET g == seen[t] IN
  /\ at[t] = "register"
  /\ IF PushAccepts(g)
     THEN subscribers' = [subscribers EXCEPT ![g] = Append(@, holds[t])]
     ELSE UNCHANGED subscribers
  /\ Done(t)
  /\ UNCHANGED <<slot, clone, handle, open, todo, unwinding, aborted, forgotten, queues,
                 made, fns, accepted, ran>>

-----------------------------------------------------------------------------
(* Dropping and forgetting an AttachHandle. *)

(* The order in which the armed guards are dropped. *)
Lifo(s) == Reverse(s)

(* Drop: close the registry and arm every guard. *)
DropDrain(g) ==
  /\ handle[g] = "held"
  /\ handle' = [handle EXCEPT ![g] = "dropping"]
  /\ open' = [open EXCEPT ![g] = FALSE]
  /\ todo' = [todo EXCEPT ![g] = Lifo(subscribers[g])]
  /\ UNCHANGED <<slot, calls, subscribers, unwinding, aborted, forgotten, queues, history>>

(* A panic out of a drop that runs because of a panic aborts the process. *)
Aborts(g, panics) == panics /\ unwinding[g] = 1

(* Drop: the next guard runs its function, which may panic. *)
RunSubscriber(g, panics) ==
  /\ handle[g] = "dropping"
  /\ todo[g] # <<>>
  /\ ran' = [ran EXCEPT ![g] = Append(@, Head(todo[g]))]
  /\ todo' = [todo EXCEPT ![g] = Tail(@)]
  /\ aborted' = Aborts(g, panics)
  /\ unwinding' = [unwinding EXCEPT ![g] = IF panics /\ ~Aborts(g, panics) THEN @ + 1 ELSE @]
  /\ UNCHANGED <<slot, calls, handle, open, subscribers, forgotten, queues, made,
                 fns, accepted>>

(* Mutations: the slot is emptied before the functions ran; and what was in   *)
(* it is dropped while the write lock is still held.                          *)
DetachAtOnce(g) == TRUE
LockKept(g) == g

(* _detach is declared before the subscribers, so it is dropped after them. *)
DetachIsNext(g) == todo[g] = <<>>

(* The write guard is a temporary of the statement that takes the state. *)
LockAfterTake(g) == 0

(* The detach function: take the state out of the slot ... *)
DetachTake(g) ==
  /\ handle[g] = "dropping"
  /\ DetachIsNext(g)
  /\ CanWrite
  /\ attached' = 0
  /\ writing' = LockAfterTake(g)
  /\ handle' = [handle EXCEPT ![g] = "joining"]
  /\ thread' = [thread EXCEPT ![g] = "asked"]
  /\ UNCHANGED <<calls, open, subscribers, todo, unwinding, aborted, forgotten, queue,
                 written, history>>

(* ... and drop it, which joins the queue's thread. *)
DetachJoin(g) ==
  /\ handle[g] = "joining"
  /\ thread[g] = "stopped"
  /\ handle' = [handle EXCEPT ![g] = "dropped"]
  /\ writing' = IF writing = g THEN 0 ELSE writing
  /\ UNCHANGED <<attached, calls, open, subscribers, todo, unwinding, aborted, forgotten,
                 queues, history>>

(* Mutation: forget leaves the registry to the handle's drop. *)
ForgetThenDrop == "held"

(* forget takes the registry, so that the drop finds nothing to run. *)
ForgetThen == "forgotten"

Forget(g) ==
  /\ handle[g] = "held"
  /\ handle' = [handle EXCEPT ![g] = ForgetThen]
  /\ open' = [open EXCEPT ![g] = FALSE]
  /\ forgotten' = forgotten \cup {g}
  /\ UNCHANGED <<slot, calls, subscribers, todo, unwinding, aborted, queues, history>>

-----------------------------------------------------------------------------
(* The attached queue's thread: it writes what is there when it is asked to   *)
(* stop, may report through the global sink (its observer is the             *)
(* application's code), and ends.                                            *)

QueueDrains(g) ==
  /\ thread[g] = "asked"
  /\ written' = [written EXCEPT ![g] = @ \cup queue[g]]
  /\ queue' = [queue EXCEPT ![g] = {}]
  /\ thread' = [thread EXCEPT ![g] = "drained"]
  /\ UNCHANGED <<slot, calls, handles, history>>

QueueReports(g) ==
  /\ thread[g] = "drained"
  /\ CanRead
  /\ thread' = [thread EXCEPT ![g] = "reporting"]
  /\ UNCHANGED <<slot, calls, handles, queue, written, history>>

QueueEnds(g) ==
  /\ thread[g] = "reporting"
  /\ thread' = [thread EXCEPT ![g] = "stopped"]
  /\ UNCHANGED <<slot, calls, handles, queue, written, history>>

-----------------------------------------------------------------------------
Caller(t) ==
  \/ TryAppend(t) \/ AppendInside(t) \/ TrySink(t) \/ AppendToClone(t)
  \/ RegisterRead(t) \/ RegisterPush(t)

Dropping(g) ==
  \/ DetachTake(g) \/ DetachJoin(g)
  \/ \E panics \in BOOLEAN : RunSubscriber(g, panics)

Queue(g) == QueueDrains(g) \/ QueueReports(g) \/ QueueEnds(g)

Next ==
  /\ ~aborted
  /\ \/ \E t \in Threads : Caller(t)
     \/ \E g \in Attachments : Attach(g) \/ DropDrain(g) \/ Forget(g) \/ Dropping(g) \/ Queue(g)

Spec == Init /\ [][Next]_vars

(* Threads inside a read-locked section leave it, the queue's thread is       *)
(* scheduled, and the drop of a handle continues.  A waiting writer is not    *)
(* overtaken by readers for ever: std's RwLock prefers writers.               *)
FairSpec ==
  /\ Spec
  /\ \A t \in Threads : WF_vars(~aborted /\ (AppendInside(t) \/ RegisterPush(t)))
  /\ \A g \in Attachments :
       /\ WF_vars(~aborted /\ Queue(g))
       /\ SF_vars(~aborted /\ Dropping(g))

-----------------------------------------------------------------------------
(* Properties. *)

TypeOK ==
  /\ attached \in 0..MaxAttach /\ writing \in 0..MaxAttach
  /\ at \in [Threads -> {"idle", "append", "register"}]
  /\ seen \in [Threads -> 0..MaxAttach] /\ clone \in [Threads -> 0..MaxAttach]
  /\ holds \in [Threads -> Nat]
  /\ handle \in [Attachments -> {"none", "held", "dropping", "joining", "dropped", "forgotten"}]
  /\ open \in [Attachments -> BOOLEAN]
  /\ subscribers \in [Attachments -> Seq(Fns)] /\ todo \in [Attachments -> Seq(Fns)]
  /\ ran \in [Attachments -> Seq(Fns)]
  /\ unwinding \in [Attachments -> {0, 1}] /\ aborted \in BOOLEAN
  /\ queue \in [Attachments -> SUBSET Entries] /\ written \in [Attachments -> SUBSET Entries]
  /\ thread \in [Attachments -> {"running", "asked", "drained", "reporting", "stopped"}]
  /\ made \in 0..MaxEntries /\ fns \in 0..MaxFns
  /\ accepted \in [Attachments -> SUBSET Entries]
  /\ forgotten \subseteq Attachments

(* A handle that is held, or is still running shutdown functions, owns the    *)
(* slot: its functions can emit through the sink, and its detach takes its    *)
(* own attachment out and no later one. A forgotten attachment is never taken *)
(* out of the slot.                                                           *)
HandleOwnsSlot ==
  \A g \in Attachments :
    g \in forgotten \/ handle[g] \in {"held", "dropping"} \/ todo[g] # <<>> => attached = g

(* Every shutdown function that register_shutdown_fn took has been called     *)
(* exactly once when the handle's drop gets to the detach, last registered    *)
(* first, whether or not an earlier one panicked, and none that it refused    *)
(* has.                                                                       *)
ShutdownFnsRun ==
  \A g \in Attachments :
    handle[g] \in {"joining", "dropped"} => ran[g] = Reverse(subscribers[g])

(* An entry for which append through the global sink returned Ok is written   *)
(* by the time the handle's drop returns: append holds the lock the detach    *)
(* needs, so it cannot land in a queue that is already shut down.             *)
AcceptedIsWritten ==
  \A g \in Attachments : handle[g] = "dropped" => accepted[g] \subseteq written[g]

(* Dropping the handle returns, also when the queue's own thread uses the     *)
(* global sink on its way out, unless two functions panic and the process     *)
(* aborts.                                                                    *)
DropReturns ==
  \A g \in Attachments : (handle[g] = "dropping") ~> (handle[g] = "dropped" \/ aborted)

-----------------------------------------------------------------------------
(***************************************************************************)
(* The inductive invariant behind HandleOwnsSlot, ShutdownFnsRun and         *)
(* AcceptedIsWritten.                                                        *)
(***************************************************************************)

(* The slot holds the attachment whose handle has not detached it, and a     *)
(* thread inside a read-locked section reads what is in the slot.             *)
SlotIsOwned ==
  /\ writing = 0
  /\ \A g \in Attachments : handle[g] \in {"held", "dropping", "forgotten"} <=> attached = g
  /\ \A g \in forgotten : handle[g] = "forgotten"
  /\ \A t \in Threads : at[t] # "idle" => seen[t] = attached /\ attached # 0
  /\ \A t \in Threads : /\ at[t] = "append" => holds[t] \in Entries
                        /\ at[t] = "register" => holds[t] \in Fns

(* The registry is open as long as the handle is held; what ran and what is   *)
(* still armed is what was registered, last registered first.                 *)
FnsAreKept ==
  \A g \in Attachments :
    /\ open[g] <=> handle[g] = "held"
    /\ todo[g] # <<>> => handle[g] = "dropping"
    /\ handle[g] \in {"none", "held"} => ran[g] = <<>>
    /\ handle[g] \in {"dropping", "joining", "dropped"} =>
         ran[g] \o todo[g] = Reverse(subscribers[g])

(* A queue runs until its handle asks it to stop; what was accepted is in it   *)
(* or written, and written once it was drained.                                *)
QueueKeeps ==
  \A g \in Attachments :
    /\ handle[g] = "none" => thread[g] = "stopped"
    /\ handle[g] \in {"held", "dropping", "forgotten"} <=> thread[g] = "running"
    /\ handle[g] = "dropped" => thread[g] = "stopped"
    /\ accepted[g] \subseteq queue[g] \cup written[g]
    /\ thread[g] \in {"drained", "reporting", "stopped"} => accepted[g] \subseteq written[g]

IInv == TypeOK /\ SlotIsOwned /\ FnsAreKept /\ QueueKeeps
=============================================================================
