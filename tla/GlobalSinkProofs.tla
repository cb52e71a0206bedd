-------------------------- MODULE GlobalSinkProofs --------------------------
(***************************************************************************)
(* Proofs about GlobalSink, for every number of threads, attachments,       *)
(* appends and registrations.                                               *)
(***************************************************************************)
EXTENDS GlobalSink, SequenceTheorems, TLAPS

USE BoundsAssumption

(* Attachments are numbered from one; zero stands for none. *)
LEMMA Numbered ==
  /\ \A g \in Attachments : g # 0 /\ g \in 0..MaxAttach
  /\ \A g \in 0..MaxAttach : g # 0 => g \in Attachments
  /\ 0 \in 0..MaxAttach
BY DEF Attachments

(* The armed guards are the registered functions, so they can be run. *)
LEMMA ReverseType ==
  ASSUME NEW S, NEW s \in Seq(S)
  PROVE  Reverse(s) \in Seq(S)
<1>1. Len(s) \in Nat /\ \A i \in 1..Len(s) : s[(Len(s) - i) + 1] \in S
  OBVIOUS
<1> QED BY <1>1, IsASeq DEF Reverse

(* Running the first armed guard moves its function from the armed ones to the *)
(* ones that ran.                                                             *)
LEMMA RunMovesHead ==
  ASSUME NEW S, NEW a \in Seq(S), NEW b \in Seq(S), b # <<>>
  PROVE  /\ Head(b) \in S /\ Tail(b) \in Seq(S) /\ Append(a, Head(b)) \in Seq(S)
         /\ Append(a, Head(b)) \o Tail(b) = a \o b
<1>1. Head(b) \in S /\ Tail(b) \in Seq(S) /\ Append(a, Head(b)) \in Seq(S)
  OBVIOUS
<1>2. <<Head(b)>> \in Seq(S) /\ <<Head(b)>> \o Tail(b) = b
  BY HeadTailProperties, <1>1
<1>3. Append(a, Head(b)) = a \o <<Head(b)>>
  BY <1>1, AppendIsConcat
<1>4. (a \o <<Head(b)>>) \o Tail(b) = a \o (<<Head(b)>> \o Tail(b))
  BY <1>1, <1>2, ConcatAssociative
<1> QED BY <1>1, <1>2, <1>3, <1>4

-----------------------------------------------------------------------------
(* attach takes the vacant slot: no thread reads it, no queue is running. *)
LEMMA AttachKeeps ==
  ASSUME IInv, NEW g \in Attachments, Attach(g)
  PROVE  IInv'
<1>1. /\ attached = 0 /\ attached' = g /\ handle[g] = "none" /\ g \in Nat \ {0}
      /\ handle' = [handle EXCEPT ![g] = "held"]
      /\ open' = [open EXCEPT ![g] = TRUE]
      /\ thread' = [thread EXCEPT ![g] = "running"]
      /\ \A t \in Threads : at[t] = "idle"
      /\ UNCHANGED <<writing, calls, subscribers, todo, unwinding, aborted, forgotten, queue,
                     written, history>>
  BY DEF Attach, Vacant, CanWrite, Readers, IInv, TypeOK, Attachments
<1>2. TypeOK'
  BY <1>1 DEF IInv, TypeOK, calls, history, Attachments
<1>3. SlotIsOwned'
  <2>1. \A h \in Attachments : handle'[h] \in {"held", "dropping", "forgotten"} <=> h = g
    BY <1>1 DEF IInv, TypeOK, SlotIsOwned, Attachments
  <2> QED BY <1>1, <2>1 DEF IInv, SlotIsOwned, TypeOK, calls
<1>4. FnsAreKept'
  BY <1>1 DEF IInv, FnsAreKept, TypeOK, history
<1>5. QueueKeeps'
  BY <1>1 DEF IInv, QueueKeeps, TypeOK, history
<1> QED BY <1>2, <1>3, <1>4, <1>5 DEF IInv

(* try_append and register_shutdown_fn read the slot they then work on. *)
LEMMA ReadsKeep ==
  ASSUME IInv, NEW t \in Threads, TryAppend(t) \/ RegisterRead(t) \/ TrySink(t)
  PROVE  IInv'
<1>1. UNCHANGED <<slot, handles, queues, accepted, ran>>
  BY DEF TryAppend, RegisterRead, TrySink, history
<1>2. FnsAreKept' /\ QueueKeeps'
  BY <1>1 DEF IInv, FnsAreKept, QueueKeeps, handles, queues
<1>3. CASE TryAppend(t)
  <2>1. made' = made + 1 /\ made + 1 \in Entries /\ made' \in 0..MaxEntries
    BY <1>3 DEF IInv, TypeOK, TryAppend, Entries
  <2>2. CASE attached = 0
    <3>1. UNCHANGED <<at, seen, holds, clone, fns>>
      BY <1>3, <2>2 DEF TryAppend
    <3>2. TypeOK' /\ SlotIsOwned'
      BY <1>1, <2>1, <3>1 DEF IInv, TypeOK, SlotIsOwned, slot, handles, queues
    <3> QED BY <1>2, <3>2 DEF IInv
  <2>3. CASE attached # 0
    <3>1. /\ at' = [at EXCEPT ![t] = "append"] /\ seen' = [seen EXCEPT ![t] = attached]
          /\ holds' = [holds EXCEPT ![t] = made + 1] /\ UNCHANGED <<clone, fns>>
      BY <1>3, <2>3 DEF TryAppend
    <3>2. TypeOK'
      BY <1>1, <2>1, <3>1 DEF IInv, TypeOK, slot, handles, queues, Entries
    <3>3. SlotIsOwned'
      BY <1>1, <2>1, <2>3, <3>1 DEF IInv, TypeOK, SlotIsOwned, slot, handles
    <3> QED BY <1>2, <3>2, <3>3 DEF IInv
  <2> QED BY <2>2, <2>3
<1>4. CASE RegisterRead(t)
  <2>1. fns' = fns + 1 /\ fns + 1 \in Fns /\ fns' \in 0..MaxFns
    BY <1>4 DEF IInv, TypeOK, RegisterRead, Fns
  <2>2. TypeOK'
    BY <1>1, <1>4, <2>1 DEF IInv, TypeOK, RegisterRead, slot, handles, queues, Fns
  <2>3. SlotIsOwned'
    BY <1>1, <1>4, <2>1 DEF IInv, TypeOK, SlotIsOwned, RegisterRead, slot, handles
  <2> QED BY <1>2, <2>2, <2>3 DEF IInv
<1>5. CASE TrySink(t)
  <2>1. TypeOK'
    BY <1>1, <1>5 DEF IInv, TypeOK, TrySink, slot, handles, queues, history
  <2>2. SlotIsOwned'
    BY <1>1, <1>5 DEF IInv, SlotIsOwned, TrySink, slot, handles
  <2> QED BY <1>2, <2>1, <2>2 DEF IInv
<1> QED BY <1>3, <1>4, <1>5

(* An append under the read lock reaches a queue that is still running. *)
LEMMA AppendInsideKeeps ==
  ASSUME IInv, NEW t \in Threads, AppendInside(t)
  PROVE  IInv'
<1> DEFINE g == seen[t]
           e == holds[t]
<1>1. /\ at[t] = "append" /\ g = attached /\ g \in Attachments /\ e \in Entries
      /\ queue' = [queue EXCEPT ![g] = @ \cup {e}]
      /\ accepted' = [accepted EXCEPT ![g] = @ \cup {e}]
      /\ at' = [at EXCEPT ![t] = "idle"] /\ seen' = [seen EXCEPT ![t] = 0]
      /\ holds' = [holds EXCEPT ![t] = 0]
      /\ UNCHANGED <<slot, clone, handles, written, thread, made, fns, ran>>
  BY DEF AppendInside, Done, IInv, TypeOK, SlotIsOwned, Attachments
<1>2. thread[g] = "running"
  BY <1>1 DEF IInv, SlotIsOwned, QueueKeeps
<1> HIDE DEF g, e
<1>3. TypeOK'
  <2>1. queue' \in [Attachments -> SUBSET Entries] /\ accepted' \in [Attachments -> SUBSET Entries]
    BY <1>1 DEF IInv, TypeOK
  <2>2. /\ at' \in [Threads -> {"idle", "append", "register"}]
        /\ seen' \in [Threads -> 0..MaxAttach] /\ holds' \in [Threads -> Nat]
    BY <1>1, Numbered DEF IInv, TypeOK
  <2> QED BY <1>1, <2>1, <2>2 DEF IInv, TypeOK, slot, handles
<1>4. SlotIsOwned'
  BY <1>1 DEF IInv, TypeOK, SlotIsOwned, slot, handles
<1>5. FnsAreKept'
  BY <1>1 DEF IInv, FnsAreKept, handles
<1>6. QueueKeeps'
  BY <1>1, <1>2 DEF IInv, TypeOK, QueueKeeps, handles
<1> QED BY <1>3, <1>4, <1>5, <1>6 DEF IInv

(* An append through a clone of the sink only adds to a queue. *)
LEMMA AppendToCloneKeeps ==
  ASSUME IInv, NEW t \in Threads, AppendToClone(t)
  PROVE  IInv'
<1>1. /\ clone[t] \in Attachments /\ made + 1 \in Entries /\ made' = made + 1
      /\ made' \in 0..MaxEntries
      /\ queue' = [queue EXCEPT ![clone[t]] = @ \cup {made + 1}]
      /\ clone' = [clone EXCEPT ![t] = 0]
      /\ UNCHANGED <<slot, at, seen, holds, handles, written, thread, fns, accepted, ran>>
  BY DEF AppendToClone, IInv, TypeOK, Attachments, Entries
<1>2. TypeOK'
  BY <1>1 DEF IInv, TypeOK, slot, handles
<1>3. SlotIsOwned' /\ FnsAreKept'
  BY <1>1 DEF IInv, SlotIsOwned, FnsAreKept, slot, handles
<1>4. QueueKeeps'
  BY <1>1 DEF IInv, TypeOK, QueueKeeps, handles
<1> QED BY <1>2, <1>3, <1>4 DEF IInv

(* A function is only taken by a registry that is open, and none of its        *)
(* functions has run or is armed then.                                        *)
LEMMA RegisterPushKeeps ==
  ASSUME IInv, NEW t \in Threads, RegisterPush(t)
  PROVE  IInv'
<1> DEFINE g == seen[t]
           f == holds[t]
<1>1. /\ at[t] = "register" /\ g \in Attachments /\ f \in Fns
      /\ subscribers' = IF open[g] THEN [subscribers EXCEPT ![g] = Append(@, f)] ELSE subscribers
      /\ at' = [at EXCEPT ![t] = "idle"] /\ seen' = [seen EXCEPT ![t] = 0]
      /\ holds' = [holds EXCEPT ![t] = 0]
      /\ UNCHANGED <<slot, clone, handle, open, todo, unwinding, aborted, forgotten, queues,
                     made, fns, accepted, ran>>
  <2>1. at[t] = "register"
    BY DEF RegisterPush
  <2>2. g \in Attachments /\ f \in Fns
    <3>1. seen[t] \in 0..MaxAttach /\ seen[t] # 0
      BY <2>1 DEF IInv, TypeOK, SlotIsOwned
    <3>2. holds[t] \in Fns
      BY <2>1 DEF IInv, SlotIsOwned
    <3> QED BY <3>1, <3>2, Numbered
  <2> QED BY <2>1, <2>2 DEF RegisterPush, PushAccepts, Done
<1> HIDE DEF g, f
<1>2. subscribers' \in [Attachments -> Seq(Fns)]
  <2>1. Append(subscribers[g], f) \in Seq(Fns)
    BY <1>1 DEF IInv, TypeOK
  <2> QED BY <1>1, <2>1 DEF IInv, TypeOK
<1>3. TypeOK'
  BY <1>1, <1>2 DEF IInv, TypeOK, slot, queues
<1>4. SlotIsOwned'
  BY <1>1 DEF IInv, TypeOK, SlotIsOwned, slot
<1>5. FnsAreKept'
  <2>1. ASSUME NEW h \in Attachments, handle[h] # "held" PROVE subscribers'[h] = subscribers[h]
    BY <1>1, <2>1 DEF IInv, FnsAreKept, TypeOK
  <2> QED BY <1>1, <2>1 DEF IInv, FnsAreKept
<1>6. QueueKeeps'
  BY <1>1 DEF IInv, QueueKeeps, queues
<1> QED BY <1>3, <1>4, <1>5, <1>6 DEF IInv

-----------------------------------------------------------------------------
(* Dropping a handle closes its registry and arms what is in it. *)
LEMMA DropDrainKeeps ==
  ASSUME IInv, NEW g \in Attachments, DropDrain(g)
  PROVE  IInv'
<1>1. /\ handle[g] = "held" /\ handle' = [handle EXCEPT ![g] = "dropping"]
      /\ open' = [open EXCEPT ![g] = FALSE]
      /\ todo' = [todo EXCEPT ![g] = Reverse(subscribers[g])]
      /\ UNCHANGED <<slot, calls, subscribers, unwinding, aborted, forgotten, queues, history>>
  BY DEF DropDrain, Lifo
<1>2. Reverse(subscribers[g]) \in Seq(Fns)
  BY ReverseType DEF IInv, TypeOK
<1>3. TypeOK'
  BY <1>1, <1>2 DEF IInv, TypeOK, slot, calls, queues, history
<1>4. SlotIsOwned'
  BY <1>1 DEF IInv, TypeOK, SlotIsOwned, slot, calls
<1>5. FnsAreKept'
  <2>1. ran[g] = <<>> /\ <<>> \o Reverse(subscribers[g]) = Reverse(subscribers[g])
    BY <1>1, <1>2, ConcatEmptySeq DEF IInv, FnsAreKept
  <2>2. ran'[g] \o todo'[g] = Reverse(subscribers'[g])
    BY <1>1, <2>1 DEF IInv, TypeOK, history
  <2>3. ASSUME NEW h \in Attachments, h # g
        PROVE  /\ handle'[h] = handle[h] /\ open'[h] = open[h] /\ todo'[h] = todo[h]
               /\ ran'[h] = ran[h] /\ subscribers'[h] = subscribers[h]
    BY <1>1, <2>3 DEF IInv, TypeOK, history
  <2>4. handle'[g] = "dropping" /\ ~open'[g]
    BY <1>1 DEF IInv, TypeOK
  <2> QED BY <2>2, <2>3, <2>4 DEF IInv, FnsAreKept
<1>6. QueueKeeps'
  BY <1>1 DEF IInv, TypeOK, QueueKeeps, queues, history
<1> QED BY <1>3, <1>4, <1>5, <1>6 DEF IInv

(* A guard's function runs, and may panic. *)
LEMMA RunSubscriberKeeps ==
  ASSUME IInv, NEW g \in Attachments, NEW panics \in BOOLEAN, RunSubscriber(g, panics)
  PROVE  IInv'
<1>1. /\ handle[g] = "dropping" /\ todo[g] # <<>>
      /\ ran' = [ran EXCEPT ![g] = Append(@, Head(todo[g]))]
      /\ todo' = [todo EXCEPT ![g] = Tail(@)]
      /\ UNCHANGED <<slot, calls, handle, open, subscribers, forgotten, queues, made, fns, accepted>>
  BY DEF RunSubscriber
<1>2. /\ Append(ran[g], Head(todo[g])) \in Seq(Fns) /\ Tail(todo[g]) \in Seq(Fns)
      /\ Append(ran[g], Head(todo[g])) \o Tail(todo[g]) = ran[g] \o todo[g]
  BY <1>1, RunMovesHead DEF IInv, TypeOK
<1>3. unwinding' \in [Attachments -> {0, 1}] /\ aborted' \in BOOLEAN
  BY DEF IInv, TypeOK, RunSubscriber, Aborts
<1>4. TypeOK'
  BY <1>1, <1>2, <1>3 DEF IInv, TypeOK, slot, calls, queues
<1>5. SlotIsOwned' /\ QueueKeeps'
  BY <1>1 DEF IInv, SlotIsOwned, QueueKeeps, slot, calls, queues
<1>6. FnsAreKept'
  <2>1. ran'[g] \o todo'[g] = ran[g] \o todo[g]
    BY <1>1, <1>2 DEF IInv, TypeOK
  <2>2. ASSUME NEW h \in Attachments, h # g PROVE todo'[h] = todo[h] /\ ran'[h] = ran[h]
    BY <1>1, <2>2 DEF IInv, TypeOK
  <2> QED BY <1>1, <2>1, <2>2 DEF IInv, FnsAreKept
<1> QED BY <1>4, <1>5, <1>6 DEF IInv

(* The detach takes its own attachment out, when nobody reads the slot and all *)
(* functions have run; joining waits for the queue's thread.                  *)
LEMMA DetachKeeps ==
  ASSUME IInv, NEW g \in Attachments, DetachTake(g) \/ DetachJoin(g)
  PROVE  IInv'
<1>1. CASE DetachTake(g)
  <2>1. /\ handle[g] = "dropping" /\ todo[g] = <<>> /\ attached' = 0 /\ writing' = 0
        /\ handle' = [handle EXCEPT ![g] = "joining"]
        /\ thread' = [thread EXCEPT ![g] = "asked"]
        /\ \A t \in Threads : at[t] = "idle"
        /\ UNCHANGED <<calls, open, subscribers, todo, unwinding, aborted, forgotten, queue,
                       written, history>>
    BY <1>1 DEF DetachTake, DetachIsNext, LockAfterTake, CanWrite, Readers, IInv, TypeOK
  <2>2. attached = g /\ g # 0
    BY <2>1 DEF IInv, SlotIsOwned, Attachments
  <2>3. TypeOK'
    BY <2>1 DEF IInv, TypeOK, calls, history
  <2>4. SlotIsOwned'
    <3>1. \A h \in Attachments : h # 0 /\ handle'[h] \notin {"held", "dropping", "forgotten"}
      <4> TAKE h \in Attachments
      <4>1. CASE h = g
        BY <2>1, <2>2, <4>1 DEF IInv, TypeOK
      <4>2. CASE h # g
        <5>1. handle'[h] = handle[h]
          BY <2>1, <4>2 DEF IInv, TypeOK
        <5>2. handle[h] \notin {"held", "dropping", "forgotten"}
          BY <2>2, <4>2 DEF IInv, SlotIsOwned
        <5> QED BY <5>1, <5>2, Numbered
      <4> QED BY <4>1, <4>2
    <3>2. \A h \in forgotten : h # g
      BY <2>1 DEF IInv, SlotIsOwned
    <3> QED BY <2>1, <3>1, <3>2 DEF IInv, TypeOK, SlotIsOwned, calls
  <2>5. FnsAreKept'
    BY <2>1 DEF IInv, TypeOK, FnsAreKept, history
  <2>6. QueueKeeps'
    BY <2>1 DEF IInv, TypeOK, QueueKeeps, history
  <2> QED BY <2>3, <2>4, <2>5, <2>6 DEF IInv
<1>2. CASE DetachJoin(g)
  <2>1. /\ handle[g] = "joining" /\ thread[g] = "stopped" /\ writing' = 0
        /\ handle' = [handle EXCEPT ![g] = "dropped"]
        /\ UNCHANGED <<attached, calls, open, subscribers, todo, unwinding, aborted, forgotten,
                       queues, history>>
    BY <1>2 DEF DetachJoin, IInv, SlotIsOwned
  <2>2. TypeOK'
    BY <2>1 DEF IInv, TypeOK, calls, queues, history
  <2>3. SlotIsOwned'
    BY <2>1 DEF IInv, TypeOK, SlotIsOwned, calls
  <2>4. FnsAreKept'
    BY <2>1 DEF IInv, TypeOK, FnsAreKept, history
  <2>5. QueueKeeps'
    BY <2>1 DEF IInv, TypeOK, QueueKeeps, queues, history
  <2> QED BY <2>2, <2>3, <2>4, <2>5 DEF IInv
<1> QED BY <1>1, <1>2

(* forget leaves the attachment in the slot and its queue running. *)
LEMMA ForgetKeeps ==
  ASSUME IInv, NEW g \in Attachments, Forget(g)
  PROVE  IInv'
<1>1. /\ handle[g] = "held" /\ handle' = [handle EXCEPT ![g] = "forgotten"]
      /\ open' = [open EXCEPT ![g] = FALSE] /\ forgotten' = forgotten \cup {g}
      /\ UNCHANGED <<slot, calls, subscribers, todo, unwinding, aborted, queues, history>>
  BY DEF Forget, ForgetThen
<1>2. TypeOK'
  BY <1>1 DEF IInv, TypeOK, slot, calls, queues, history
<1>3. SlotIsOwned'
  BY <1>1 DEF IInv, TypeOK, SlotIsOwned, slot, calls
<1>4. FnsAreKept'
  BY <1>1 DEF IInv, TypeOK, FnsAreKept, history
<1>5. QueueKeeps'
  BY <1>1 DEF IInv, TypeOK, QueueKeeps, queues, history
<1> QED BY <1>2, <1>3, <1>4, <1>5 DEF IInv

(* The queue's thread writes what it was given, reports and ends. *)
LEMMA QueueThreadKeeps ==
  ASSUME IInv, NEW g \in Attachments, Queue(g)
  PROVE  IInv'
<1>1. /\ UNCHANGED <<slot, calls, handles, history>>
      /\ \/ /\ thread[g] = "asked" /\ thread' = [thread EXCEPT ![g] = "drained"]
            /\ written' = [written EXCEPT ![g] = @ \cup queue[g]]
            /\ queue' = [queue EXCEPT ![g] = {}]
         \/ /\ thread[g] = "drained" /\ thread' = [thread EXCEPT ![g] = "reporting"]
            /\ UNCHANGED <<queue, written>>
         \/ /\ thread[g] = "reporting" /\ thread' = [thread EXCEPT ![g] = "stopped"]
            /\ UNCHANGED <<queue, written>>
  BY DEF Queue, QueueDrains, QueueReports, QueueEnds
<1>2. TypeOK'
  <2>1. /\ queue' \in [Attachments -> SUBSET Entries] /\ written' \in [Attachments -> SUBSET Entries]
        /\ thread' \in [Attachments -> {"running", "asked", "drained", "reporting", "stopped"}]
    <3>1. written[g] \cup queue[g] \in SUBSET Entries
      BY DEF IInv, TypeOK
    <3> QED BY <1>1, <3>1 DEF IInv, TypeOK
  <2> QED BY <1>1, <2>1 DEF IInv, TypeOK, slot, calls, handles, history
<1>3. SlotIsOwned' /\ FnsAreKept'
  BY <1>1 DEF IInv, SlotIsOwned, FnsAreKept, slot, calls, handles, history
<1>4. QueueKeeps'
  BY <1>1 DEF IInv, TypeOK, QueueKeeps, handles, history
<1> QED BY <1>2, <1>3, <1>4 DEF IInv

-----------------------------------------------------------------------------
(* No step of a caller, of a handle or of a queue breaks the invariant. *)
LEMMA StepKeeps == IInv /\ [Next]_vars => IInv'
<1> SUFFICES ASSUME IInv, [Next]_vars PROVE IInv'
  OBVIOUS
<1>1. ASSUME NEW t \in Threads, Caller(t) PROVE IInv'
  BY <1>1, ReadsKeep, AppendInsideKeeps, AppendToCloneKeeps, RegisterPushKeeps DEF Caller
<1>2. ASSUME NEW g \in Attachments,
             Attach(g) \/ DropDrain(g) \/ Forget(g) \/ Dropping(g) \/ Queue(g)
      PROVE IInv'
  BY <1>2, AttachKeeps, DropDrainKeeps, ForgetKeeps, DetachKeeps, RunSubscriberKeeps,
     QueueThreadKeeps DEF Dropping
<1>3. CASE UNCHANGED vars
  BY <1>3 DEF IInv, TypeOK, SlotIsOwned, FnsAreKept, QueueKeeps, vars, slot, calls, handles,
     queues, history
<1> QED BY <1>1, <1>2, <1>3 DEF Next

(* The empty slot satisfies it. *)
LEMMA InitEstablishes == Init => IInv
<1> SUFFICES ASSUME Init PROVE IInv
  OBVIOUS
<1>1. TypeOK
  <2>1. <<>> \in Seq(Fns)
    OBVIOUS
  <2>2. /\ subscribers \in [Attachments -> Seq(Fns)] /\ todo \in [Attachments -> Seq(Fns)]
        /\ ran \in [Attachments -> Seq(Fns)]
    BY <2>1 DEF Init
  <2>3. /\ queue \in [Attachments -> SUBSET Entries] /\ written \in [Attachments -> SUBSET Entries]
        /\ accepted \in [Attachments -> SUBSET Entries]
    BY DEF Init
  <2>4. attached \in 0..MaxAttach /\ writing \in 0..MaxAttach
    BY Numbered DEF Init
  <2>5. /\ at \in [Threads -> {"idle", "append", "register"}] /\ holds \in [Threads -> Nat]
        /\ seen \in [Threads -> 0..MaxAttach] /\ clone \in [Threads -> 0..MaxAttach]
    BY Numbered DEF Init
  <2>6. /\ handle \in [Attachments -> {"none", "held", "dropping", "joining", "dropped", "forgotten"}]
        /\ open \in [Attachments -> BOOLEAN] /\ unwinding \in [Attachments -> {0, 1}]
        /\ thread \in [Attachments -> {"running", "asked", "drained", "reporting", "stopped"}]
    BY DEF Init
  <2>7. made \in 0..MaxEntries /\ fns \in 0..MaxFns /\ aborted \in BOOLEAN
        /\ forgotten \subseteq Attachments
    <3>1. 0 \in 0..MaxEntries /\ 0 \in 0..MaxFns
      OBVIOUS
    <3> QED BY <3>1 DEF Init
  <2> QED BY <2>2, <2>3, <2>4, <2>5, <2>6, <2>7 DEF TypeOK
<1>2. SlotIsOwned /\ FnsAreKept /\ QueueKeeps
  BY DEF Init, SlotIsOwned, FnsAreKept, QueueKeeps, Attachments
<1> QED BY <1>1, <1>2 DEF IInv

LEMMA InvariantHolds == Spec => []IInv
BY InitEstablishes, StepKeeps, PTL DEF Spec

(* For any number of threads and attachments: a handle that is held, or still  *)
(* runs its shutdown functions, owns the slot, so that its detach takes out    *)
(* its own attachment and never a later one; a forgotten attachment stays.     *)
THEOREM SlotBelongsToHandle == Spec => []HandleOwnsSlot
<1>1. IInv => HandleOwnsSlot
  BY DEF IInv, TypeOK, SlotIsOwned, FnsAreKept, HandleOwnsSlot
<1> QED BY <1>1, InvariantHolds, PTL

(* By the time a handle's drop detaches, every function its registry accepted  *)
(* has been called exactly once, last registered first, panics of earlier ones *)
(* notwithstanding.                                                           *)
THEOREM ShutdownFnsAreRun == Spec => []ShutdownFnsRun
<1>1. IInv => ShutdownFnsRun
  <2> SUFFICES ASSUME IInv, NEW g \in Attachments, handle[g] \in {"joining", "dropped"}
               PROVE  ran[g] = Reverse(subscribers[g])
    BY DEF ShutdownFnsRun
  <2>1. todo[g] = <<>> /\ ran[g] \o todo[g] = Reverse(subscribers[g]) /\ ran[g] \in Seq(Fns)
    BY DEF IInv, TypeOK, FnsAreKept
  <2> QED BY <2>1, ConcatEmptySeq
<1> QED BY <1>1, InvariantHolds, PTL

(* An entry that append through the global sink accepted is written when the   *)
(* handle's drop returns, however appends race with the detach.                *)
THEOREM AcceptedEntriesAreWritten == Spec => []AcceptedIsWritten
<1>1. IInv => AcceptedIsWritten
  BY DEF IInv, QueueKeeps, AcceptedIsWritten
<1> QED BY <1>1, InvariantHolds, PTL
=============================================================================
