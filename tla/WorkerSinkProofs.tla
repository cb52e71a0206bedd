-------------------------- MODULE WorkerSinkProofs --------------------------
(***************************************************************************)
(* Proofs about WorkerSink, for every set of clients, entries and keys and   *)
(* every bound on the channel.                                              *)
(***************************************************************************)
EXTENDS WorkerSink, FiniteSetTheorems, SequenceTheorems, TLAPS

USE SinkAssumption

IInv == TypeOK /\ Phases /\ KeptOnce /\ FlushIsBehind

-----------------------------------------------------------------------------
(* Messages and the channel. *)

LEMMA Kinds ==
  ASSUME NEW m \in Message
  PROVE  /\ "entry" \in DOMAIN m => m.entry \in Entries /\ m = [entry |-> m.entry]
         /\ "flush" \in DOMAIN m => m.flush \in Clients \cup {Gone} /\ m = [flush |-> m.flush]
BY DEF Message

LEMMA Distinct ==
  /\ \A e, t : [entry |-> e] # [flush |-> t]
  /\ \A e, f : [entry |-> e] = [entry |-> f] => e = f
  /\ \A t, u : [flush |-> t] = [flush |-> u] => t = u
<1>1. \A e, t : [entry |-> e] # [flush |-> t]
  <2> SUFFICES ASSUME NEW e, NEW t, [entry |-> e] = [flush |-> t] PROVE FALSE
    OBVIOUS
  <2>1. DOMAIN [entry |-> e] = {"entry"} /\ DOMAIN [flush |-> t] = {"flush"}
    OBVIOUS
  <2> QED BY <2>1
<1>2. \A e, f : [entry |-> e] = [entry |-> f] => e = f
  OBVIOUS
<1>3. \A t, u : [flush |-> t] = [flush |-> u] => t = u
  OBVIOUS
<1> QED BY <1>1, <1>2, <1>3

(* send puts a message behind the others. *)
LEMMA Sending ==
  ASSUME NEW S, NEW s \in Seq(S), NEW m \in S
  PROVE  /\ Append(s, m) \in Seq(S) /\ Len(Append(s, m)) = Len(s) + 1 /\ Len(s) \in Nat
         /\ \A i \in DOMAIN s : i \in DOMAIN Append(s, m) /\ Append(s, m)[i] = s[i]
         /\ \A i \in DOMAIN Append(s, m) : i \in DOMAIN s \/ i = Len(s) + 1
         /\ Len(s) + 1 \in DOMAIN Append(s, m) /\ Append(s, m)[Len(s) + 1] = m
         /\ \A i \in DOMAIN s : i \in Nat /\ i < Len(s) + 1
BY AppendProperties, LenProperties

(* recv takes the first message; the others move up. *)
LEMMA Receiving ==
  ASSUME NEW S, NEW s \in Seq(S), s # <<>>
  PROVE  /\ Tail(s) \in Seq(S) /\ Len(Tail(s)) <= Len(s) /\ Head(s) \in S
         /\ 1 \in DOMAIN s /\ s[1] = Head(s)
         /\ \A i \in DOMAIN Tail(s) : i \in Nat /\ i + 1 \in DOMAIN s /\ Tail(s)[i] = s[i + 1]
         /\ \A i \in DOMAIN s : i = 1 \/ (i - 1 \in DOMAIN Tail(s) /\ (i - 1) + 1 = i)
         /\ \A i, j \in DOMAIN Tail(s) : /\ i + 1 = j + 1 => i = j
                                         /\ i + 1 < j + 1 => i < j
                                         /\ 1 # i + 1
         /\ \A i, j \in DOMAIN s : i < j => j # 1 /\ (i # 1 => i - 1 < j - 1)
<1>1. Len(s) \in Nat /\ Len(s) >= 1 /\ DOMAIN s = 1..Len(s)
  BY LenProperties, EmptySeq
<1>2. /\ Tail(s) \in Seq(S) /\ Head(s) \in S /\ Head(s) = s[1] /\ Len(Tail(s)) = Len(s) - 1
      /\ \A i \in 1..(Len(s) - 1) : Tail(s)[i] = s[i + 1]
  BY <1>1, HeadTailProperties
<1>3. DOMAIN Tail(s) = 1..(Len(s) - 1)
  BY <1>2, LenProperties
<1> QED BY <1>1, <1>2, <1>3

-----------------------------------------------------------------------------
(* Aggregates. *)

LEMMA AggregateType ==
  ASSUME NEW a
  PROVE  a \in Aggregates <=> /\ DOMAIN a \subseteq Keys
                              /\ a \in [DOMAIN a -> (SUBSET Entries) \ {{}}]
<1>1. ASSUME a \in Aggregates
      PROVE  DOMAIN a \subseteq Keys /\ a \in [DOMAIN a -> (SUBSET Entries) \ {{}}]
  <2>1. PICK K \in SUBSET Keys : a \in [K -> (SUBSET Entries) \ {{}}]
    BY <1>1 DEF Aggregates
  <2> QED BY <2>1
<1>2. ASSUME DOMAIN a \subseteq Keys, a \in [DOMAIN a -> (SUBSET Entries) \ {{}}]
      PROVE  a \in Aggregates
  BY <1>2 DEF Aggregates
<1> QED BY <1>1, <1>2

LEMMA EmptyHoldsNothing ==
  /\ Empty \in Aggregates /\ DOMAIN Empty = {}
  /\ \A a : DOMAIN a = {} => Held(a) = {}
<1>1. DOMAIN Empty = {} /\ Empty \in [{} -> (SUBSET Entries) \ {{}}]
  BY DEF Empty
<1>2. Empty \in Aggregates
  BY <1>1, AggregateType
<1> QED BY <1>1, <1>2 DEF Held

(* An entry is added to the aggregate of its key. *)
LEMMA MergeAdds ==
  ASSUME storage \in Aggregates, NEW e \in Entries
  PROVE  /\ Merged(e) \in Aggregates
         /\ Held(Merged(e)) = Held(storage) \cup {e}
         /\ (\A k \in DOMAIN storage : \A f \in storage[k] : KeyOf[f] = k) =>
              \A k \in DOMAIN Merged(e) : \A f \in Merged(e)[k] : KeyOf[f] = k
<1> DEFINE m == Merged(e)
<1>1. DOMAIN storage \subseteq Keys /\ storage \in [DOMAIN storage -> (SUBSET Entries) \ {{}}]
  BY AggregateType
<1>2. KeyOf[e] \in Keys
  BY DEF Keys
<1>3. /\ DOMAIN m = DOMAIN storage \cup {KeyOf[e]}
      /\ \A k \in DOMAIN m : m[k] = (IF k \in DOMAIN storage THEN storage[k] ELSE {})
                                     \cup (IF k = KeyOf[e] THEN {e} ELSE {})
      /\ m = [k \in DOMAIN m |-> m[k]]
  BY DEF Merged
<1> HIDE DEF m
<1>4. \A k \in DOMAIN m : m[k] \in (SUBSET Entries) \ {{}}
  <2> TAKE k \in DOMAIN m
  <2>1. CASE k \in DOMAIN storage
    BY <2>1, <1>1, <1>3
  <2>2. CASE k \notin DOMAIN storage
    BY <2>2, <1>1, <1>3
  <2> QED BY <2>1, <2>2
<1>5. m \in Aggregates
  BY <1>1, <1>2, <1>3, <1>4, AggregateType
<1>6. Held(m) = Held(storage) \cup {e}
  <2>1. ASSUME NEW f \in Held(m) PROVE f \in Held(storage) \cup {e}
    BY <2>1, <1>3 DEF Held
  <2>2. ASSUME NEW f \in Held(storage) PROVE f \in Held(m)
    <3>1. PICK k \in DOMAIN storage : f \in storage[k]
      BY <2>2 DEF Held
    <3> QED BY <3>1, <1>3 DEF Held
  <2>3. e \in Held(m)
    <3>1. KeyOf[e] \in DOMAIN m /\ e \in m[KeyOf[e]]
      BY <1>3
    <3> QED BY <3>1 DEF Held
  <2> QED BY <2>1, <2>2, <2>3
<1>7. (\A k \in DOMAIN storage : \A f \in storage[k] : KeyOf[f] = k) =>
        \A k \in DOMAIN m : \A f \in m[k] : KeyOf[f] = k
  BY <1>3
<1> QED BY <1>5, <1>6, <1>7 DEF m

(* Emitting the row of a key takes what it holds, and nothing else. *)
LEMMA EmitTakes ==
  ASSUME NEW a \in Aggregates, NEW k \in DOMAIN a,
         \A j \in DOMAIN a : \A f \in a[j] : KeyOf[f] = j
  PROVE  LET rest == [j \in DOMAIN a \ {k} |-> a[j]] IN
         /\ rest \in Aggregates
         /\ Held(rest) = Held(a) \ a[k]
         /\ a[k] \subseteq Held(a)
         /\ \A j \in DOMAIN rest : \A f \in rest[j] : KeyOf[f] = j
<1> DEFINE rest == [j \in DOMAIN a \ {k} |-> a[j]]
<1>1. DOMAIN a \subseteq Keys /\ a \in [DOMAIN a -> (SUBSET Entries) \ {{}}]
  BY AggregateType
<1>2. DOMAIN rest = DOMAIN a \ {k} /\ \A j \in DOMAIN rest : rest[j] = a[j]
  OBVIOUS
<1>3. rest \in Aggregates
  BY <1>1, AggregateType
<1> HIDE DEF rest
<1>4. Held(rest) = Held(a) \ a[k]
  <2>1. ASSUME NEW f \in Held(rest) PROVE f \in Held(a) \ a[k]
    <3>1. PICK j \in DOMAIN rest : f \in rest[j]
      BY <2>1 DEF Held
    <3> QED BY <3>1, <1>2 DEF Held
  <2>2. ASSUME NEW f \in Held(a), f \notin a[k] PROVE f \in Held(rest)
    <3>1. PICK j \in DOMAIN a : f \in a[j]
      BY <2>2 DEF Held
    <3>2. j \in DOMAIN rest /\ f \in rest[j]
      BY <3>1, <2>2, <1>2
    <3> QED BY <3>2 DEF Held
  <2> QED BY <2>1, <2>2
<1>5. a[k] \subseteq Held(a)
  BY DEF Held
<1>6. \A j \in DOMAIN rest : \A f \in rest[j] : KeyOf[f] = j
  BY <1>2
<1> QED BY <1>3, <1>4, <1>5, <1>6 DEF rest

-----------------------------------------------------------------------------
(* Clients. *)

(* A sent entry is the last message, or is lost with the receiver. *)
LEMMA EnqueueKeeps ==
  ASSUME IInv, NEW e \in Entries, Enqueue(e), NEW t \in Clients,
         \/ UNCHANGED client
         \/ client[t] = "guarding" /\ client' = [client EXCEPT ![t] = "merged"],
         client[t] # "out"
  PROVE  IInv'
<1>1. /\ e \notin Sent /\ Len(channel) < MaxQueued
      /\ channel' = IF Alive THEN Append(channel, [entry |-> e]) ELSE channel
      /\ fate' = [w \in Watched |->
                    IF w # e THEN fate[w] ELSE IF Alive THEN "sent" ELSE "lost"]
      /\ UNCHANGED <<storage, drain, pc, answer, exiting, due, covers>>
  BY DEF Enqueue, aggregator, worker
<1>2. /\ client' \in [Clients -> ClientStates] /\ Senders' = Senders /\ ~exiting
      /\ \A u \in Clients : client[u] \in {"awaiting", "returned"} \/ client'[u] \in {"awaiting", "returned"}
                              => client'[u] = client[u]
  <2>1. CASE UNCHANGED client
    BY <2>1 DEF IInv, TypeOK, Phases, Senders
  <2>2. CASE client[t] = "guarding" /\ client' = [client EXCEPT ![t] = "merged"]
    BY <2>2 DEF IInv, TypeOK, Phases, Senders, ClientStates
  <2> QED BY <2>1, <2>2
<1>3. channel \in Seq(Message) /\ [entry |-> e] \in Message
  BY DEF IInv, TypeOK, Message
<1>4. TypeOK'
  <2>1. channel' \in Seq(Message) /\ Len(channel') <= MaxQueued
    BY <1>1, <1>3, Sending DEF IInv, TypeOK
  <2>2. fate' \in [Watched -> {"new", "sent", "emitted", "lost"}]
    BY <1>1 DEF IInv, TypeOK
  <2> QED BY <1>1, <1>2, <2>1, <2>2 DEF IInv, TypeOK
<1>5. CASE ~Alive
  <2>1. channel' = channel /\ Sent' = Sent
    BY <1>1, <1>5 DEF Sent, IInv, TypeOK
  <2>2. Phases'
    BY <1>1, <1>2, <2>1 DEF IInv, Phases, Alive
  <2>3. KeptOnce'
    BY <1>1, <2>1 DEF IInv, KeptOnce
  <2>4. FlushIsBehind'
    BY <1>1, <1>2, <2>1 DEF IInv, FlushIsBehind, FlushCovers, QueuedBefore
  <2> QED BY <1>4, <2>2, <2>3, <2>4 DEF IInv
<1>6. CASE Alive
  <2> DEFINE n == Len(channel) + 1
  <2>1. /\ \A i \in DOMAIN channel : i \in DOMAIN channel' /\ channel'[i] = channel[i]
        /\ \A i \in DOMAIN channel' : i \in DOMAIN channel \/ i = n
        /\ n \in DOMAIN channel' /\ channel'[n] = [entry |-> e]
        /\ \A i \in DOMAIN channel : i \in Nat /\ i < n
    BY <1>1, <1>3, <1>6, Sending
  <2>2. \A w \in Watched : w \in Sent' <=> w \in Sent \/ w = e
    BY <1>1, <1>6 DEF Sent, IInv, TypeOK
  <2> HIDE DEF n
  <2>3. Phases'
    BY <1>1, <1>2, <1>6 DEF IInv, Phases, Alive
  <2>4. KeptOnce'
    <3>1. \A w \in Watched, i \in DOMAIN channel' :
            channel'[i] = [entry |-> w] =>
              /\ w \notin Held(storage) \cup Held(drain)
              /\ \A j \in DOMAIN channel' : channel'[j] = [entry |-> w] => j = i
      <4> SUFFICES ASSUME NEW w \in Watched, NEW i \in DOMAIN channel', channel'[i] = [entry |-> w]
                   PROVE  /\ w \notin Held(storage) \cup Held(drain)
                          /\ \A j \in DOMAIN channel' : channel'[j] = [entry |-> w] => j = i
        OBVIOUS
      <4>1. CASE w = e
        <5>1. e \notin Held(storage) \cup Held(drain)
              /\ \A j \in DOMAIN channel : channel[j] # [entry |-> e]
          BY <4>1, <1>1 DEF IInv, KeptOnce
        <5> QED BY <4>1, <5>1, <2>1
      <4>2. CASE w # e
        <5>1. \A j \in DOMAIN channel' : channel'[j] = [entry |-> w] =>
                j \in DOMAIN channel /\ channel[j] = [entry |-> w]
          BY <4>2, <2>1, Distinct
        <5> QED BY <5>1 DEF IInv, KeptOnce
      <4> QED BY <4>1, <4>2
    <3>2. \A w \in Watched :
            w \in Sent' <=> \/ w \in Held(storage) \cup Held(drain)
                            \/ \E i \in DOMAIN channel' : channel'[i] = [entry |-> w]
      <4> TAKE w \in Watched
      <4>1. (\E i \in DOMAIN channel' : channel'[i] = [entry |-> w]) <=>
              w = e \/ \E i \in DOMAIN channel : channel[i] = [entry |-> w]
        BY <2>1, Distinct
      <4>2. w \in Sent <=> \/ w \in Held(storage) \cup Held(drain)
                           \/ \E i \in DOMAIN channel : channel[i] = [entry |-> w]
        BY DEF IInv, KeptOnce
      <4> QED BY <4>1, <4>2, <2>2
    <3> QED BY <1>1, <3>1, <3>2 DEF IInv, KeptOnce
  <2>5. FlushIsBehind'
    <3>1. \A i \in DOMAIN channel : QueuedBefore(i) \subseteq QueuedBefore(i)'
      BY <2>1 DEF QueuedBefore
    <3>2. \A u \in Clients, i \in DOMAIN channel' : channel'[i] = [flush |-> u] =>
            i \in DOMAIN channel /\ channel[i] = [flush |-> u]
      BY <2>1, Distinct
    <3>3. FlushCovers'
      BY <1>1, <1>2 DEF IInv, FlushIsBehind, FlushCovers
    <3>4. \A u \in Clients, i \in DOMAIN channel' : channel'[i] = [flush |-> u] =>
            /\ client'[u] = "awaiting" /\ answer' # u
            /\ \A j \in DOMAIN channel' : channel'[j] = [flush |-> u] => j = i
            /\ covers'[u] \subseteq Held(storage') \cup Held(drain') \cup QueuedBefore(i)'
      <4> SUFFICES ASSUME NEW u \in Clients, NEW i \in DOMAIN channel', channel'[i] = [flush |-> u]
                   PROVE  /\ client'[u] = "awaiting" /\ answer' # u
                          /\ \A j \in DOMAIN channel' : channel'[j] = [flush |-> u] => j = i
                          /\ covers'[u] \subseteq Held(storage') \cup Held(drain') \cup QueuedBefore(i)'
        OBVIOUS
      <4>1. /\ client[u] = "awaiting" /\ answer # u
            /\ \A j \in DOMAIN channel : channel[j] = [flush |-> u] => j = i
            /\ covers[u] \subseteq Held(storage) \cup Held(drain) \cup QueuedBefore(i)
        BY <3>2 DEF IInv, FlushIsBehind
      <4> QED BY <1>1, <1>2, <3>1, <3>2, <4>1
    <3> QED BY <1>1, <1>2, <3>3, <3>4 DEF IInv, FlushIsBehind
  <2> QED BY <1>4, <2>3, <2>4, <2>5 DEF IInv
<1> QED BY <1>5, <1>6

(* A flush is put behind all that was sent before it. *)
LEMMA FlushCallKeeps ==
  ASSUME IInv, NEW t \in Clients, FlushCall(t)
  PROVE  IInv'
<1>1. /\ client[t] = "idle" /\ Len(channel) < MaxQueued
      /\ UNCHANGED <<storage, drain, pc, answer, exiting, due, fate>> /\ Sent' = Sent /\ ~exiting
  BY DEF FlushCall, aggregator, worker, Sent, IInv, Phases, Senders
<1>2. channel \in Seq(Message) /\ [flush |-> t] \in Message
  BY DEF IInv, TypeOK, Message
<1>3. CASE ~Alive
  <2>1. client' = [client EXCEPT ![t] = "panicked"] /\ UNCHANGED <<channel, covers>>
    BY <1>3 DEF FlushCall, Become
  <2>2. TypeOK'
    BY <1>1, <2>1 DEF IInv, TypeOK, ClientStates
  <2>3. Phases' /\ KeptOnce'
    BY <1>1, <2>1 DEF IInv, Phases, KeptOnce, Alive
  <2>4. FlushIsBehind'
    BY <1>1, <2>1 DEF IInv, TypeOK, FlushIsBehind, FlushCovers, QueuedBefore
  <2> QED BY <2>2, <2>3, <2>4 DEF IInv
<1>4. CASE Alive
  <2>0. PICK n \in Nat : n = Len(channel) + 1
    BY <1>2, LenProperties
  <2>1. /\ client' = [client EXCEPT ![t] = "awaiting"]
        /\ covers' = [covers EXCEPT ![t] = Sent]
        /\ channel' = Append(channel, [flush |-> t])
    BY <1>4 DEF FlushCall, Become
  <2>2. /\ \A i \in DOMAIN channel : i \in DOMAIN channel' /\ channel'[i] = channel[i]
        /\ \A i \in DOMAIN channel' : i \in DOMAIN channel \/ i = n
        /\ n \in DOMAIN channel' /\ channel'[n] = [flush |-> t]
        /\ \A i \in DOMAIN channel : i \in Nat /\ i < n
    BY <2>0, <2>1, <1>2, Sending
  <2>3. TypeOK'
    <3>1. channel' \in Seq(Message) /\ Len(channel') <= MaxQueued
      BY <1>1, <2>1, <1>2, Sending DEF IInv, TypeOK
    <3>2. covers' \in [Clients -> SUBSET Watched] /\ client' \in [Clients -> ClientStates]
      BY <2>1 DEF IInv, TypeOK, Sent, ClientStates
    <3> QED BY <1>1, <3>1, <3>2 DEF IInv, TypeOK
  <2>4. Phases'
    BY <1>1, <1>4 DEF IInv, Phases, Alive
  <2>5. \A w : (\E i \in DOMAIN channel' : channel'[i] = [entry |-> w]) <=>
               \E i \in DOMAIN channel : channel[i] = [entry |-> w]
    BY <2>2, Distinct
  <2>6. KeptOnce'
    <3>1. \A w \in Watched, i \in DOMAIN channel' : channel'[i] = [entry |-> w] =>
            i \in DOMAIN channel /\ channel[i] = [entry |-> w]
      BY <2>2, Distinct
    <3> QED BY <1>1, <3>1, <2>5 DEF IInv, KeptOnce
  <2>7. FlushIsBehind'
    <3>1. \A i \in DOMAIN channel : QueuedBefore(i) \subseteq QueuedBefore(i)'
      BY <2>2 DEF QueuedBefore
    <3>2. \A u \in Clients, i \in DOMAIN channel' : channel'[i] = [flush |-> u] =>
            \/ u = t /\ i = n
            \/ u # t /\ i \in DOMAIN channel /\ channel[i] = [flush |-> u]
      <4>1. \A i \in DOMAIN channel : channel[i] # [flush |-> t]
        BY <1>1 DEF IInv, FlushIsBehind
      <4> QED BY <4>1, <2>2, Distinct
    <3>3. Sent \subseteq Held(storage) \cup Held(drain) \cup QueuedBefore(n)'
      <4> SUFFICES ASSUME NEW w \in Sent, w \notin Held(storage) \cup Held(drain)
                   PROVE  w \in QueuedBefore(n)'
        OBVIOUS
      <4>1. w \in Watched /\ \E i \in DOMAIN channel : channel[i] = [entry |-> w]
        BY DEF IInv, KeptOnce, Sent
      <4> QED BY <4>1, <2>2 DEF QueuedBefore, Entries
    <3>4. answer # t /\ client'[t] = "awaiting" /\ covers'[t] = Sent
          /\ \A u \in Clients : u # t => client'[u] = client[u] /\ covers'[u] = covers[u]
      BY <1>1, <2>1 DEF IInv, FlushIsBehind, TypeOK
    <3>5. ASSUME NEW u \in Clients, NEW i \in DOMAIN channel', channel'[i] = [flush |-> u]
          PROVE  /\ client'[u] = "awaiting" /\ answer' # u
                 /\ \A j \in DOMAIN channel' : channel'[j] = [flush |-> u] => j = i
                 /\ covers'[u] \subseteq Held(storage') \cup Held(drain') \cup QueuedBefore(i)'
      <4>1. CASE u = t
        BY <4>1, <3>2, <3>3, <3>4, <3>5, <1>1
      <4>2. CASE u # t
        <5>1. i \in DOMAIN channel /\ channel[i] = [flush |-> u]
          BY <3>5, <4>2, <3>2
        <5>2. /\ client[u] = "awaiting" /\ answer # u
              /\ \A j \in DOMAIN channel : channel[j] = [flush |-> u] => j = i
              /\ covers[u] \subseteq Held(storage) \cup Held(drain) \cup QueuedBefore(i)
          BY <5>1 DEF IInv, FlushIsBehind
        <5> QED BY <5>1, <5>2, <4>2, <3>1, <3>2, <3>4, <1>1
      <4> QED BY <4>1, <4>2
    <3>6. FlushCovers'
      BY <1>1, <3>4 DEF IInv, FlushIsBehind, FlushCovers
    <3>7. \A u \in Clients : answer' = u => client'[u] = "awaiting" /\ covers'[u] \subseteq Held(drain')
      BY <1>1, <3>4 DEF IInv, FlushIsBehind
    <3> QED BY <3>5, <3>6, <3>7 DEF FlushIsBehind
  <2> QED BY <2>3, <2>4, <2>6, <2>7 DEF IInv
<1> QED BY <1>3, <1>4

(* A flush that is given up is answered to nobody. *)
LEMMA CancelFlushKeeps ==
  ASSUME IInv, NEW t \in Clients, CancelFlush(t)
  PROVE  IInv'
<1>1. /\ client[t] = "awaiting" /\ client' = [client EXCEPT ![t] = "idle"]
      /\ channel' = [i \in DOMAIN channel |->
                       IF channel[i] = [flush |-> t] THEN [flush |-> Gone] ELSE channel[i]]
      /\ answer' = IF answer = t THEN Gone ELSE answer
      /\ covers' = [covers EXCEPT ![t] = {}]
      /\ UNCHANGED <<storage, drain, pc, exiting, due, fate>> /\ Sent' = Sent
  BY DEF CancelFlush, Become, aggregator, Sent
<1>2. ~exiting
  BY <1>1 DEF IInv, Phases, Senders
<1>3. channel' \in Seq(Message) /\ Len(channel') = Len(channel) /\ DOMAIN channel' = DOMAIN channel
  <2>1. channel \in Seq(Message) /\ Len(channel) \in Nat /\ DOMAIN channel = 1..Len(channel)
    BY LenProperties DEF IInv, TypeOK
  <2>2. [flush |-> Gone] \in Message
    BY DEF Message
  <2>3. \A i \in 1..Len(channel) :
          (IF channel[i] = [flush |-> t] THEN [flush |-> Gone] ELSE channel[i]) \in Message
    BY <2>1, <2>2
  <2>4. channel' \in Seq(Message) /\ DOMAIN channel' = DOMAIN channel
    BY <1>1, <2>1, <2>3, IsASeq
  <2> QED BY <2>1, <2>4, LenProperties
<1>4. \A i \in DOMAIN channel :
        /\ \A w : channel'[i] = [entry |-> w] <=> channel[i] = [entry |-> w]
        /\ channel'[i] # [flush |-> t]
        /\ \A u \in Clients : channel'[i] = [flush |-> u] => u # t /\ channel[i] = [flush |-> u]
  BY <1>1, Distinct
<1>5. TypeOK'
  <2>1. /\ client' \in [Clients -> ClientStates] /\ covers' \in [Clients -> SUBSET Watched]
        /\ answer' \in Clients \cup {Gone}
    BY <1>1 DEF IInv, TypeOK, ClientStates
  <2> QED BY <1>1, <1>3, <2>1 DEF IInv, TypeOK
<1>6. Phases'
  <2>1. channel = <<>> => channel' = <<>>
    BY <1>3, EmptySeq DEF IInv, TypeOK
  <2>2. answer = Gone => answer' = Gone
    BY <1>1
  <2> QED BY <1>1, <1>2, <2>1, <2>2 DEF IInv, Phases, Alive
<1>7. KeptOnce'
  BY <1>1, <1>3, <1>4 DEF IInv, KeptOnce
<1>8. \A i \in DOMAIN channel : QueuedBefore(i) \subseteq QueuedBefore(i)'
  <2> SUFFICES ASSUME NEW i \in DOMAIN channel, NEW w \in Entries, NEW j \in DOMAIN channel,
                      j < i, channel[j] = [entry |-> w]
               PROVE  w \in QueuedBefore(i)'
    BY DEF QueuedBefore
  <2>1. j \in DOMAIN channel' /\ channel'[j] = [entry |-> w]
    BY <1>3, <1>4
  <2> QED BY <2>1 DEF QueuedBefore
<1>9. FlushIsBehind'
  <2>1. \A u \in Clients : u # t => client'[u] = client[u] /\ covers'[u] = covers[u]
    BY <1>1 DEF IInv, TypeOK
  <2>2. covers'[t] = {} /\ client'[t] = "idle" /\ answer' # t
    BY <1>1 DEF IInv, TypeOK
  <2>3. FlushCovers'
    BY <2>1, <2>2 DEF IInv, FlushIsBehind, FlushCovers
  <2>4. \A u \in Clients : answer' = u => client'[u] = "awaiting" /\ covers'[u] \subseteq Held(drain')
    BY <1>1, <2>1, <2>2 DEF IInv, FlushIsBehind
  <2>5. ASSUME NEW u \in Clients, NEW i \in DOMAIN channel', channel'[i] = [flush |-> u]
        PROVE  /\ client'[u] = "awaiting" /\ answer' # u
               /\ \A j \in DOMAIN channel' : channel'[j] = [flush |-> u] => j = i
               /\ covers'[u] \subseteq Held(storage') \cup Held(drain') \cup QueuedBefore(i)'
    <3>1. i \in DOMAIN channel /\ u # t /\ channel[i] = [flush |-> u]
      BY <2>5, <1>3, <1>4
    <3>2. /\ client[u] = "awaiting" /\ answer # u
          /\ \A j \in DOMAIN channel : channel[j] = [flush |-> u] => j = i
          /\ covers[u] \subseteq Held(storage) \cup Held(drain) \cup QueuedBefore(i)
      BY <3>1 DEF IInv, FlushIsBehind
    <3>3. answer' # u
      BY <1>1, <3>2
    <3> QED BY <1>1, <1>3, <1>4, <1>8, <2>1, <3>1, <3>2, <3>3
  <2> QED BY <2>3, <2>4, <2>5 DEF FlushIsBehind
<1> QED BY <1>5, <1>6, <1>7, <1>9 DEF IInv

(* Clients that come, go on and go, while no flush of theirs is pending. *)
LEMMA ComingAndGoingKeep ==
  ASSUME IInv, NEW t \in Clients,
         \/ Resume(t) \/ Drop(t)
         \/ \E u \in Clients, state \in {"idle", "guarding"} : Share(t, u, state)
  PROVE  IInv'
<1>1. UNCHANGED <<channel, storage, drain, pc, answer, exiting, due, fate, covers>> /\ Sent' = Sent
  BY DEF Resume, Drop, Share, aggregator, worker, Sent
<1>2. \E v \in Clients, state \in {"idle", "guarding", "out"} :
        client' = [client EXCEPT ![v] = state]
        /\ client[v] \in {"returned", "panicked", "idle", "merged", "out"}
  BY DEF Resume, Drop, Share, Become
<1>3. PICK v \in Clients, state \in {"idle", "guarding", "out"} :
        client' = [client EXCEPT ![v] = state]
        /\ client[v] \in {"returned", "panicked", "idle", "merged", "out"}
  BY <1>2
<1>4. ~exiting
  BY DEF Resume, Drop, Share, IInv, Phases, Senders
<1>5. TypeOK'
  BY <1>1, <1>3 DEF IInv, TypeOK, ClientStates
<1>6. Phases' /\ KeptOnce'
  BY <1>1, <1>4 DEF IInv, Phases, KeptOnce, Alive
<1>7. FlushIsBehind'
  <2>1. \A u \in Clients : /\ client[u] = "awaiting" => client'[u] = "awaiting"
                           /\ client'[u] = "returned" => client[u] = "returned"
    BY <1>3 DEF IInv, TypeOK
  <2>2. \A i : QueuedBefore(i)' = QueuedBefore(i)
    BY <1>1 DEF QueuedBefore
  <2> QED BY <1>1, <2>1, <2>2 DEF IInv, FlushIsBehind, FlushCovers
<1> QED BY <1>5, <1>6, <1>7 DEF IInv

-----------------------------------------------------------------------------
(* The worker. *)

LEMMA TickKeeps ==
  ASSUME IInv, Tick
  PROVE  IInv'
<1>1. /\ due' = TRUE /\ Sent' = Sent
      /\ UNCHANGED <<client, channel, storage, drain, pc, answer, exiting, fate, covers>>
  BY DEF Tick, aggregator, worker, Sent
<1>2. TypeOK'
  BY <1>1 DEF IInv, TypeOK
<1>3. Phases' /\ KeptOnce'
  BY <1>1 DEF IInv, Phases, KeptOnce, Alive, Senders
<1>4. FlushIsBehind'
  BY <1>1 DEF IInv, FlushIsBehind, FlushCovers, QueuedBefore
<1> QED BY <1>2, <1>3, <1>4 DEF IInv

(* The received entry moves from the channel to its aggregate, which may be    *)
(* on its way out at once.                                                    *)
LEMMA RecvEntryKeeps ==
  ASSUME IInv, RecvEntry
  PROVE  IInv'
<1>1. /\ pc = "recv" /\ channel # <<>> /\ "entry" \in DOMAIN Head(channel)
      /\ channel' = Tail(channel)
      /\ UNCHANGED <<client, answer, exiting, due, fate, covers>> /\ Sent' = Sent
  BY DEF RecvEntry, Sent
<1>2. channel \in Seq(Message) /\ storage \in Aggregates /\ drain \in Aggregates
  BY DEF IInv, TypeOK
<1>3. PICK e \in Entries : Head(channel) = [entry |-> e] /\ Head(channel).entry = e
  BY <1>1, <1>2, Receiving, Kinds
<1>4. /\ channel' \in Seq(Message) /\ Len(channel') <= Len(channel)
      /\ 1 \in DOMAIN channel /\ channel[1] = [entry |-> e]
      /\ \A i \in DOMAIN channel' : i \in Nat /\ i + 1 \in DOMAIN channel /\ channel'[i] = channel[i + 1]
      /\ \A i \in DOMAIN channel : i = 1 \/ (i - 1 \in DOMAIN channel' /\ (i - 1) + 1 = i)
      /\ \A i, j \in DOMAIN channel' : /\ i + 1 = j + 1 => i = j
                                       /\ i + 1 < j + 1 => i < j
                                       /\ 1 # i + 1
      /\ \A i, j \in DOMAIN channel : i < j => j # 1 /\ (i # 1 => i - 1 < j - 1)
  BY <1>1, <1>2, <1>3, Receiving
<1>5. DOMAIN drain = {} /\ Held(drain) = {} /\ answer = Gone
  BY <1>1, EmptyHoldsNothing DEF IInv, Phases
<1>6. /\ storage' \in Aggregates /\ drain' \in Aggregates /\ pc' \in {"recv", "flush"}
      /\ pc' = "recv" => DOMAIN drain' = {}
      /\ pc' # "recv" => DOMAIN storage' = {}
      /\ Held(storage') \cup Held(drain') = Held(storage) \cup {e}
      /\ \A k \in DOMAIN storage' : \A f \in storage'[k] : KeyOf[f] = k
      /\ \A k \in DOMAIN drain' : \A f \in drain'[k] : KeyOf[f] = k
  <2>1. /\ Merged(e) \in Aggregates /\ Held(Merged(e)) = Held(storage) \cup {e}
        /\ \A k \in DOMAIN Merged(e) : \A f \in Merged(e)[k] : KeyOf[f] = k
    BY <1>2, MergeAdds DEF IInv, KeptOnce
  <2>2. CASE FlushesAfterMerge
    <3>1. drain' = Merged(e) /\ storage' = Empty /\ pc' = "flush"
      BY <2>2, <1>3 DEF RecvEntry, StartFlush
    <3>2. Held(Empty) = {} /\ DOMAIN Empty = {} /\ Empty \in Aggregates
      BY EmptyHoldsNothing
    <3> QED BY <2>1, <3>1, <3>2
  <2>3. CASE ~FlushesAfterMerge
    <3>1. storage' = Merged(e) /\ drain' = drain /\ pc' = "recv"
      BY <2>3, <1>1, <1>3 DEF RecvEntry
    <3> QED BY <2>1, <3>1, <1>2, <1>5
  <2> QED BY <2>2, <2>3
<1>7. TypeOK'
  BY <1>1, <1>4, <1>6 DEF IInv, TypeOK
<1>8. Phases'
  BY <1>1, <1>5, <1>6 DEF IInv, Phases, Alive
<1>9. KeptOnce'
  <2>1. ASSUME NEW w \in Watched, NEW i \in DOMAIN channel', channel'[i] = [entry |-> w]
        PROVE  /\ w \notin Held(storage') \cup Held(drain')
               /\ \A j \in DOMAIN channel' : channel'[j] = [entry |-> w] => j = i
    <3>1. i + 1 \in DOMAIN channel /\ channel[i + 1] = [entry |-> w] /\ 1 # i + 1
      BY <2>1, <1>4
    <3>2. /\ w \notin Held(storage) \cup Held(drain)
          /\ \A j \in DOMAIN channel : channel[j] = [entry |-> w] => j = i + 1
      BY <3>1 DEF IInv, KeptOnce
    <3>3. w # e
      BY <3>1, <3>2, <1>4
    <3>4. \A j \in DOMAIN channel' : channel'[j] = [entry |-> w] => j + 1 = i + 1
      BY <3>2, <1>4
    <3> QED BY <3>2, <3>3, <3>4, <1>4, <1>6
  <2>2. ASSUME NEW w \in Watched
        PROVE  w \in Sent' <=> \/ w \in Held(storage') \cup Held(drain')
                               \/ \E i \in DOMAIN channel' : channel'[i] = [entry |-> w]
    <3>1. w \in Sent <=> \/ w \in Held(storage) \cup Held(drain)
                         \/ \E i \in DOMAIN channel : channel[i] = [entry |-> w]
      BY DEF IInv, KeptOnce
    <3>2. (\E i \in DOMAIN channel : channel[i] = [entry |-> w]) <=>
            w = e \/ \E i \in DOMAIN channel' : channel'[i] = [entry |-> w]
      <4>1. ASSUME NEW i \in DOMAIN channel, channel[i] = [entry |-> w], w # e
            PROVE  \E j \in DOMAIN channel' : channel'[j] = [entry |-> w]
        <5>1. i # 1
          BY <4>1, <1>4, Distinct
        <5>2. i - 1 \in DOMAIN channel' /\ channel'[i - 1] = channel[i]
          BY <5>1, <1>4
        <5> QED BY <5>2, <4>1
      <4> QED BY <4>1, <1>4
    <3> QED BY <3>1, <3>2, <1>1, <1>5, <1>6
  <2> QED BY <1>6, <2>1, <2>2 DEF KeptOnce
<1>10. FlushIsBehind'
  <2>1. ASSUME NEW u \in Clients, NEW i \in DOMAIN channel', channel'[i] = [flush |-> u]
        PROVE  /\ client'[u] = "awaiting" /\ answer' # u
               /\ \A j \in DOMAIN channel' : channel'[j] = [flush |-> u] => j = i
               /\ covers'[u] \subseteq Held(storage') \cup Held(drain') \cup QueuedBefore(i)'
    <3>1. i + 1 \in DOMAIN channel /\ channel[i + 1] = [flush |-> u]
      BY <2>1, <1>4
    <3>2. /\ client[u] = "awaiting" /\ answer # u
          /\ \A j \in DOMAIN channel : channel[j] = [flush |-> u] => j = i + 1
          /\ covers[u] \subseteq Held(storage) \cup Held(drain) \cup QueuedBefore(i + 1)
      BY <3>1 DEF IInv, FlushIsBehind
    <3>3. \A j \in DOMAIN channel' : channel'[j] = [flush |-> u] => j = i
      BY <3>2, <1>4
    <3>4. QueuedBefore(i + 1) \subseteq QueuedBefore(i)' \cup {e}
      <4> SUFFICES ASSUME NEW w \in Entries, NEW j \in DOMAIN channel, j < i + 1,
                          channel[j] = [entry |-> w], w # e
                   PROVE  \E k \in DOMAIN channel' : k < i /\ channel'[k] = [entry |-> w]
        BY DEF QueuedBefore
      <4>1. j # 1
        BY <1>4, Distinct
      <4>2. j - 1 \in DOMAIN channel' /\ (j - 1) + 1 = j
        BY <4>1, <1>4
      <4>3. channel'[j - 1] = [entry |-> w] /\ j - 1 < i
        BY <4>2, <1>4
      <4> QED BY <4>2, <4>3
    <3> QED BY <3>2, <3>3, <3>4, <1>1, <1>5, <1>6
  <2>2. FlushCovers'
    BY <1>1 DEF IInv, FlushIsBehind, FlushCovers
  <2> QED BY <1>1, <1>5, <2>1, <2>2 DEF IInv, FlushIsBehind
<1> QED BY <1>7, <1>8, <1>9, <1>10 DEF IInv

(* The aggregates are handed to a flush as they are. *)
LEMMA StartFlushHands ==
  ASSUME IInv, pc = "recv", StartFlush(storage)
  PROVE  /\ storage' \in Aggregates /\ drain' \in Aggregates /\ pc' = "flush" /\ drain' = storage
         /\ DOMAIN storage' = {} /\ Held(storage') = {} /\ Held(drain) = {}
         /\ answer = Gone /\ ~exiting
<1>1. storage' = Empty /\ drain' = storage /\ pc' = "flush"
  BY DEF StartFlush
<1>2. DOMAIN drain = {} /\ answer = Gone /\ ~exiting
  BY DEF IInv, Phases
<1> QED BY <1>1, <1>2, EmptyHoldsNothing DEF IInv, TypeOK

(* A received flush has everything it covers in the aggregates it drains. *)
LEMMA RecvFlushKeeps ==
  ASSUME IInv, RecvFlush
  PROVE  IInv'
<1>1. /\ pc = "recv" /\ channel # <<>> /\ "flush" \in DOMAIN Head(channel)
      /\ channel' = Tail(channel) /\ answer' = Head(channel).flush
      /\ UNCHANGED <<client, exiting, due, fate, covers>> /\ Sent' = Sent
  BY DEF RecvFlush, Sent
<1>2. /\ storage' \in Aggregates /\ drain' \in Aggregates /\ pc' = "flush" /\ drain' = storage
      /\ DOMAIN storage' = {} /\ Held(storage') = {} /\ Held(drain) = {}
      /\ answer = Gone /\ ~exiting
  BY <1>1, StartFlushHands DEF RecvFlush
<1>3. channel \in Seq(Message)
  BY DEF IInv, TypeOK
<1>4. Head(channel) = [flush |-> answer'] /\ answer' \in Clients \cup {Gone}
  BY <1>1, <1>3, Receiving, Kinds
<1>5. /\ channel' \in Seq(Message) /\ Len(channel') <= Len(channel)
      /\ 1 \in DOMAIN channel /\ channel[1] = [flush |-> answer']
      /\ \A i \in DOMAIN channel' : i \in Nat /\ i + 1 \in DOMAIN channel /\ channel'[i] = channel[i + 1]
      /\ \A i \in DOMAIN channel : i = 1 \/ (i - 1 \in DOMAIN channel' /\ (i - 1) + 1 = i)
      /\ \A i, j \in DOMAIN channel' : /\ i + 1 = j + 1 => i = j
                                       /\ i + 1 < j + 1 => i < j
                                       /\ 1 # i + 1
      /\ \A i, j \in DOMAIN channel : i < j => j # 1 /\ (i # 1 => i - 1 < j - 1)
  BY <1>1, <1>3, <1>4, Receiving
<1>6. TypeOK'
  BY <1>1, <1>2, <1>4, <1>5 DEF IInv, TypeOK
<1>7. Phases'
  BY <1>1, <1>2 DEF IInv, Phases, Alive
<1>8. \A w : (\E i \in DOMAIN channel' : channel'[i] = [entry |-> w]) <=>
             \E i \in DOMAIN channel : channel[i] = [entry |-> w]
  <2> TAKE w
  <2>1. ASSUME NEW i \in DOMAIN channel, channel[i] = [entry |-> w]
        PROVE  \E j \in DOMAIN channel' : channel'[j] = [entry |-> w]
    <3>1. i # 1
      BY <2>1, <1>5, Distinct
    <3>2. i - 1 \in DOMAIN channel' /\ channel'[i - 1] = channel[i]
      BY <3>1, <1>5
    <3> QED BY <3>2, <2>1
  <2> QED BY <2>1, <1>5
<1>9. KeptOnce'
  <2>1. ASSUME NEW w \in Watched, NEW i \in DOMAIN channel', channel'[i] = [entry |-> w]
        PROVE  /\ w \notin Held(storage') \cup Held(drain')
               /\ \A j \in DOMAIN channel' : channel'[j] = [entry |-> w] => j = i
    <3>1. i + 1 \in DOMAIN channel /\ channel[i + 1] = [entry |-> w]
      BY <2>1, <1>5
    <3>2. /\ w \notin Held(storage) \cup Held(drain)
          /\ \A j \in DOMAIN channel : channel[j] = [entry |-> w] => j = i + 1
      BY <3>1 DEF IInv, KeptOnce
    <3> QED BY <3>2, <1>2, <1>5
  <2>2. \A w \in Watched :
          w \in Sent' <=> \/ w \in Held(storage') \cup Held(drain')
                          \/ \E i \in DOMAIN channel' : channel'[i] = [entry |-> w]
    BY <1>1, <1>2, <1>8 DEF IInv, KeptOnce
  <2> QED BY <1>2, <2>1, <2>2 DEF IInv, KeptOnce
<1>10. FlushIsBehind'
  <2>1. ASSUME NEW u \in Clients, NEW i \in DOMAIN channel', channel'[i] = [flush |-> u]
        PROVE  /\ client'[u] = "awaiting" /\ answer' # u
               /\ \A j \in DOMAIN channel' : channel'[j] = [flush |-> u] => j = i
               /\ covers'[u] \subseteq Held(storage') \cup Held(drain') \cup QueuedBefore(i)'
    <3>1. i + 1 \in DOMAIN channel /\ channel[i + 1] = [flush |-> u] /\ 1 # i + 1
      BY <2>1, <1>5
    <3>2. /\ client[u] = "awaiting"
          /\ \A j \in DOMAIN channel : channel[j] = [flush |-> u] => j = i + 1
          /\ covers[u] \subseteq Held(storage) \cup Held(drain) \cup QueuedBefore(i + 1)
      BY <3>1 DEF IInv, FlushIsBehind
    <3>3. \A j \in DOMAIN channel' : channel'[j] = [flush |-> u] => j = i
      BY <3>2, <1>5
    <3>4. answer' # u
      BY <3>1, <3>2, <1>5
    <3>5. QueuedBefore(i + 1) \subseteq QueuedBefore(i)'
      <4> SUFFICES ASSUME NEW w \in Entries, NEW j \in DOMAIN channel, j < i + 1,
                          channel[j] = [entry |-> w]
                   PROVE  \E k \in DOMAIN channel' : k < i /\ channel'[k] = [entry |-> w]
        BY DEF QueuedBefore
      <4>1. j # 1
        BY <1>5, Distinct
      <4>2. j - 1 \in DOMAIN channel' /\ (j - 1) + 1 = j
        BY <4>1, <1>5
      <4>3. channel'[j - 1] = [entry |-> w] /\ j - 1 < i
        BY <4>2, <1>5
      <4> QED BY <4>2, <4>3
    <3> QED BY <3>2, <3>3, <3>4, <3>5, <1>1, <1>2
  <2>2. ASSUME NEW u \in Clients, answer' = u
        PROVE  client'[u] = "awaiting" /\ covers'[u] \subseteq Held(drain')
    <3>1. channel[1] = [flush |-> u] /\ 1 \in DOMAIN channel
      BY <2>2, <1>5
    <3>2. /\ client[u] = "awaiting"
          /\ covers[u] \subseteq Held(storage) \cup Held(drain) \cup QueuedBefore(1)
      BY <3>1 DEF IInv, FlushIsBehind
    <3>3. QueuedBefore(1) = {}
      BY <1>5, <3>1 DEF QueuedBefore
    <3> QED BY <3>2, <3>3, <1>1, <1>2
  <2>3. FlushCovers'
    BY <1>1 DEF IInv, FlushIsBehind, FlushCovers
  <2> QED BY <2>1, <2>2, <2>3 DEF FlushIsBehind
<1> QED BY <1>6, <1>7, <1>9, <1>10 DEF IInv

(* The interval has passed, or the last client is gone. *)
LEMMA OwnFlushKeeps ==
  ASSUME IInv, Timeout \/ Disconnected
  PROVE  IInv'
<1>1. /\ pc = "recv" /\ channel = <<>> /\ StartFlush(storage) /\ exiting' \in BOOLEAN
      /\ UNCHANGED <<client, channel, answer, due, fate, covers>> /\ Sent' = Sent
      /\ exiting' => Senders = {}
  <2>1. pc = "recv" => exiting = FALSE
    BY DEF IInv, Phases, TypeOK
  <2>2. CASE Timeout
    BY <2>1, <2>2 DEF Timeout, Sent
  <2>3. CASE Disconnected
    BY <2>3 DEF Disconnected, Sent
  <2> QED BY <2>2, <2>3
<1>2. /\ storage' \in Aggregates /\ drain' \in Aggregates /\ pc' = "flush" /\ drain' = storage
      /\ DOMAIN storage' = {} /\ Held(storage') = {} /\ Held(drain) = {}
      /\ answer = Gone /\ ~exiting
  BY <1>1, StartFlushHands
<1>3. TypeOK'
  BY <1>1, <1>2 DEF IInv, TypeOK
<1>4. Phases'
  BY <1>1, <1>2 DEF IInv, Phases, Alive, Senders
<1>5. KeptOnce'
  BY <1>1, <1>2 DEF IInv, KeptOnce
<1>6. FlushIsBehind'
  <2>1. DOMAIN channel' = {}
    BY <1>1
  <2> QED BY <1>1, <1>2, <2>1 DEF IInv, FlushIsBehind, FlushCovers
<1> QED BY <1>3, <1>4, <1>5, <1>6 DEF IInv

(* A row goes out: what it holds leaves the drain, Sent and what the flushes   *)
(* wait for.                                                                  *)
LEMMA EmitKeeps ==
  ASSUME IInv, NEW k, Emit(k)
  PROVE  IInv'
<1>1. /\ pc = "flush" /\ k \in DOMAIN drain
      /\ drain' = [j \in DOMAIN drain \ {k} |-> drain[j]]
      /\ fate' = [e \in Watched |-> IF e \in drain[k] THEN "emitted" ELSE fate[e]]
      /\ covers' = [t \in Clients |-> covers[t] \ drain[k]]
      /\ UNCHANGED <<client, channel, storage, pc, answer, exiting, due>>
  BY DEF Emit, worker
<1>2. /\ drain' \in Aggregates /\ Held(drain') = Held(drain) \ drain[k]
      /\ drain[k] \subseteq Held(drain)
      /\ \A j \in DOMAIN drain' : \A f \in drain'[j] : KeyOf[f] = j
  BY <1>1, EmitTakes DEF IInv, TypeOK, KeptOnce
<1>3. DOMAIN storage = {} /\ Held(storage) = {}
  BY <1>1, EmptyHoldsNothing DEF IInv, Phases
<1>4. \A e \in Watched : e \in Sent' <=> e \in Sent /\ e \notin drain[k]
  BY <1>1 DEF Sent, IInv, TypeOK
<1>5. TypeOK'
  <2>1. covers' \in [Clients -> SUBSET Watched]
        /\ fate' \in [Watched -> {"new", "sent", "emitted", "lost"}]
    BY <1>1 DEF IInv, TypeOK
  <2> QED BY <1>1, <1>2, <2>1 DEF IInv, TypeOK
<1>6. Phases'
  BY <1>1, <1>3 DEF IInv, Phases, Alive, Senders
<1>7. KeptOnce'
  <2>1. ASSUME NEW w \in Watched
        PROVE  w \in Sent' <=> \/ w \in Held(storage') \cup Held(drain')
                               \/ \E i \in DOMAIN channel' : channel'[i] = [entry |-> w]
    <3>1. w \in Sent <=> \/ w \in Held(storage) \cup Held(drain)
                         \/ \E i \in DOMAIN channel : channel[i] = [entry |-> w]
      BY DEF IInv, KeptOnce
    <3>2. w \in Held(drain) => ~\E i \in DOMAIN channel : channel[i] = [entry |-> w]
      BY DEF IInv, KeptOnce
    <3> QED BY <3>1, <3>2, <1>1, <1>2, <1>3, <1>4
  <2> QED BY <1>1, <1>2, <2>1 DEF IInv, KeptOnce
<1>8. FlushIsBehind'
  <2>1. \A i : QueuedBefore(i)' = QueuedBefore(i)
    BY <1>1 DEF QueuedBefore
  <2>2. \A t \in Clients : covers'[t] = covers[t] \ drain[k]
    BY <1>1
  <2>3. FlushCovers'
    BY <1>1, <2>2 DEF IInv, FlushIsBehind, FlushCovers
  <2> QED BY <1>1, <1>2, <2>1, <2>2, <2>3 DEF IInv, FlushIsBehind
<1> QED BY <1>5, <1>6, <1>7, <1>8 DEF IInv

(* The flush that is answered has nothing left to see emitted. *)
LEMMA FlushDoneKeeps ==
  ASSUME IInv, FlushDone
  PROVE  IInv'
<1>1. /\ pc = "flush" /\ DOMAIN drain = {} /\ answer' = Gone
      /\ pc' = IF exiting THEN "exited" ELSE "recv"
      /\ due' = (exiting /\ due)
      /\ client' = [t \in Clients |-> IF t = answer THEN "returned" ELSE client[t]]
      /\ UNCHANGED <<channel, storage, drain, exiting, fate, covers>> /\ Sent' = Sent
  BY DEF FlushDone, aggregator, Sent
<1>2. Held(drain) = {}
  BY <1>1, EmptyHoldsNothing
<1>3. TypeOK'
  <2>1. client' \in [Clients -> ClientStates] /\ due' \in BOOLEAN /\ answer' \in Clients \cup {Gone}
    BY <1>1 DEF IInv, TypeOK, ClientStates
  <2>2. pc' \in {"recv", "flush", "exited", "dead"}
    BY <1>1
  <2> QED BY <1>1, <2>1, <2>2 DEF IInv, TypeOK
<1>4. Phases'
  <2>1. Senders = {} => Senders' = {}
    BY <1>1 DEF Senders, IInv, FlushIsBehind
  <2> QED BY <1>1, <2>1 DEF IInv, Phases, Alive
<1>5. KeptOnce'
  BY <1>1 DEF IInv, KeptOnce
<1>6. FlushIsBehind'
  <2>1. \A i : QueuedBefore(i)' = QueuedBefore(i)
    BY <1>1 DEF QueuedBefore
  <2>2. FlushCovers'
    BY <1>1, <1>2 DEF IInv, FlushIsBehind, FlushCovers
  <2>3. ASSUME NEW u \in Clients, NEW i \in DOMAIN channel, channel[i] = [flush |-> u]
        PROVE  client'[u] = "awaiting"
    BY <2>3, <1>1 DEF IInv, FlushIsBehind
  <2> QED BY <1>1, <2>1, <2>2, <2>3 DEF IInv, FlushIsBehind
<1> QED BY <1>3, <1>4, <1>5, <1>6 DEF IInv

(* A panic loses what was sent, and every awaited flush learns of it. *)
LEMMA PanicKeeps ==
  ASSUME IInv, Panic
  PROVE  IInv'
<1>1. /\ pc' = "dead" /\ channel' = <<>> /\ storage' = Empty /\ drain' = Empty /\ answer' = Gone
      /\ client' = [t \in Clients |-> IF t \in Orphans THEN "panicked" ELSE client[t]]
      /\ fate' = [e \in Watched |-> IF e \in Sent THEN "lost" ELSE fate[e]]
      /\ UNCHANGED <<exiting, due, covers>>
  BY DEF Panic
<1>2. /\ Empty \in Aggregates /\ DOMAIN Empty = {} /\ Held(Empty) = {} /\ DOMAIN channel' = {}
      /\ channel' \in Seq(Message) /\ Len(channel') = 0
  BY <1>1, EmptyHoldsNothing
<1>3. Sent' = {}
  BY <1>1 DEF Sent, IInv, TypeOK
<1>4. TypeOK'
  <2>1. client' \in [Clients -> ClientStates]
        /\ fate' \in [Watched -> {"new", "sent", "emitted", "lost"}]
    BY <1>1 DEF IInv, TypeOK, ClientStates
  <2> QED BY <1>1, <1>2, <2>1 DEF IInv, TypeOK
<1>5. Phases'
  <2>1. Senders = {} => Senders' = {}
    BY <1>1 DEF Senders, Orphans
  <2> QED BY <1>1, <1>2, <2>1 DEF IInv, Phases, Alive
<1>6. KeptOnce'
  BY <1>1, <1>2, <1>3 DEF KeptOnce
<1>7. FlushIsBehind'
  <2>1. FlushCovers'
    BY <1>1 DEF IInv, FlushIsBehind, FlushCovers
  <2> QED BY <1>1, <1>2, <2>1 DEF FlushIsBehind
<1> QED BY <1>4, <1>5, <1>6, <1>7 DEF IInv

-----------------------------------------------------------------------------
LEMMA InitHolds ==
  ASSUME Init
  PROVE  IInv
<1>1. /\ channel = <<>> /\ storage = Empty /\ drain = Empty /\ pc = "recv" /\ due = FALSE
      /\ answer = Gone /\ exiting = FALSE /\ fate = [e \in Watched |-> "new"]
      /\ covers = [t \in Clients |-> {}]
  BY DEF Init
<1>2. /\ Empty \in Aggregates /\ DOMAIN Empty = {} /\ Held(Empty) = {} /\ DOMAIN channel = {}
      /\ channel \in Seq(Message) /\ Len(channel) = 0
  BY <1>1, EmptyHoldsNothing
<1>3. TypeOK
  <2>1. client \in [Clients -> ClientStates]
    BY DEF Init, ClientStates
  <2>2. /\ fate \in [Watched -> {"new", "sent", "emitted", "lost"}]
        /\ covers \in [Clients -> SUBSET Watched] /\ answer \in Clients \cup {Gone}
    BY <1>1
  <2>3. Len(channel) <= MaxQueued
    BY <1>2
  <2>4. storage \in Aggregates /\ drain \in Aggregates /\ due \in BOOLEAN /\ exiting \in BOOLEAN
        /\ pc \in {"recv", "flush", "exited", "dead"}
    BY <1>1, <1>2
  <2> QED BY <1>2, <2>1, <2>2, <2>3, <2>4 DEF TypeOK
<1>4. Phases
  BY <1>1, <1>2 DEF Phases, Alive
<1>5. KeptOnce
  <2>1. Sent = {}
    BY <1>1 DEF Sent
  <2> QED BY <1>1, <1>2, <2>1 DEF KeptOnce
<1>6. FlushIsBehind
  BY <1>1, <1>2 DEF FlushIsBehind, FlushCovers
<1> QED BY <1>3, <1>4, <1>5, <1>6 DEF IInv

LEMMA NextKeeps ==
  ASSUME IInv, [Next]_vars
  PROVE  IInv'
<1>1. CASE Worker
  BY <1>1, RecvEntryKeeps, RecvFlushKeeps, OwnFlushKeeps, EmitKeeps, FlushDoneKeeps DEF Worker
<1>2. CASE Tick
  BY <1>2, TickKeeps
<1>3. CASE Panic
  BY <1>3, PanicKeeps
<1>4. ASSUME NEW t \in Clients, Client(t)
      PROVE  IInv'
  <2>1. ASSUME NEW e \in Entries, Send(t, e) \/ DropGuard(t, e)
        PROVE  IInv'
    <3>1. /\ Enqueue(e) /\ client[t] # "out"
          /\ \/ UNCHANGED client
             \/ client[t] = "guarding" /\ client' = [client EXCEPT ![t] = "merged"]
      BY <2>1 DEF Send, DropGuard, Become
    <3> QED BY <3>1, EnqueueKeeps
  <2>2. CASE FlushCall(t)
    BY <2>2, FlushCallKeeps
  <2>3. CASE CancelFlush(t)
    BY <2>3, CancelFlushKeeps
  <2>4. CASE \/ Resume(t) \/ Drop(t)
             \/ \E u \in Clients, state \in {"idle", "guarding"} : Share(t, u, state)
    BY <2>4, ComingAndGoingKeep
  <2> QED BY <1>4, <2>1, <2>2, <2>3, <2>4 DEF Client
<1>5. CASE UNCHANGED vars
  <2>1. /\ UNCHANGED <<client, channel, storage, drain, pc, answer, exiting, due, fate, covers>>
        /\ Sent' = Sent
    BY <1>5 DEF vars, aggregator, worker, Sent
  <2>2. TypeOK'
    BY <2>1 DEF IInv, TypeOK
  <2>3. Phases' /\ KeptOnce'
    BY <2>1 DEF IInv, Phases, KeptOnce, Alive, Senders
  <2>4. FlushIsBehind'
    BY <2>1 DEF IInv, FlushIsBehind, FlushCovers, QueuedBefore
  <2> QED BY <2>2, <2>3, <2>4 DEF IInv
<1> QED BY <1>1, <1>2, <1>3, <1>4, <1>5 DEF Next

LEMMA InvariantHolds == Spec => []IInv
<1>1. Init => IInv
  BY InitHolds
<1>2. IInv /\ [Next]_vars => IInv'
  BY NextKeeps
<1> QED BY <1>1, <1>2, PTL DEF Spec

(* A set with at most one element is counted by whether it has one. *)
LEMMA CountOfOne ==
  ASSUME NEW S, \A x, y \in S : x = y
  PROVE  Cardinality(S) = IF S = {} THEN 0 ELSE 1
<1>1. CASE S = {}
  BY <1>1, FS_EmptySet
<1>2. CASE S # {}
  <2>1. PICK x \in S : TRUE
    BY <1>2
  <2>2. S = {x}
    BY <2>1
  <2> QED BY <2>2, <1>2, FS_Singleton
<1> QED BY <1>1, <1>2

LEMMA KeptOncePlacesEach ==
  ASSUME IInv
  PROVE  EachInOnePlace
<1>1. ASSUME NEW e \in Watched
      PROVE  /\ Stored(e) \cup Draining(e) \subseteq {KeyOf[e]}
             /\ Cardinality(Queued(e)) + Cardinality(Stored(e)) + Cardinality(Draining(e))
                  = (IF e \in Sent THEN 1 ELSE 0)
  <2>1. Stored(e) \cup Draining(e) \subseteq {KeyOf[e]}
    BY DEF IInv, KeptOnce, Stored, Draining
  <2>2. /\ e \in Held(storage) <=> Stored(e) # {}
        /\ e \in Held(drain) <=> Draining(e) # {}
    BY DEF Held, Stored, Draining
  <2>3. /\ \A i, j \in Queued(e) : i = j
        /\ Queued(e) # {} => Stored(e) = {} /\ Draining(e) = {}
        /\ e \in Sent <=> Queued(e) # {} \/ Stored(e) # {} \/ Draining(e) # {}
    BY <2>2 DEF IInv, KeptOnce, Queued
  <2>4. Stored(e) = {} \/ Draining(e) = {}
    BY DEF IInv, Phases, Stored, Draining
  <2>5. /\ Cardinality(Queued(e)) = IF Queued(e) = {} THEN 0 ELSE 1
        /\ Cardinality(Stored(e)) = IF Stored(e) = {} THEN 0 ELSE 1
        /\ Cardinality(Draining(e)) = IF Draining(e) = {} THEN 0 ELSE 1
    BY <2>1, <2>3, CountOfOne
  <2> QED BY <2>1, <2>3, <2>4, <2>5
<1>2. ASSUME pc = "exited"
      PROVE  Sent = {} /\ Senders = {} /\ channel = <<>>
  <2>1. /\ channel = <<>> /\ DOMAIN storage = {} /\ DOMAIN drain = {} /\ Senders = {}
    BY <1>2 DEF IInv, Phases, Alive
  <2>2. Held(storage) = {} /\ Held(drain) = {}
    BY <2>1, EmptyHoldsNothing
  <2> QED BY <2>1, <2>2 DEF IInv, KeptOnce, Sent
<1> QED BY <1>1, <1>2 DEF EachInOnePlace

-----------------------------------------------------------------------------
(* Aggregation never duplicates and never mislays: whatever clients send,      *)
(* clone, drop, flush and cancel while the worker merges, drains, times out   *)
(* or panics, a sent entry is in one message or in the one aggregate of its   *)
(* key, and a worker that ends for lack of clients leaves nothing behind.     *)
THEOREM EntriesAreInOnePlace == Spec => [](TypeOK /\ EachInOnePlace)
<1>1. IInv => TypeOK /\ EachInOnePlace
  BY KeptOncePlacesEach DEF IInv
<1> QED BY <1>1, InvariantHolds, PTL

(* WorkerSink::flush returns only when everything any client sent before the   *)
(* call has been emitted.                                                     *)
THEOREM FlushReturnsAfterEmission == Spec => []FlushCovers
<1>1. IInv => FlushCovers
  BY DEF IInv, FlushIsBehind
<1> QED BY <1>1, InvariantHolds, PTL
=============================================================================
