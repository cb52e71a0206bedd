------------------------- MODULE CwLogsStreamProofs -------------------------
(***************************************************************************)
(* Proofs about CwLogsStream, for every limit, channel capacity, set of      *)
(* sizes and number of events, with a runtime that may stop or may not.     *)
(***************************************************************************)
EXTENDS CwLogsStream, SequenceTheorems, TLAPS

USE LimitsAssumption, BoundsAssumption

IInv ==
  /\ TypeOK /\ Unrepeated /\ ExactlyOneFate
  /\ OneRequest /\ Ends /\ Owing /\ SilentLossOnlyAfterShutdown

-----------------------------------------------------------------------------
(* Sequences of events. *)

LEMMA NoEvents == Range(<<>>) = {} /\ IsInjective(<<>>) /\ <<>> \in Seq(Events) /\ Len(<<>>) = 0
BY DEF Range, IsInjective

LEMMA AppendEvent ==
  ASSUME NEW S, NEW s \in Seq(S), NEW x \in S
  PROVE  /\ Append(s, x) \in Seq(S) /\ Len(Append(s, x)) = Len(s) + 1
         /\ Range(Append(s, x)) = Range(s) \cup {x}
         /\ IsInjective(s) /\ x \notin Range(s) => IsInjective(Append(s, x))
<1>1. /\ Append(s, x) \in Seq(S) /\ Len(Append(s, x)) = Len(s) + 1 /\ Len(s) \in Nat
      /\ \A i \in 1..Len(s) : Append(s, x)[i] = s[i]
      /\ Append(s, x)[Len(s) + 1] = x
  OBVIOUS
<1>2. DOMAIN s = 1..Len(s) /\ DOMAIN Append(s, x) = 1..(Len(s) + 1)
  BY <1>1
<1>3. Range(Append(s, x)) = Range(s) \cup {x}
  BY <1>1, <1>2 DEF Range
<1>4. \A i \in 1..(Len(s) + 1) : i \in 1..Len(s) \/ i = Len(s) + 1
  BY <1>1
<1>5. ASSUME IsInjective(s), x \notin Range(s) PROVE IsInjective(Append(s, x))
  <2>1. \A i \in 1..Len(s) : s[i] # x
    BY <1>2, <1>5 DEF Range
  <2> QED BY <1>1, <1>2, <1>4, <1>5, <2>1 DEF IsInjective
<1> QED BY <1>1, <1>3, <1>5

LEMMA TakeEvent ==
  ASSUME NEW S, NEW s \in Seq(S), s # <<>>
  PROVE  /\ Head(s) \in S /\ Tail(s) \in Seq(S) /\ Len(Tail(s)) = Len(s) - 1
         /\ Head(s) \in Range(s) /\ Range(s) = Range(Tail(s)) \cup {Head(s)}
         /\ IsInjective(s) => IsInjective(Tail(s)) /\ Head(s) \notin Range(Tail(s))
<1>1. /\ Tail(s) \in Seq(S) /\ Len(s) \in Nat \ {0} /\ Len(Tail(s)) = Len(s) - 1
      /\ \A i \in 1..(Len(s) - 1) : Tail(s)[i] = s[i + 1]
      /\ Head(s) = s[1] /\ Head(s) \in S
  OBVIOUS
<1>2. DOMAIN s = 1..Len(s) /\ DOMAIN Tail(s) = 1..(Len(s) - 1)
  BY <1>1
<1>3. Head(s) \in Range(s)
  BY <1>1, <1>2 DEF Range
<1>4. \A i \in 1..Len(s) : i = 1 \/ (i - 1 \in 1..(Len(s) - 1) /\ s[i] = Tail(s)[i - 1])
  BY <1>1
<1>5. Range(s) \subseteq Range(Tail(s)) \cup {Head(s)}
  <2> SUFFICES ASSUME NEW i \in 1..Len(s), i # 1 PROVE s[i] \in Range(Tail(s))
    BY <1>1, <1>2 DEF Range
  <2>1. i - 1 \in DOMAIN Tail(s) /\ s[i] = Tail(s)[i - 1]
    BY <1>2, <1>4
  <2> QED BY <2>1 DEF Range
<1>6. \A i \in 1..(Len(s) - 1) : i + 1 \in 1..Len(s) /\ i + 1 # 1
  BY <1>1
<1>7. Range(Tail(s)) \subseteq Range(s)
  BY <1>1, <1>2, <1>6 DEF Range
<1>8. ASSUME IsInjective(s) PROVE IsInjective(Tail(s)) /\ Head(s) \notin Range(Tail(s))
  <2>1. \A i, j \in 1..(Len(s) - 1) : Tail(s)[i] = Tail(s)[j] => i = j
    BY <1>1, <1>2, <1>6, <1>8 DEF IsInjective
  <2>2. \A i \in 1..(Len(s) - 1) : Tail(s)[i] # Head(s)
    <3> TAKE i \in 1..(Len(s) - 1)
    <3>1. s[i + 1] # s[1]
      BY <1>1, <1>2, <1>6, <1>8 DEF IsInjective
    <3> QED BY <3>1, <1>1
  <2> QED BY <1>2, <2>1, <2>2 DEF IsInjective, Range
<1> QED BY <1>1, <1>3, <1>5, <1>7, <1>8

LEMMA JoinEvents ==
  ASSUME NEW S, NEW s \in Seq(S), NEW t \in Seq(S)
  PROVE  /\ s \o t \in Seq(S) /\ Range(s \o t) = Range(s) \cup Range(t)
         /\ IsInjective(s) /\ IsInjective(t) /\ Range(s) \cap Range(t) = {} => IsInjective(s \o t)
<1>1. /\ s \o t \in Seq(S) /\ Range(s \o t) = Range(s) \cup Range(t)
      /\ Len(s) \in Nat /\ Len(t) \in Nat /\ Len(s \o t) = Len(s) + Len(t)
      /\ DOMAIN s = 1..Len(s) /\ DOMAIN t = 1..Len(t) /\ DOMAIN (s \o t) = 1..(Len(s) + Len(t))
      /\ \A i \in 1..(Len(s) + Len(t)) :
           (s \o t)[i] = IF i <= Len(s) THEN s[i] ELSE t[i - Len(s)]
  BY RangeConcatenation, ConcatProperties, LenProperties
<1>2. ASSUME IsInjective(s), IsInjective(t), Range(s) \cap Range(t) = {}
      PROVE  IsInjective(s \o t)
  <2>1. \A i \in 1..Len(s), j \in 1..Len(t) : s[i] # t[j]
    BY <1>1, <1>2 DEF Range
  <2>2. \A i \in 1..(Len(s) + Len(t)) :
          \/ i \in 1..Len(s) /\ (s \o t)[i] = s[i]
          \/ i - Len(s) \in 1..Len(t) /\ (s \o t)[i] = t[i - Len(s)]
    BY <1>1
  <2>3. ASSUME NEW i \in 1..(Len(s) + Len(t)), NEW j \in 1..(Len(s) + Len(t)),
               (s \o t)[i] = (s \o t)[j]
        PROVE  i = j
    <3>1. CASE i \in 1..Len(s) /\ (s \o t)[i] = s[i]
      BY <3>1, <2>1, <2>2, <2>3, <1>1, <1>2 DEF IsInjective
    <3>2. CASE i - Len(s) \in 1..Len(t) /\ (s \o t)[i] = t[i - Len(s)]
      <4>1. j - Len(s) \in 1..Len(t) /\ t[i - Len(s)] = t[j - Len(s)]
        BY <3>2, <2>1, <2>2, <2>3
      <4>2. i - Len(s) = j - Len(s)
        BY <3>2, <4>1, <1>1, <1>2 DEF IsInjective
      <4> QED BY <4>2, <1>1
    <3> QED BY <3>1, <3>2, <2>2
  <2> QED BY <2>3, <1>1 DEF IsInjective
<1> QED BY <1>1, <1>2

-----------------------------------------------------------------------------
(* The channel. *)

Commands == Seq(Events) \cup {Shutdown}

LEMMA ShutdownIsNoBatch == Shutdown \notin Seq(Events)
<1>1. Shutdown[1] = 0 /\ DOMAIN Shutdown = 1..1
  BY DEF Shutdown
<1>2. 0 \notin Events
  BY DEF Events
<1> QED BY <1>1, <1>2, SMT

LEMMA EventsInType ==
  ASSUME NEW c \in Seq(Commands)
  PROVE  /\ EventsIn(c) \subseteq Events
         /\ \A e : e \in EventsIn(c) <=> \E i \in DOMAIN c : c[i] # Shutdown /\ e \in Range(c[i])
         /\ \A i \in DOMAIN c : c[i] # Shutdown => c[i] \in Seq(Events)
<1>1. \A e : e \in EventsIn(c) <=> \E i \in DOMAIN c : c[i] # Shutdown /\ e \in Range(c[i])
  <2> TAKE e
  <2>1. ASSUME e \in EventsIn(c) PROVE \E i \in DOMAIN c : c[i] # Shutdown /\ e \in Range(c[i])
    <3>1. PICK b \in Range(c) \ {Shutdown} : e \in Range(b)
      BY <2>1 DEF EventsIn
    <3>2. PICK i \in DOMAIN c : b = c[i]
      BY <3>1 DEF Range
    <3> QED BY <3>1, <3>2
  <2>2. ASSUME NEW i \in DOMAIN c, c[i] # Shutdown, e \in Range(c[i]) PROVE e \in EventsIn(c)
    <3>1. c[i] \in Range(c) \ {Shutdown}
      BY <2>2 DEF Range
    <3> QED BY <3>1, <2>2 DEF EventsIn
  <2> QED BY <2>1, <2>2
<1>2. \A i \in DOMAIN c : c[i] # Shutdown => c[i] \in Seq(Events)
  BY DEF Commands
<1>3. \A i \in DOMAIN c : c[i] # Shutdown => Range(c[i]) \subseteq Events
  BY <1>2, RangeOfSeq
<1> QED BY <1>1, <1>2, <1>3

(* No batch of the channel repeats an event, and no two share one. *)
Unmixed(c) ==
  /\ \A i \in DOMAIN c : c[i] # Shutdown => IsInjective(c[i])
  /\ \A i, j \in DOMAIN c :
       i # j /\ c[i] # Shutdown /\ c[j] # Shutdown => Range(c[i]) \cap Range(c[j]) = {}

LEMMA OfferCommand ==
  ASSUME NEW c \in Seq(Commands), NEW b \in Commands
  PROVE  /\ Append(c, b) \in Seq(Commands) /\ Len(Append(c, b)) = Len(c) + 1
         /\ \A i \in DOMAIN c : i \in DOMAIN Append(c, b) /\ Append(c, b)[i] = c[i]
         /\ \A i \in DOMAIN Append(c, b) : i \in DOMAIN c \/ i = Len(c) + 1
         /\ Len(c) + 1 \in DOMAIN Append(c, b) /\ Append(c, b)[Len(c) + 1] = b
         /\ Len(c) + 1 \notin DOMAIN c
BY AppendProperties, LenProperties

LEMMA OfferBatch ==
  ASSUME NEW c \in Seq(Commands), NEW b \in Seq(Events)
  PROVE  /\ EventsIn(Append(c, b)) = EventsIn(c) \cup Range(b)
         /\ Unmixed(c) /\ IsInjective(b) /\ EventsIn(c) \cap Range(b) = {} => Unmixed(Append(c, b))
<1> DEFINE d == Append(c, b)
           n == Len(c) + 1
<1>1. b \in Commands /\ b # Shutdown
  BY ShutdownIsNoBatch DEF Commands
<1>2. /\ d \in Seq(Commands)
      /\ \A i \in DOMAIN c : i \in DOMAIN d /\ d[i] = c[i]
      /\ \A i \in DOMAIN d : i \in DOMAIN c \/ i = n
      /\ n \in DOMAIN d /\ d[n] = b
  BY <1>1, OfferCommand
<1> HIDE DEF d, n
<1>3. \A e : e \in EventsIn(d) <=> \E i \in DOMAIN d : d[i] # Shutdown /\ e \in Range(d[i])
  BY <1>2, EventsInType
<1>4. \A e : e \in EventsIn(c) <=> \E i \in DOMAIN c : c[i] # Shutdown /\ e \in Range(c[i])
  BY EventsInType
<1>5. EventsIn(d) = EventsIn(c) \cup Range(b)
  <2>1. \A e : e \in EventsIn(d) <=> e \in EventsIn(c) \/ e \in Range(b)
    BY <1>1, <1>2, <1>3, <1>4
  <2> QED BY <2>1
<1>6. ASSUME Unmixed(c), IsInjective(b), EventsIn(c) \cap Range(b) = {} PROVE Unmixed(d)
  <2>1. \A i \in DOMAIN c : c[i] # Shutdown => Range(c[i]) \cap Range(b) = {}
    BY <1>4, <1>6
  <2> QED BY <1>2, <1>6, <2>1 DEF Unmixed
<1> QED BY <1>5, <1>6 DEF d

LEMMA OfferShutdown ==
  ASSUME NEW c \in Seq(Commands)
  PROVE  /\ EventsIn(Append(c, Shutdown)) = EventsIn(c)
         /\ Unmixed(c) => Unmixed(Append(c, Shutdown))
<1> DEFINE d == Append(c, Shutdown)
           n == Len(c) + 1
<1>1. Shutdown \in Commands
  BY DEF Commands
<1>2. /\ d \in Seq(Commands)
      /\ \A i \in DOMAIN c : i \in DOMAIN d /\ d[i] = c[i]
      /\ \A i \in DOMAIN d : i \in DOMAIN c \/ i = n
      /\ n \in DOMAIN d /\ d[n] = Shutdown
  BY <1>1, OfferCommand
<1> HIDE DEF d, n
<1>3. \A e : e \in EventsIn(d) <=> \E i \in DOMAIN d : d[i] # Shutdown /\ e \in Range(d[i])
  BY <1>2, EventsInType
<1>4. \A e : e \in EventsIn(c) <=> \E i \in DOMAIN c : c[i] # Shutdown /\ e \in Range(c[i])
  BY EventsInType
<1>5. EventsIn(d) = EventsIn(c)
  <2>1. \A e : e \in EventsIn(d) <=> e \in EventsIn(c)
    BY <1>2, <1>3, <1>4
  <2> QED BY <2>1
<1>6. ASSUME Unmixed(c) PROVE Unmixed(d)
  BY <1>2, <1>6 DEF Unmixed
<1> QED BY <1>5, <1>6 DEF d

(* recv takes the first command; the others move up. *)
LEMMA TakeCommand ==
  ASSUME NEW c \in Seq(Commands), c # <<>>
  PROVE  /\ Tail(c) \in Seq(Commands) /\ Len(Tail(c)) = Len(c) - 1 /\ Head(c) \in Commands
         /\ 1 \in DOMAIN c /\ c[1] = Head(c)
         /\ \A i \in DOMAIN Tail(c) : i \in Nat /\ i + 1 \in DOMAIN c /\ i + 1 # 1 /\ Tail(c)[i] = c[i + 1]
         /\ \A i \in DOMAIN c : i = 1 \/ (i - 1 \in DOMAIN Tail(c) /\ Tail(c)[i - 1] = c[i])
<1>1. Len(c) \in Nat /\ Len(c) >= 1 /\ DOMAIN c = 1..Len(c)
  BY LenProperties, EmptySeq
<1>2. /\ Tail(c) \in Seq(Commands) /\ Head(c) \in Commands /\ Head(c) = c[1]
      /\ Len(Tail(c)) = Len(c) - 1
      /\ \A i \in 1..(Len(c) - 1) : Tail(c)[i] = c[i + 1]
  BY <1>1, HeadTailProperties
<1>3. DOMAIN Tail(c) = 1..(Len(c) - 1)
  BY <1>2, LenProperties
<1> QED BY <1>1, <1>2, <1>3

LEMMA TakeBatch ==
  ASSUME NEW c \in Seq(Commands), c # <<>>, Unmixed(c)
  PROVE  /\ Unmixed(Tail(c))
         /\ Head(c) = Shutdown => EventsIn(Tail(c)) = EventsIn(c)
         /\ Head(c) # Shutdown =>
              /\ Head(c) \in Seq(Events) /\ IsInjective(Head(c))
              /\ Range(Head(c)) \subseteq EventsIn(c)
              /\ EventsIn(Tail(c)) = EventsIn(c) \ Range(Head(c))
<1> DEFINE d == Tail(c)
<1>1. /\ d \in Seq(Commands) /\ 1 \in DOMAIN c /\ c[1] = Head(c) /\ Head(c) \in Commands
      /\ \A i \in DOMAIN d : i \in Nat /\ i + 1 \in DOMAIN c /\ i + 1 # 1 /\ d[i] = c[i + 1]
      /\ \A i \in DOMAIN c : i = 1 \/ (i - 1 \in DOMAIN d /\ d[i - 1] = c[i])
  BY TakeCommand
<1> HIDE DEF d
<1>2. \A e : e \in EventsIn(d) <=> \E i \in DOMAIN d : d[i] # Shutdown /\ e \in Range(d[i])
  BY <1>1, EventsInType
<1>3. \A e : e \in EventsIn(c) <=> \E i \in DOMAIN c : c[i] # Shutdown /\ e \in Range(c[i])
  BY EventsInType
<1>4. \A e : e \in EventsIn(c) <=>
             e \in EventsIn(d) \/ (Head(c) # Shutdown /\ e \in Range(Head(c)))
  <2> TAKE e
  <2>1. ASSUME e \in EventsIn(c) PROVE e \in EventsIn(d) \/ (Head(c) # Shutdown /\ e \in Range(Head(c)))
    <3>1. PICK i \in DOMAIN c : c[i] # Shutdown /\ e \in Range(c[i])
      BY <2>1, <1>3
    <3>2. CASE i = 1
      BY <3>1, <3>2, <1>1
    <3>3. CASE i # 1
      <4>1. i - 1 \in DOMAIN d /\ d[i - 1] = c[i]
        BY <3>3, <1>1
      <4> QED BY <4>1, <3>1, <1>2
    <3> QED BY <3>2, <3>3
  <2>2. ASSUME e \in EventsIn(d) PROVE e \in EventsIn(c)
    <3>1. PICK i \in DOMAIN d : d[i] # Shutdown /\ e \in Range(d[i])
      BY <2>2, <1>2
    <3>2. i + 1 \in DOMAIN c /\ c[i + 1] # Shutdown /\ e \in Range(c[i + 1])
      BY <3>1, <1>1
    <3> QED BY <3>2, <1>3
  <2>3. ASSUME Head(c) # Shutdown, e \in Range(Head(c)) PROVE e \in EventsIn(c)
    BY <2>3, <1>1, <1>3
  <2> QED BY <2>1, <2>2, <2>3
<1>5. Unmixed(d)
  <2>1. \A i, j \in DOMAIN d : i # j => i + 1 # j + 1
    BY <1>1
  <2> QED BY <1>1, <2>1 DEF Unmixed
<1>6. Head(c) # Shutdown => EventsIn(d) \cap Range(Head(c)) = {}
  <2> SUFFICES ASSUME Head(c) # Shutdown, NEW e \in EventsIn(d), e \in Range(Head(c)) PROVE FALSE
    OBVIOUS
  <2>1. PICK i \in DOMAIN d : d[i] # Shutdown /\ e \in Range(d[i])
    BY <1>2
  <2>2. i + 1 \in DOMAIN c /\ i + 1 # 1 /\ c[i + 1] # Shutdown /\ e \in Range(c[i + 1])
    BY <2>1, <1>1
  <2>3. Range(c[i + 1]) \cap Range(c[1]) = {}
    BY <2>2, <1>1 DEF Unmixed
  <2> QED BY <2>2, <2>3, <1>1
<1>7. Head(c) # Shutdown => Head(c) \in Seq(Events) /\ IsInjective(Head(c))
  BY <1>1 DEF Unmixed, Commands
<1> QED BY <1>4, <1>5, <1>6, <1>7 DEF d

-----------------------------------------------------------------------------
(* Where the events are. *)

Apart(P) == \A i, j \in DOMAIN P : i # j => P[i] \cap P[j] = {}

(* From P to Q the events of X move from place a to place b. *)
Moves(P, Q, a, b, X) ==
  /\ DOMAIN Q = DOMAIN P /\ a \in DOMAIN P /\ b \in DOMAIN P /\ a # b
  /\ X \subseteq P[a] /\ Q[a] = P[a] \ X /\ Q[b] = P[b] \cup X
  /\ \A k \in DOMAIN P : k # a /\ k # b => Q[k] = P[k]

LEMMA MovingKeepsApart ==
  ASSUME NEW P, NEW Q, NEW a, NEW b, NEW X, Moves(P, Q, a, b, X), Apart(P)
  PROVE  Apart(Q) /\ UNION Range(Q) = UNION Range(P)
<1>1. \A x, k : k \in DOMAIN P =>
        (x \in Q[k] <=> IF k = a THEN x \in P[a] /\ x \notin X
                        ELSE IF k = b THEN x \in P[b] \/ x \in X ELSE x \in P[k])
  BY DEF Moves
<1>2. Apart(Q)
  <2> SUFFICES ASSUME NEW i \in DOMAIN P, NEW j \in DOMAIN P, i # j, NEW x, x \in Q[i], x \in Q[j]
               PROVE  FALSE
    BY DEF Apart, Moves
  <2>1. \A k, l \in DOMAIN P : x \in P[k] /\ x \in P[l] => k = l
    BY DEF Apart
  <2>2. x \in X => x \in P[a]
    BY DEF Moves
  <2> QED BY <1>1, <2>1, <2>2 DEF Moves
<1>3. \A x : x \in UNION Range(Q) <=> \E k \in DOMAIN P : x \in Q[k]
  BY DEF Range, Moves
<1>4. \A x : x \in UNION Range(P) <=> \E k \in DOMAIN P : x \in P[k]
  BY DEF Range
<1>5. \A x : x \in UNION Range(Q) <=> x \in UNION Range(P)
  <2> TAKE x
  <2>1. ASSUME NEW k \in DOMAIN P, x \in Q[k] PROVE \E l \in DOMAIN P : x \in P[l]
    BY <2>1, <1>1 DEF Moves
  <2>2. ASSUME NEW k \in DOMAIN P, x \in P[k] PROVE \E l \in DOMAIN P : x \in Q[l]
    BY <2>2, <1>1 DEF Moves
  <2> QED BY <2>1, <2>2, <1>3, <1>4
<1> QED BY <1>2, <1>5

Accounted == Apart(Places) /\ UNION Range(Places) = 1..made

LEMMA FatesInParts ==
  ExactlyOneFate <=> Accounted /\ \A i, j \in DOMAIN submitted : i # j => submitted[i] # submitted[j]
BY DEF ExactlyOneFate, Accounted, Apart

(* Places while a step of the stream has enqueued the batch and goes on. *)
Between ==
  <<Range(lines), Range(BatchAfter), EventsIn(channel'), Range(in_flight),
    Range(submitted), failed, dropped', oversized, refused, lost'>>

(* enqueue_batch moves the batch, whole, to the channel, to the dropped or to  *)
(* the lost; without a sender it moves nothing.                               *)
LEMMA EnqueueMoves ==
  ASSUME TypeOK, Unrepeated, Apart(Places), EnqueueBatch
  PROVE  /\ channel' \in Seq(Commands) /\ Unmixed(channel')
         /\ Len(channel') + (IF relay = "granted" THEN 1 ELSE 0) <= ChannelCapacity
         /\ channel' = channel \/ (tx /\ ~closed /\ channel' = Append(channel, batch))
         /\ EventsIn(channel) \subseteq EventsIn(channel')
         /\ BatchAfter \in Seq(Events) /\ IsInjective(BatchAfter) /\ BytesAfter \in Nat
         /\ dropped' \subseteq Events /\ lost' \subseteq Events
         /\ lost' = lost \/ (tx /\ closed)
         /\ Apart(Between) /\ UNION Range(Between) = UNION Range(Places)
<1>1. /\ channel \in Seq(Commands) /\ Unmixed(channel) /\ Range(batch) \subseteq Events
      /\ batch \in Seq(Events) /\ IsInjective(batch) /\ batch_bytes \in Nat
      /\ dropped \subseteq Events /\ lost \subseteq Events
      /\ Len(channel) \in Nat /\ Taken <= ChannelCapacity
      /\ Taken = Len(channel) + (IF relay = "granted" THEN 1 ELSE 0)
  <2>1. Range(batch) \subseteq Events
    BY RangeOfSeq DEF TypeOK
  <2>2. channel \in Seq(Commands) /\ Len(channel) \in Nat
    BY DEF TypeOK, Commands
  <2>3. Unmixed(channel) /\ IsInjective(batch)
    BY DEF Unrepeated, Unmixed
  <2> QED BY <2>1, <2>2, <2>3 DEF TypeOK, Taken
<1>2. DOMAIN Places = 1..10 /\ DOMAIN Between = 1..10
  BY DEF Places, Between
<1>3. CASE ~tx
  <2>1. UNCHANGED <<channel, dropped, lost>> /\ BatchAfter = batch /\ BytesAfter = batch_bytes
    BY <1>3 DEF EnqueueBatch, BatchAfter, BytesAfter
  <2>2. Between = Places
    BY <2>1 DEF Between, Places
  <2> QED BY <1>1, <2>1, <2>2
<1>4. ASSUME tx
      PROVE  /\ BatchAfter = <<>> /\ BytesAfter = 0 /\ Range(BatchAfter) = {}
             /\ BatchAfter \in Seq(Events) /\ IsInjective(BatchAfter) /\ BytesAfter \in Nat
  BY <1>4, NoEvents DEF BatchAfter, BytesAfter
<1>5. CASE tx /\ closed
  <2>1. lost' = lost \cup Range(batch) /\ UNCHANGED <<channel, dropped>>
    BY <1>5 DEF EnqueueBatch
  <2>2. Moves(Places, Between, 2, 10, Range(batch))
    BY <1>2, <1>4, <1>5, <2>1 DEF Moves, Places, Between
  <2> QED BY <1>1, <1>4, <1>5, <2>1, <2>2, MovingKeepsApart
<1>6. CASE tx /\ ~closed /\ Taken >= ChannelCapacity
  <2>1. dropped' = dropped \cup Range(batch) /\ UNCHANGED <<channel, lost>>
    BY <1>1, <1>6 DEF EnqueueBatch, ReportFull
  <2>2. Moves(Places, Between, 2, 7, Range(batch))
    BY <1>2, <1>4, <1>6, <2>1 DEF Moves, Places, Between
  <2> QED BY <1>1, <1>4, <1>6, <2>1, <2>2, MovingKeepsApart
<1>7. CASE tx /\ ~closed /\ Taken < ChannelCapacity
  <2>1. channel' = Append(channel, batch) /\ UNCHANGED <<dropped, lost>>
    BY <1>1, <1>7 DEF EnqueueBatch, OfferLast
  <2>2. EventsIn(channel) \cap Range(batch) = {}
    <3>1. Places[3] = EventsIn(channel) /\ Places[2] = Range(batch)
      BY DEF Places
    <3> QED BY <3>1, <1>2 DEF Apart
  <2>3. EventsIn(channel') = EventsIn(channel) \cup Range(batch) /\ Unmixed(channel')
    BY <1>1, <2>1, <2>2, OfferBatch
  <2>4. channel' \in Seq(Commands) /\ Len(channel') = Len(channel) + 1
    BY <1>1, <2>1, OfferCommand DEF Commands
  <2>5. Len(channel') + (IF relay = "granted" THEN 1 ELSE 0) <= ChannelCapacity
    BY <1>1, <1>7, <2>4
  <2>6. Moves(Places, Between, 2, 3, Range(batch))
    BY <1>2, <1>4, <1>7, <2>1, <2>3 DEF Moves, Places, Between
  <2> QED BY <1>1, <1>4, <1>7, <2>1, <2>3, <2>4, <2>5, <2>6, MovingKeepsApart
<1> QED BY <1>1, <1>3, <1>5, <1>6, <1>7 DEF EnqueueBatch

(* From P to Q the events of X, which were nowhere, come to place b. *)
Adds(P, Q, b, X) ==
  /\ DOMAIN Q = DOMAIN P /\ b \in DOMAIN P /\ X \cap UNION Range(P) = {}
  /\ Q[b] = P[b] \cup X /\ \A k \in DOMAIN P : k # b => Q[k] = P[k]

LEMMA AddingKeepsApart ==
  ASSUME NEW P, NEW Q, NEW b, NEW X, Adds(P, Q, b, X), Apart(P)
  PROVE  Apart(Q) /\ UNION Range(Q) = (UNION Range(P)) \cup X
<1>1. \A x : x \in UNION Range(P) <=> \E k \in DOMAIN P : x \in P[k]
  BY DEF Range
<1>2. \A x : x \in UNION Range(Q) <=> \E k \in DOMAIN P : x \in Q[k]
  BY DEF Range, Adds
<1>3. \A x \in X : \A k \in DOMAIN P : x \notin P[k]
  BY <1>1 DEF Adds
<1>4. Apart(Q)
  BY <1>3 DEF Apart, Adds
<1>5. \A x : x \in UNION Range(Q) <=> x \in UNION Range(P) \/ x \in X
  BY <1>1, <1>2 DEF Adds
<1> QED BY <1>4, <1>5

-----------------------------------------------------------------------------
(* The stream. *)

(* What a step of the stream does to the two tasks and to the handle's        *)
(* request: at most a batch more in an open channel.                         *)
LEMMA StreamKeepsEnds ==
  ASSUME IInv,
         UNCHANGED <<closed, worker, in_flight, relay, handle, response, owed, submitted, failed>>,
         stream = "live",
         \/ stream' = "live" /\ (tx' = tx \/ tx' = TxAfter)
         \/ stream' = "dropped" /\ tx' = FALSE /\ lines' = <<>> /\ (batch' # <<>> => ~tx),
         channel' = channel \/ (tx /\ ~closed /\ channel' = Append(channel, batch)),
         EventsIn(channel) \subseteq EventsIn(channel'),
         lost' = lost \/ (tx /\ closed)
  PROVE  OneRequest' /\ Ends' /\ Owing' /\ SilentLossOnlyAfterShutdown'
<1>1. Asked' = Asked /\ tx \in BOOLEAN /\ tx' \in BOOLEAN /\ closed \in BOOLEAN
  BY DEF Asked, IInv, TypeOK, TxAfter
<1>2. /\ \A i \in DOMAIN channel' : channel'[i] = Shutdown => i \in DOMAIN channel /\ channel[i] = Shutdown
      /\ closed => channel' = channel
  <2>1. CASE channel' = channel
    BY <2>1
  <2>2. CASE ~closed /\ channel' = Append(channel, batch)
    <3>1. channel \in Seq(Commands) /\ batch \in Commands /\ batch # Shutdown
      BY ShutdownIsNoBatch DEF IInv, TypeOK, Commands
    <3> QED BY <2>2, <3>1, OfferCommand
  <2> QED BY <2>1, <2>2
<1>3. OneRequest'
  BY <1>1, <1>2 DEF IInv, OneRequest
<1>4. Ends'
  <2>1. worker \in {"answer", "done", "stopped"} => channel' = <<>>
    BY <1>2 DEF IInv, Ends
  <2>2. stream' = "live" /\ (closed \/ ~tx') => stream = "live" /\ (closed \/ ~tx)
    BY <1>1 DEF TxAfter
  <2>3. tx' => tx
    BY <1>1 DEF TxAfter
  <2> QED BY <1>1, <2>1, <2>2, <2>3 DEF IInv, Ends
<1>5. Owing'
  <2>1. response = "sent" => worker \in {"done", "stopped"} \/ stream' = "dropped"
    BY DEF IInv, Owing
  <2> QED BY <1>1, <2>1 DEF IInv, Owing
<1>6. SilentLossOnlyAfterShutdown'
  <2>1. closed \/ ~tx => Asked \/ worker = "stopped"
    BY DEF IInv, Ends
  <2>2. lost' # {} => Asked \/ worker = "stopped"
    BY <2>1 DEF IInv, SilentLossOnlyAfterShutdown, Asked
  <2>3. stream' = "dropped" /\ batch' # <<>> => Asked \/ worker = "stopped"
    BY <2>1
  <2> QED BY <2>2, <2>3 DEF SilentLossOnlyAfterShutdown, Asked
<1> QED BY <1>3, <1>4, <1>5, <1>6

(* Taken counts what it did: relay does not move. *)
LEMMA StreamKeepsTypes ==
  ASSUME TypeOK,
         UNCHANGED <<closed, worker, in_flight, relay, handle, response, owed, submitted, failed>>,
         stream' \in {"live", "dropped"}, tx' \in BOOLEAN,
         batch' \in Seq(Events), lines' \in Seq(Events), batch_bytes' \in Nat,
         channel' \in Seq(Commands),
         Len(channel') + (IF relay = "granted" THEN 1 ELSE 0) <= ChannelCapacity,
         dropped' \subseteq Events, oversized' \subseteq Events, refused' \subseteq Events,
         lost' \subseteq Events, size' \in [Events -> Sizes \cup {0}], made' \in 0..MaxEvents
  PROVE  TypeOK'
BY DEF TypeOK, Taken, Commands

LEMMA NextEntryKeeps ==
  ASSUME IInv, NEW sizes \in SizeLists, NextEntry(sizes)
  PROVE  IInv'
<1> DEFINE n == Len(sizes)
           new == [i \in 1..n |-> made + i]
<1>1. n \in Nat /\ sizes \in [1..n -> Sizes] /\ made \in Nat /\ made + n <= MaxEvents
  <2>1. PICK m \in 1..MaxLines : sizes \in [1..m -> Sizes]
    BY DEF SizeLists
  <2>2. sizes \in Seq(Sizes) /\ n = m
    BY <2>1
  <2> QED BY <2>1, <2>2 DEF NextEntry, IInv, TypeOK
<1>2. /\ stream = "live" /\ lines = <<>> /\ made' = made + n
      /\ size' = [e \in Events |-> IF e \in Range(new) THEN sizes[e - made] ELSE size[e]]
      /\ IF tx THEN lines' = new /\ UNCHANGED refused
         ELSE refused' = refused \cup Range(new) /\ UNCHANGED lines
      /\ UNCHANGED <<stream, tx, batch, batch_bytes, channel, closed, worker, in_flight, relay,
                     handle, response, owed, submitted, failed, dropped, oversized, lost>>
  BY DEF NextEntry, tasks, closing
<1>3. /\ new \in Seq(Events) /\ IsInjective(new)
      /\ \A x : x \in Range(new) <=> x \in Nat /\ made < x /\ x <= made + n
  <2>1. \A i \in 1..n : made + i \in Events
    BY <1>1 DEF Events
  <2>2. new \in Seq(Events)
    BY <1>1, <2>1, IsASeq
  <2>3. IsInjective(new)
    BY <1>1 DEF IsInjective
  <2>4. ASSUME NEW x PROVE x \in Range(new) <=> x \in Nat /\ made < x /\ x <= made + n
    <3>1. x \in Range(new) => x \in Nat /\ made < x /\ x <= made + n
      BY <1>1 DEF Range
    <3>2. ASSUME x \in Nat, made < x, x <= made + n PROVE x \in Range(new)
      <4>1. x - made \in 1..n /\ new[x - made] = x
        BY <1>1, <3>2
      <4> QED BY <4>1 DEF Range
    <3> QED BY <3>1, <3>2
  <2> QED BY <2>2, <2>3, <2>4
<1> HIDE DEF new
<1>4. Range(new) \subseteq Events /\ Range(lines) = {}
  BY <1>2, <1>3, RangeOfSeq, NoEvents
<1>5. size' \in [Events -> Sizes \cup {0}] /\ made' \in 0..MaxEvents
  <2>1. \A e \in Range(new) : sizes[e - made] \in Sizes
    <3> TAKE e \in Range(new)
    <3>1. e - made \in 1..n
      BY <1>1, <1>3
    <3> QED BY <3>1, <1>1
  <2>2. size \in [Events -> Sizes \cup {0}]
    BY DEF IInv, TypeOK
  <2>3. made' \in 0..MaxEvents
    BY <1>1, <1>2
  <2> QED BY <1>2, <2>1, <2>2, <2>3
<1>6. (UNION Range(Places)) \cup Range(new) = 1..made' /\ Range(new) \cap UNION Range(Places) = {}
      /\ Apart(Places)
  <2>1. UNION Range(Places) = 1..made /\ Apart(Places)
    BY FatesInParts DEF IInv, Accounted
  <2>2. \A x : x \in 1..made' <=> x \in 1..made \/ x \in Range(new)
    <3>1. \A m, k \in Nat : \A x :
            x \in 1..(m + k) <=> x \in 1..m \/ (x \in Nat /\ m < x /\ x <= m + k)
      OBVIOUS
    <3> QED BY <3>1, <1>1, <1>2, <1>3
  <2>3. \A x \in Range(new) : x \notin 1..made
    BY <1>1, <1>3
  <2> QED BY <2>1, <2>2, <2>3
<1>7. /\ channel \in Seq(Commands) /\ refused \subseteq Events
      /\ Len(channel) + (IF relay = "granted" THEN 1 ELSE 0) <= ChannelCapacity
  BY DEF IInv, TypeOK, Commands, Taken
<1>8. DOMAIN Places = 1..10 /\ DOMAIN Places' = 1..10
  BY DEF Places
<1>9. lines' \in Seq(Events) /\ refused' \subseteq Events /\ IsInjective(lines')
  BY <1>2, <1>3, <1>4, <1>7, NoEvents
<1>10. TypeOK'
  <2>1. /\ batch' \in Seq(Events) /\ batch_bytes' \in Nat /\ dropped' \subseteq Events
        /\ oversized' \subseteq Events /\ lost' \subseteq Events /\ tx' \in BOOLEAN
    BY <1>2 DEF IInv, TypeOK
  <2>2. TypeOK /\ UNCHANGED <<closed, worker, in_flight, relay, handle, response, owed, submitted, failed>>
        /\ stream' \in {"live", "dropped"} /\ channel' = channel
    BY <1>2 DEF IInv
  <2> QED BY <1>5, <1>7, <1>9, <2>1, <2>2, StreamKeepsTypes
<1>11. Unrepeated'
  BY <1>2, <1>9 DEF IInv, Unrepeated
<1>12. ExactlyOneFate'
  <2>1. Apart(Places') /\ UNION Range(Places') = (UNION Range(Places)) \cup Range(new)
    <3>1. CASE tx
      <4>1. Places'[1] = Places[1] \cup Range(new) /\ \A k \in 1..10 : k # 1 => Places'[k] = Places[k]
        BY <3>1, <1>2, <1>4 DEF Places
      <4>2. Adds(Places, Places', 1, Range(new))
        BY <4>1, <1>6, <1>8 DEF Adds
      <4> QED BY <4>2, <1>6, AddingKeepsApart
    <3>2. CASE ~tx
      <4>1. Places'[9] = Places[9] \cup Range(new) /\ \A k \in 1..10 : k # 9 => Places'[k] = Places[k]
        BY <3>2, <1>2 DEF Places
      <4>2. Adds(Places, Places', 9, Range(new))
        BY <4>1, <1>6, <1>8 DEF Adds
      <4> QED BY <4>2, <1>6, AddingKeepsApart
    <3> QED BY <3>1, <3>2
  <2>2. UNION Range(Places') = 1..made'
    BY <2>1, <1>6
  <2> QED BY <2>1, <2>2, <1>2 DEF ExactlyOneFate, Apart, IInv
<1>13. OneRequest' /\ Ends' /\ Owing' /\ SilentLossOnlyAfterShutdown'
  BY <1>2, StreamKeepsEnds
<1> QED BY <1>10, <1>11, <1>12, <1>13 DEF IInv

(* One line: an event that is too long goes to the oversized, any other into   *)
(* the batch, which is enqueued first if it is full.                          *)
LEMMA NextLineKeeps ==
  ASSUME IInv, NextLine
  PROVE  IInv'
<1> DEFINE e == Head(lines)
           full == batch # <<>> /\ ExceedsLimits(size[e])
<1>1. /\ lines # <<>> /\ lines' = Tail(lines)
      /\ UNCHANGED <<stream, closed, worker, in_flight, relay, handle, response, owed, submitted,
                     failed, refused, size, made>>
  BY DEF NextLine, tasks, closing, events
<1>2. stream = "live"
  BY <1>1 DEF IInv, Ends, TypeOK
<1>3. /\ e \in Events /\ lines' \in Seq(Events) /\ e \in Range(lines)
      /\ Range(lines') = Range(lines) \ {e} /\ IsInjective(lines')
  BY <1>1, TakeEvent DEF IInv, TypeOK, Unrepeated
<1>4. /\ channel \in Seq(Commands) /\ Unmixed(channel) /\ oversized \subseteq Events
      /\ dropped \subseteq Events /\ lost \subseteq Events /\ tx \in BOOLEAN /\ closed \in BOOLEAN
      /\ refused \subseteq Events /\ batch \in Seq(Events) /\ batch_bytes \in Nat
      /\ Len(channel) + (IF relay = "granted" THEN 1 ELSE 0) <= ChannelCapacity
      /\ IsInjective(batch) /\ IsInjective(in_flight) /\ IsInjective(submitted)
      /\ size \in [Events -> Sizes \cup {0}] /\ made \in 0..MaxEvents
  BY DEF IInv, TypeOK, Commands, Taken, Unrepeated, Unmixed
<1>5. Apart(Places) /\ UNION Range(Places) = 1..made /\ DOMAIN Places = 1..10
      /\ DOMAIN Places' = 1..10
      /\ \A i, j \in DOMAIN submitted : i # j => submitted[i] # submitted[j]
  <2>1. DOMAIN Places = 1..10 /\ DOMAIN Places' = 1..10
    BY DEF Places
  <2> QED BY <2>1, FatesInParts DEF IInv, Accounted
<1>6. size[e] \in Nat
  <2>1. size[e] \in Sizes \cup {0}
    BY <1>3, <1>4
  <2>2. \A n \in Sizes \cup {0} : n \in Nat
    <3>1. 0 \in Nat /\ Sizes \subseteq Nat
      OBVIOUS
    <3> QED BY <3>1, Zenon
  <2> QED BY <2>1, <2>2, Zenon
<1>7. CASE size[e] > MaxEventBytes
  <2>1. oversized' = oversized \cup {e}
        /\ UNCHANGED <<channel, dropped, lost, tx, batch, batch_bytes>>
    BY <1>7 DEF NextLine, NotEnqueued
  <2>2. oversized' \subseteq Events
    BY <1>3, <1>4, <2>1
  <2>3. TypeOK'
    BY <1>1, <1>3, <1>4, <2>1, <2>2, StreamKeepsTypes DEF IInv, TypeOK
  <2>4. Unrepeated'
    BY <1>1, <1>3, <1>4, <2>1 DEF Unrepeated, Unmixed
  <2>5. /\ Places'[1] = Places[1] \ {e} /\ Places'[8] = Places[8] \cup {e} /\ {e} \subseteq Places[1]
        /\ \A k \in 1..10 : k # 1 /\ k # 8 => Places'[k] = Places[k]
    BY <1>1, <1>3, <2>1 DEF Places
  <2>6. Moves(Places, Places', 1, 8, {e})
    BY <1>5, <2>5 DEF Moves
  <2>7. ExactlyOneFate'
    BY <1>1, <1>5, <2>6, MovingKeepsApart DEF ExactlyOneFate, Apart
  <2>8. OneRequest' /\ Ends' /\ Owing' /\ SilentLossOnlyAfterShutdown'
    BY <1>1, <1>2, <2>1, StreamKeepsEnds
  <2> QED BY <2>3, <2>4, <2>7, <2>8 DEF IInv
<1>8. ASSUME ~(size[e] > MaxEventBytes)
      PROVE  /\ oversized' = oversized
             /\ IF full THEN EnqueueBatch /\ tx' = TxAfter ELSE NotEnqueued
             /\ batch' = Append(IF full THEN BatchAfter ELSE batch, e)
             /\ batch_bytes' = (IF full THEN BytesAfter ELSE batch_bytes) + size[e] + EventOverhead
  BY <1>8 DEF NextLine
<1> HIDE DEF e, full
<1>9. CASE ~(size[e] > MaxEventBytes) /\ ~full
  <2>1. /\ batch' = Append(batch, e) /\ batch_bytes' = batch_bytes + size[e] + EventOverhead
        /\ UNCHANGED <<channel, dropped, lost, tx, oversized>>
    BY <1>8, <1>9 DEF NotEnqueued
  <2>2. e \notin Range(batch)
    <3>1. Places[1] = Range(lines) /\ Places[2] = Range(batch)
      BY DEF Places
    <3> QED BY <3>1, <1>3, <1>5 DEF Apart
  <2>3. batch' \in Seq(Events) /\ Range(batch') = Range(batch) \cup {e} /\ IsInjective(batch')
        /\ batch_bytes' \in Nat
    BY <1>3, <1>4, <1>6, <2>1, <2>2, AppendEvent
  <2>4. TypeOK'
    BY <1>1, <1>3, <1>4, <2>1, <2>3, StreamKeepsTypes DEF IInv, TypeOK
  <2>5. Unrepeated'
    BY <1>1, <1>3, <1>4, <2>1, <2>3 DEF Unrepeated, Unmixed
  <2>6. /\ Places'[1] = Places[1] \ {e} /\ Places'[2] = Places[2] \cup {e} /\ {e} \subseteq Places[1]
        /\ \A k \in 1..10 : k # 1 /\ k # 2 => Places'[k] = Places[k]
    BY <1>1, <1>3, <2>1, <2>3 DEF Places
  <2>7. Moves(Places, Places', 1, 2, {e})
    BY <1>5, <2>6 DEF Moves
  <2>8. ExactlyOneFate'
    BY <1>1, <1>5, <2>7, MovingKeepsApart DEF ExactlyOneFate, Apart
  <2>9. OneRequest' /\ Ends' /\ Owing' /\ SilentLossOnlyAfterShutdown'
    BY <1>1, <1>2, <2>1, StreamKeepsEnds
  <2> QED BY <2>4, <2>5, <2>8, <2>9 DEF IInv
<1>10. CASE ~(size[e] > MaxEventBytes) /\ full
  <2>1. /\ batch' = Append(BatchAfter, e) /\ batch_bytes' = BytesAfter + size[e] + EventOverhead
        /\ EnqueueBatch /\ tx' = TxAfter /\ oversized' = oversized
    BY <1>8, <1>10
  <2>2. /\ channel' \in Seq(Commands) /\ Unmixed(channel')
        /\ Len(channel') + (IF relay = "granted" THEN 1 ELSE 0) <= ChannelCapacity
        /\ channel' = channel \/ (tx /\ ~closed /\ channel' = Append(channel, batch))
        /\ EventsIn(channel) \subseteq EventsIn(channel')
        /\ BatchAfter \in Seq(Events) /\ IsInjective(BatchAfter) /\ BytesAfter \in Nat
        /\ dropped' \subseteq Events /\ lost' \subseteq Events
        /\ lost' = lost \/ (tx /\ closed)
        /\ Apart(Between) /\ UNION Range(Between) = UNION Range(Places)
    BY <1>5, <2>1, EnqueueMoves DEF IInv
  <2>3. DOMAIN Between = 1..10 /\ Between[1] = Range(lines) /\ Between[2] = Range(BatchAfter)
    BY DEF Between
  <2>4. e \notin Range(BatchAfter)
    BY <2>2, <2>3, <1>3 DEF Apart
  <2>5. /\ batch' \in Seq(Events) /\ Range(batch') = Range(BatchAfter) \cup {e}
        /\ IsInjective(batch') /\ batch_bytes' \in Nat
    BY <1>3, <1>4, <1>6, <2>1, <2>2, <2>4, AppendEvent
  <2>6. tx' \in BOOLEAN
    BY <2>1, <1>4 DEF TxAfter
  <2>7. TypeOK'
    BY <1>1, <1>3, <1>4, <2>1, <2>2, <2>5, <2>6, StreamKeepsTypes DEF IInv, TypeOK
  <2>8. Unrepeated'
    BY <1>1, <1>3, <1>4, <2>2, <2>5 DEF Unrepeated, Unmixed
  <2>9. /\ Places'[1] = Between[1] \ {e} /\ Places'[2] = Between[2] \cup {e} /\ {e} \subseteq Between[1]
        /\ \A k \in 1..10 : k # 1 /\ k # 2 => Places'[k] = Between[k]
    BY <1>1, <1>3, <2>1, <2>5 DEF Places, Between
  <2>10. Moves(Between, Places', 1, 2, {e})
    BY <1>5, <2>3, <2>9 DEF Moves
  <2>11. ExactlyOneFate'
    BY <1>1, <1>5, <2>2, <2>10, MovingKeepsApart DEF ExactlyOneFate, Apart
  <2>12. OneRequest' /\ Ends' /\ Owing' /\ SilentLossOnlyAfterShutdown'
    BY <1>1, <1>2, <2>1, <2>2, StreamKeepsEnds
  <2> QED BY <2>7, <2>8, <2>11, <2>12 DEF IInv
<1> QED BY <1>7, <1>9, <1>10

(* flush, and Drop: the batch that is left is enqueued. *)
LEMMA LastBatchKeeps ==
  ASSUME IInv, Flush \/ DropStream
  PROVE  IInv'
<1>1. /\ stream = "live" /\ lines = <<>>
      /\ UNCHANGED <<lines, closed, worker, in_flight, relay, handle, response, owed, submitted,
                     failed, oversized, refused, size, made>>
      /\ \/ EnqueueBatch /\ batch' = BatchAfter /\ batch_bytes' = BytesAfter
         \/ batch = <<>> /\ UNCHANGED <<channel, dropped, lost, batch, batch_bytes>>
      /\ \/ stream' = "live" /\ tx' = TxAfter
         \/ stream' = "dropped" /\ tx' = FALSE /\ lines' = <<>>
  BY DEF Flush, DropStream, DropEnqueues, tasks, closing, events
<1>2. /\ channel \in Seq(Commands) /\ Unmixed(channel) /\ oversized \subseteq Events
      /\ dropped \subseteq Events /\ lost \subseteq Events /\ tx \in BOOLEAN /\ closed \in BOOLEAN
      /\ refused \subseteq Events /\ batch \in Seq(Events) /\ batch_bytes \in Nat
      /\ Len(channel) + (IF relay = "granted" THEN 1 ELSE 0) <= ChannelCapacity
      /\ IsInjective(batch) /\ IsInjective(in_flight) /\ IsInjective(submitted)
      /\ IsInjective(lines) /\ lines \in Seq(Events)
      /\ size \in [Events -> Sizes \cup {0}] /\ made \in 0..MaxEvents
  BY DEF IInv, TypeOK, Commands, Taken, Unrepeated, Unmixed
<1>3. Apart(Places) /\ UNION Range(Places) = 1..made
      /\ \A i, j \in DOMAIN submitted : i # j => submitted[i] # submitted[j]
  BY FatesInParts DEF IInv, Accounted
<1>4. /\ channel' \in Seq(Commands) /\ Unmixed(channel')
      /\ Len(channel') + (IF relay = "granted" THEN 1 ELSE 0) <= ChannelCapacity
      /\ channel' = channel \/ (tx /\ ~closed /\ channel' = Append(channel, batch))
      /\ EventsIn(channel) \subseteq EventsIn(channel')
      /\ batch' \in Seq(Events) /\ IsInjective(batch') /\ batch_bytes' \in Nat
      /\ dropped' \subseteq Events /\ lost' \subseteq Events
      /\ lost' = lost \/ (tx /\ closed)
      /\ Apart(Places') /\ UNION Range(Places') = UNION Range(Places)
      /\ batch' # <<>> => ~tx
  <2>1. CASE EnqueueBatch /\ batch' = BatchAfter /\ batch_bytes' = BytesAfter
    <3>1. /\ channel' \in Seq(Commands) /\ Unmixed(channel')
          /\ Len(channel') + (IF relay = "granted" THEN 1 ELSE 0) <= ChannelCapacity
          /\ channel' = channel \/ (tx /\ ~closed /\ channel' = Append(channel, batch))
          /\ EventsIn(channel) \subseteq EventsIn(channel')
          /\ BatchAfter \in Seq(Events) /\ IsInjective(BatchAfter) /\ BytesAfter \in Nat
          /\ dropped' \subseteq Events /\ lost' \subseteq Events
          /\ lost' = lost \/ (tx /\ closed)
          /\ Apart(Between) /\ UNION Range(Between) = UNION Range(Places)
      BY <1>3, <2>1, EnqueueMoves DEF IInv
    <3>2. Places' = Between
      BY <1>1, <2>1 DEF Places, Between
    <3>3. batch' # <<>> => ~tx
      BY <2>1 DEF BatchAfter
    <3> QED BY <2>1, <3>1, <3>2, <3>3
  <2>2. CASE batch = <<>> /\ UNCHANGED <<channel, dropped, lost, batch, batch_bytes>>
    <3>1. Places' = Places
      BY <1>1, <2>2 DEF Places
    <3> QED BY <1>2, <1>3, <2>2, <3>1
  <2> QED BY <1>1, <2>1, <2>2
<1>5. stream' \in {"live", "dropped"} /\ tx' \in BOOLEAN
  BY <1>1, <1>2 DEF TxAfter
<1>6. TypeOK'
  BY <1>1, <1>2, <1>4, <1>5, StreamKeepsTypes DEF IInv, TypeOK
<1>7. Unrepeated'
  BY <1>1, <1>2, <1>4 DEF Unrepeated, Unmixed
<1>8. ExactlyOneFate'
  BY <1>1, <1>3, <1>4 DEF ExactlyOneFate, Apart
<1>9. OneRequest' /\ Ends' /\ Owing' /\ SilentLossOnlyAfterShutdown'
  BY <1>1, <1>4, StreamKeepsEnds
<1> QED BY <1>6, <1>7, <1>8, <1>9 DEF IInv

-----------------------------------------------------------------------------
(* The tasks and the handle. *)

(* Steps that leave the events where they are. *)
LEMMA StillEventsKeep ==
  ASSUME IInv,
         UNCHANGED <<stream, tx, batch, batch_bytes, lines, channel, in_flight, submitted, failed,
                     dropped, oversized, refused, lost, size, made>>
  PROVE  /\ Unrepeated' /\ ExactlyOneFate'
         /\ EventsIn(channel)' = EventsIn(channel)
<1>1. Unrepeated'
  BY DEF IInv, Unrepeated
<1>2. Places' = Places
  BY DEF Places
<1>3. ExactlyOneFate'
  BY <1>2 DEF IInv, ExactlyOneFate
<1> QED BY <1>1, <1>3

LEMMA CreateKeeps ==
  ASSUME IInv, Create
  PROVE  IInv'
<1>1. /\ worker = "create" /\ worker' = "recv"
      /\ UNCHANGED <<stream, tx, batch, batch_bytes, lines, channel, in_flight, submitted, failed,
                     dropped, oversized, refused, lost, size, made,
                     closed, relay, handle, response, owed>>
  BY DEF Create, gathering, closing, fates, events
<1>2. TypeOK'
  BY <1>1 DEF IInv, TypeOK, Taken
<1>3. Unrepeated' /\ ExactlyOneFate'
  BY <1>1, StillEventsKeep
<1>4. OneRequest' /\ Ends'
  BY <1>1 DEF IInv, OneRequest, Ends, Asked
<1>5. Owing' /\ SilentLossOnlyAfterShutdown'
  BY <1>1 DEF IInv, Owing, Asked, SilentLossOnlyAfterShutdown
<1> QED BY <1>2, <1>3, <1>4, <1>5 DEF IInv

(* The last sender is gone, which it is not while the stream lives. *)
LEMMA ReceiveNoneKeeps ==
  ASSUME IInv, ReceiveNone
  PROVE  IInv'
<1>1. /\ worker = "recv" /\ worker' = "done" /\ closed' = TRUE /\ channel = <<>>
      /\ ~tx /\ relay \in {"waiting", "done"}
      /\ UNCHANGED <<stream, tx, batch, batch_bytes, lines, channel, in_flight, submitted, failed,
                     dropped, oversized, refused, lost, size, made,
                     relay, handle, response, owed>>
  BY DEF ReceiveNone, NoSenders, gathering, closing, fates, events, IInv, TypeOK
<1>2. TypeOK'
  BY <1>1 DEF IInv, TypeOK, Taken
<1>3. Unrepeated' /\ ExactlyOneFate'
  BY <1>1, StillEventsKeep
<1>4. OneRequest'
  BY <1>1 DEF IInv, OneRequest, Asked
<1>5. Ends'
  <2>1. stream = "dropped"
    BY <1>1 DEF IInv, Ends, TypeOK
  <2> QED BY <1>1, <2>1 DEF IInv, Ends, Asked
<1>6. Owing' /\ SilentLossOnlyAfterShutdown'
  BY <1>1 DEF IInv, Owing, Asked, SilentLossOnlyAfterShutdown
<1> QED BY <1>2, <1>3, <1>4, <1>5, <1>6 DEF IInv

LEMMA AnswerKeeps ==
  ASSUME IInv, Answer
  PROVE  IInv'
<1>1. /\ worker = "answer" /\ worker' = "done" /\ response' = "sent"
      /\ UNCHANGED <<stream, tx, batch, batch_bytes, lines, channel, in_flight, submitted, failed,
                     dropped, oversized, refused, lost, size, made,
                     closed, relay, handle, owed>>
  BY DEF Answer, gathering, fates, events
<1>2. TypeOK'
  BY <1>1 DEF IInv, TypeOK, Taken
<1>3. Unrepeated' /\ ExactlyOneFate'
  BY <1>1, StillEventsKeep
<1>4. relay = "done" /\ channel = <<>> /\ closed
  BY <1>1 DEF IInv, OneRequest, Ends
<1>5. OneRequest' /\ Ends'
  BY <1>1, <1>4 DEF IInv, OneRequest, Ends, Asked
<1>6. Owing' /\ SilentLossOnlyAfterShutdown'
  BY <1>1 DEF IInv, Owing, Asked, SilentLossOnlyAfterShutdown
<1> QED BY <1>2, <1>3, <1>5, <1>6 DEF IInv

(* shutdown() owes what is enqueued and not yet put. *)
LEMMA HandleKeeps ==
  ASSUME IInv, Handle
  PROVE  IInv'
<1>1. /\ UNCHANGED <<stream, tx, batch, batch_bytes, lines, channel, in_flight, submitted, failed,
                     dropped, oversized, refused, lost, size, made,
                     closed, worker, relay>>
      /\ \/ handle = "held" /\ relay = "waiting" /\ handle' = "awaiting" /\ response' = "pending"
            /\ owed' = EventsIn(channel) \cup Range(in_flight)
         \/ handle = "held" /\ handle' = "returned" /\ UNCHANGED <<response, owed>>
         \/ handle = "awaiting" /\ response \in {"sent", "dropped"} /\ handle' = "returned"
            /\ UNCHANGED <<response, owed>>
         \/ handle = "held" /\ handle' = "dropped" /\ UNCHANGED <<response, owed>>
  BY DEF Handle, ShutdownCall, ShutdownReturn, DropHandle, gathering, tasks, fates, events
<1>2. Asked => Asked'
  BY <1>1 DEF Asked
<1>3. Range(in_flight) \subseteq Events /\ EventsIn(channel) \subseteq Events
  BY RangeOfSeq, EventsInType DEF IInv, TypeOK, Commands
<1>4. TypeOK'
  <2>1. owed' \subseteq Events /\ handle' \in {"held", "awaiting", "returned", "dropped"}
        /\ response' \in {"none", "pending", "sent", "dropped"}
    BY <1>1, <1>3 DEF IInv, TypeOK
  <2> QED BY <1>1, <2>1 DEF IInv, TypeOK, Taken
<1>5. Unrepeated' /\ ExactlyOneFate' /\ EventsIn(channel)' = EventsIn(channel)
  BY <1>1, StillEventsKeep
<1>6. OneRequest' /\ Ends'
  BY <1>1, <1>2 DEF IInv, OneRequest, Ends
<1>7. Owing'
  BY <1>1, <1>5 DEF IInv, Owing, Asked
<1>8. SilentLossOnlyAfterShutdown'
  BY <1>1, <1>2 DEF IInv, SilentLossOnlyAfterShutdown, Asked
<1> QED BY <1>4, <1>5, <1>6, <1>7, <1>8 DEF IInv

LEMMA RelayWakeKeeps ==
  ASSUME IInv, RelayWake
  PROVE  IInv'
<1>1. /\ UNCHANGED <<stream, tx, batch, batch_bytes, lines, channel, in_flight, submitted, failed,
                     dropped, oversized, refused, lost, size, made,
                     closed, worker, handle, owed>>
      /\ relay = "waiting"
      /\ \/ relay' = "done" /\ response' = response
         \/ handle = "awaiting" /\ tx /\ relay' = "upgraded" /\ response' = response
         \/ handle = "awaiting" /\ ~tx /\ relay' = "done" /\ response' = "sent"
  BY DEF RelayWake, Upgrades, gathering, fates, events
<1>2. TypeOK'
  <2>1. relay' \in {"waiting", "upgraded", "queued", "granted", "done"}
        /\ response' \in {"none", "pending", "sent", "dropped"}
    BY <1>1 DEF IInv, TypeOK
  <2>2. Taken' = Taken
    BY <1>1 DEF Taken
  <2> QED BY <1>1, <2>1, <2>2 DEF IInv, TypeOK
<1>3. Unrepeated' /\ ExactlyOneFate' /\ EventsIn(channel)' = EventsIn(channel)
  BY <1>1, StillEventsKeep
<1>4. OneRequest'
  BY <1>1 DEF IInv, OneRequest, Asked
<1>5. Ends'
  BY <1>1 DEF IInv, Ends, Asked
<1>6. Owing'
  <2>1. ~tx => stream = "dropped" \/ worker = "stopped"
    BY <1>1 DEF IInv, Ends, TypeOK
  <2> QED BY <1>1, <1>3, <2>1 DEF IInv, Owing, Asked
<1>7. SilentLossOnlyAfterShutdown'
  BY <1>1 DEF IInv, SilentLossOnlyAfterShutdown
<1> QED BY <1>2, <1>3, <1>4, <1>5, <1>6, <1>7 DEF IInv

(* The request takes the last slot the relay waited for. *)
LEMMA RelaySendKeeps ==
  ASSUME IInv, RelaySend
  PROVE  IInv'
<1>1. /\ UNCHANGED <<stream, tx, batch, batch_bytes, lines, in_flight, submitted, failed,
                     dropped, oversized, refused, lost, size, made,
                     closed, worker, handle, response, owed>>
      /\ relay \in {"upgraded", "granted"}
  BY DEF RelaySend, gathering, closing, fates, events
<1>2. /\ channel \in Seq(Commands) /\ Unmixed(channel) /\ Asked /\ ~closed
      /\ worker \in {"create", "recv", "put"}
      /\ \A i \in DOMAIN channel : channel[i] # Shutdown
  <2>1. worker \notin {"drain", "drain_put", "answer", "done", "stopped"} /\ Asked
    BY <1>1 DEF IInv, OneRequest, Ends
  <2> QED BY <1>1, <2>1 DEF IInv, TypeOK, Commands, Unrepeated, Unmixed, OneRequest, Ends
<1>3. CASE relay = "upgraded" /\ relay' = "queued" /\ UNCHANGED channel
  <2>1. TypeOK'
    BY <1>1, <1>3 DEF IInv, TypeOK, Taken
  <2>2. Unrepeated' /\ ExactlyOneFate' /\ EventsIn(channel)' = EventsIn(channel)
    BY <1>1, <1>3, StillEventsKeep
  <2>3. OneRequest' /\ Ends'
    BY <1>1, <1>2, <1>3 DEF IInv, OneRequest, Ends, Asked
  <2>4. Owing' /\ SilentLossOnlyAfterShutdown'
    BY <1>1, <2>2, <1>3 DEF IInv, Owing, Asked, SilentLossOnlyAfterShutdown
  <2> QED BY <2>1, <2>2, <2>3, <2>4 DEF IInv
<1>4. CASE /\ relay = "granted" \/ (relay = "upgraded" /\ Taken < ChannelCapacity)
           /\ channel' = Append(channel, Shutdown) /\ relay' = "done"
  <2>1. EventsIn(channel') = EventsIn(channel) /\ Unmixed(channel')
    BY <1>2, <1>4, OfferShutdown
  <2>2. /\ channel' \in Seq(Commands) /\ Len(channel') = Len(channel) + 1
        /\ \A i \in DOMAIN channel : i \in DOMAIN channel' /\ channel'[i] = channel[i]
        /\ \A i \in DOMAIN channel' : i \in DOMAIN channel \/ i = Len(channel) + 1
    BY <1>2, <1>4, OfferCommand DEF Commands
  <2>3. TypeOK'
    <3>1. Len(channel) \in Nat /\ Taken <= ChannelCapacity
          /\ Taken = Len(channel) + (IF relay = "granted" THEN 1 ELSE 0)
      BY DEF IInv, TypeOK, Taken
    <3>2. Taken' <= ChannelCapacity
      BY <3>1, <2>2, <1>4 DEF Taken
    <3> QED BY <1>1, <1>4, <2>2, <3>2 DEF IInv, TypeOK, Commands
  <2>4. Unrepeated'
    BY <1>1, <2>1 DEF IInv, Unrepeated, Unmixed
  <2>5. Places' = Places
    BY <1>1, <2>1 DEF Places
  <2>6. ExactlyOneFate'
    BY <1>1, <2>5 DEF IInv, ExactlyOneFate
  <2>7. OneRequest'
    BY <1>1, <1>2, <1>4, <2>2 DEF OneRequest, Asked
  <2>8. Ends'
    BY <1>1, <1>2, <1>4 DEF IInv, Ends, Asked
  <2>9. Owing' /\ SilentLossOnlyAfterShutdown'
    BY <1>1, <2>1 DEF IInv, Owing, Asked, SilentLossOnlyAfterShutdown
  <2> QED BY <2>3, <2>4, <2>6, <2>7, <2>8, <2>9 DEF IInv
<1> QED BY <1>3, <1>4 DEF RelaySend

(* The command at the head of the channel is taken: the slot it frees may go   *)
(* to the relay, and a batch is put next.                                     *)
LEMMA TakingKeeps ==
  ASSUME IInv, ReceiveFrom, in_flight = <<>>,
         Head(channel) = Shutdown => in_flight' = in_flight,
         Head(channel) # Shutdown => in_flight' = Head(channel),
         UNCHANGED <<stream, tx, batch, batch_bytes, lines, submitted, failed,
                     dropped, oversized, refused, lost, size, made, handle, response, owed>>,
         closed' \in BOOLEAN,
         worker' \in {"put", "drain", "drain_put"}
  PROVE  /\ TypeOK' /\ Unrepeated' /\ ExactlyOneFate' /\ Asked' = Asked
         /\ EventsIn(channel') \cup Range(in_flight') = EventsIn(channel) \cup Range(in_flight)
         /\ channel # <<>> /\ channel' = Tail(channel)
         /\ relay' = IF relay = "queued" THEN "granted" ELSE relay
         /\ \A i \in DOMAIN channel' : channel'[i] = Shutdown =>
              i \in Nat /\ i + 1 \in DOMAIN channel /\ i + 1 # 1 /\ channel[i + 1] = Shutdown
         /\ 1 \in DOMAIN channel /\ channel[1] = Head(channel)
<1>1. /\ channel # <<>> /\ channel' = Tail(channel)
      /\ relay' = IF relay = "queued" THEN "granted" ELSE relay
  BY DEF ReceiveFrom
<1>2. channel \in Seq(Commands) /\ Unmixed(channel) /\ Len(channel) \in Nat
      /\ Range(in_flight) = {}
  BY NoEvents DEF IInv, TypeOK, Commands, Unrepeated, Unmixed
<1>3. /\ channel' \in Seq(Commands) /\ Len(channel') = Len(channel) - 1
      /\ 1 \in DOMAIN channel /\ channel[1] = Head(channel)
      /\ \A i \in DOMAIN channel' : i \in Nat /\ i + 1 \in DOMAIN channel /\ i + 1 # 1
                                    /\ channel'[i] = channel[i + 1]
  BY <1>1, <1>2, TakeCommand
<1>4. /\ Unmixed(channel')
      /\ Head(channel) = Shutdown => EventsIn(channel') = EventsIn(channel)
      /\ Head(channel) # Shutdown =>
           /\ Head(channel) \in Seq(Events) /\ IsInjective(Head(channel))
           /\ Range(Head(channel)) \subseteq EventsIn(channel)
           /\ EventsIn(channel') = EventsIn(channel) \ Range(Head(channel))
  BY <1>1, <1>2, TakeBatch
<1>5. in_flight' \in Seq(Events) /\ IsInjective(in_flight')
  BY <1>4, NoEvents
<1>6. TypeOK'
  <2>1. Taken <= ChannelCapacity /\ relay \in {"waiting", "upgraded", "queued", "granted", "done"}
    BY DEF IInv, TypeOK
  <2>2. Taken' <= ChannelCapacity
    BY <1>1, <1>2, <1>3, <2>1 DEF Taken
  <2>3. relay' \in {"waiting", "upgraded", "queued", "granted", "done"}
    BY <1>1, <2>1
  <2> QED BY <1>3, <1>5, <2>2, <2>3 DEF IInv, TypeOK, Commands
<1>7. Unrepeated'
  BY <1>4, <1>5 DEF IInv, Unrepeated, Unmixed
<1>8. ExactlyOneFate'
  <2>1. DOMAIN Places = 1..10 /\ DOMAIN Places' = 1..10
    BY DEF Places
  <2>2. Apart(Places) /\ UNION Range(Places) = 1..made
    BY FatesInParts DEF IInv, Accounted
  <2>3. CASE Head(channel) = Shutdown
    <3>1. Places' = Places
      BY <1>4, <2>3 DEF Places
    <3> QED BY <3>1 DEF IInv, ExactlyOneFate
  <2>4. CASE Head(channel) # Shutdown
    <3>1. /\ Places[3] = EventsIn(channel) /\ Places[4] = {}
          /\ Places'[3] = EventsIn(channel') /\ Places'[4] = Range(Head(channel))
          /\ \A k \in 1..10 : k # 3 /\ k # 4 => Places'[k] = Places[k]
      BY <1>2, <2>4 DEF Places
    <3>2. Moves(Places, Places', 3, 4, Range(Head(channel)))
      BY <3>1, <1>4, <2>1, <2>4 DEF Moves
    <3>3. Apart(Places') /\ UNION Range(Places') = 1..made
      BY <2>2, <3>2, MovingKeepsApart
    <3> QED BY <3>3 DEF IInv, ExactlyOneFate, Apart
  <2> QED BY <2>3, <2>4
<1>9. EventsIn(channel') \cup Range(in_flight') = EventsIn(channel) \cup Range(in_flight)
  BY <1>2, <1>4
<1>10. Asked' = Asked
  BY DEF Asked
<1> QED BY <1>1, <1>3, <1>6, <1>7, <1>8, <1>9, <1>10

LEMMA ReceiveKeeps ==
  ASSUME IInv, Receive
  PROVE  IInv'
<1>1. /\ worker = "recv" /\ ReceiveFrom
      /\ Head(channel) = Shutdown => worker' = "drain" /\ closed' = TRUE /\ UNCHANGED in_flight
      /\ Head(channel) # Shutdown =>
           worker' = "put" /\ in_flight' = Head(channel) /\ UNCHANGED closed
      /\ UNCHANGED <<stream, tx, batch, batch_bytes, lines, submitted, failed,
                     dropped, oversized, refused, lost, size, made, handle, response, owed>>
  BY DEF Receive, OnShutdown, Closes, gathering, closing, fates, events
<1>2. in_flight = <<>> /\ closed = FALSE
  BY <1>1 DEF IInv, Ends, TypeOK
<1>3. closed' \in BOOLEAN /\ worker' \in {"put", "drain", "drain_put"}
  BY <1>1, <1>2
<1>4. /\ TypeOK' /\ Unrepeated' /\ ExactlyOneFate' /\ Asked' = Asked
      /\ EventsIn(channel') \cup Range(in_flight') = EventsIn(channel) \cup Range(in_flight)
      /\ relay' = IF relay = "queued" THEN "granted" ELSE relay
      /\ \A i \in DOMAIN channel' : channel'[i] = Shutdown =>
           i \in Nat /\ i + 1 \in DOMAIN channel /\ i + 1 # 1 /\ channel[i + 1] = Shutdown
      /\ 1 \in DOMAIN channel /\ channel[1] = Head(channel)
  BY <1>1, <1>2, <1>3, TakingKeeps
<1>5. CASE Head(channel) = Shutdown
  <2>1. \A i \in DOMAIN channel' : channel'[i] # Shutdown
    BY <1>4, <1>5 DEF IInv, OneRequest
  <2>2. relay = "done" /\ relay' = "done" /\ Asked
    BY <1>4, <1>5 DEF IInv, OneRequest
  <2>3. OneRequest' /\ Ends'
    BY <1>1, <1>2, <1>4, <1>5, <2>1, <2>2 DEF IInv, OneRequest, Ends
  <2>4. Owing'
    BY <1>1, <1>4, <1>5 DEF IInv, Owing
  <2>5. SilentLossOnlyAfterShutdown'
    BY <1>1, <1>5, <2>2 DEF IInv, SilentLossOnlyAfterShutdown
  <2> QED BY <1>4, <2>3, <2>4, <2>5 DEF IInv
<1>6. CASE Head(channel) # Shutdown
  <2>1. OneRequest'
    <3>1. \A i, j \in DOMAIN channel' : channel'[i] = Shutdown /\ channel'[j] = Shutdown => i = j
      <4> SUFFICES ASSUME NEW i \in DOMAIN channel', NEW j \in DOMAIN channel',
                          channel'[i] = Shutdown, channel'[j] = Shutdown
                   PROVE  i = j
        OBVIOUS
      <4>1. i \in Nat /\ j \in Nat /\ i + 1 = j + 1
        BY <1>4 DEF IInv, OneRequest
      <4> QED BY <4>1
    <3>2. \A i \in DOMAIN channel' : channel'[i] = Shutdown => Asked /\ relay = "done"
      BY <1>4 DEF IInv, OneRequest
    <3>3. relay' \in {"upgraded", "queued", "granted"} => Asked
      BY <1>4 DEF IInv, OneRequest
    <3> QED BY <1>1, <1>4, <1>6, <3>1, <3>2, <3>3 DEF OneRequest
  <2>2. Ends'
    BY <1>1, <1>2, <1>4, <1>6 DEF IInv, Ends
  <2>3. Owing'
    BY <1>1, <1>4, <1>6 DEF IInv, Owing
  <2>4. SilentLossOnlyAfterShutdown'
    BY <1>1, <1>6 DEF IInv, SilentLossOnlyAfterShutdown
  <2> QED BY <1>4, <2>1, <2>2, <2>3, <2>4 DEF IInv
<1> QED BY <1>5, <1>6

(* The drain takes batches until the closed channel is empty. *)
LEMMA DrainKeeps ==
  ASSUME IInv, Drain
  PROVE  IInv'
<1>1. /\ worker = "drain" /\ closed /\ in_flight = <<>> /\ relay = "done"
      /\ \A i \in DOMAIN channel : channel[i] # Shutdown
      /\ UNCHANGED <<stream, tx, batch, batch_bytes, lines, submitted, failed,
                     dropped, oversized, refused, lost, size, made, handle, response, owed, closed>>
  BY DEF Drain, gathering, closing, fates, events, IInv, Ends, OneRequest
<1>2. CASE ReceiveFrom /\ worker' = "drain_put" /\ in_flight' = Head(channel)
  <2>1. Head(channel) # Shutdown /\ closed' \in BOOLEAN
    <3>1. channel \in Seq(Commands) /\ channel # <<>>
      BY <1>2 DEF IInv, TypeOK, Commands, ReceiveFrom
    <3> QED BY <1>1, <3>1, TakeCommand DEF IInv, TypeOK
  <2>2. /\ TypeOK' /\ Unrepeated' /\ ExactlyOneFate' /\ Asked' = Asked
        /\ EventsIn(channel') \cup Range(in_flight') = EventsIn(channel) \cup Range(in_flight)
        /\ relay' = IF relay = "queued" THEN "granted" ELSE relay
        /\ \A i \in DOMAIN channel' : channel'[i] = Shutdown =>
             i \in Nat /\ i + 1 \in DOMAIN channel /\ i + 1 # 1 /\ channel[i + 1] = Shutdown
    BY <1>1, <1>2, <2>1, TakingKeeps
  <2>3. OneRequest' /\ Ends'
    BY <1>1, <1>2, <2>2 DEF IInv, OneRequest, Ends
  <2>4. Owing' /\ SilentLossOnlyAfterShutdown'
    BY <1>1, <1>2, <2>2 DEF IInv, Owing, SilentLossOnlyAfterShutdown
  <2> QED BY <2>2, <2>3, <2>4 DEF IInv
<1>3. CASE channel = <<>> /\ worker' = "answer" /\ UNCHANGED <<channel, in_flight, relay>>
  <2>1. TypeOK'
    BY <1>1, <1>3 DEF IInv, TypeOK, Taken
  <2>2. Unrepeated' /\ ExactlyOneFate'
    BY <1>1, <1>3, StillEventsKeep
  <2>3. OneRequest' /\ Ends'
    BY <1>1, <1>3 DEF IInv, OneRequest, Ends, Asked
  <2>4. Owing' /\ SilentLossOnlyAfterShutdown'
    BY <1>1, <1>3 DEF IInv, Owing, SilentLossOnlyAfterShutdown, Asked
  <2> QED BY <2>1, <2>2, <2>3, <2>4 DEF IInv
<1> QED BY <1>2, <1>3 DEF Drain

(* The batch in flight is put, or fails, as a whole. *)
LEMMA SubmitBatchKeeps ==
  ASSUME IInv, NEW ok \in BOOLEAN, SubmitBatch(ok)
  PROVE  IInv'
<1>1. /\ worker \in {"put", "drain_put"} /\ in_flight' = <<>>
      /\ worker' = IF worker = "put" THEN "recv" ELSE "drain"
      /\ IF ok THEN submitted' = submitted \o in_flight /\ UNCHANGED failed
         ELSE failed' = failed \cup Range(in_flight) /\ UNCHANGED submitted
      /\ UNCHANGED <<stream, tx, batch, batch_bytes, lines, channel, closed, relay, handle, response,
                     owed, dropped, oversized, refused, lost, size, made>>
  BY DEF SubmitBatch, gathering, closing, events
<1>2. /\ in_flight \in Seq(Events) /\ IsInjective(in_flight) /\ Range(in_flight) \subseteq Events
      /\ submitted \in Seq(Events) /\ IsInjective(submitted) /\ failed \subseteq Events
      /\ Range(in_flight') = {} /\ in_flight' \in Seq(Events) /\ IsInjective(in_flight')
  BY <1>1, NoEvents, RangeOfSeq DEF IInv, TypeOK, Unrepeated
<1>3. DOMAIN Places = 1..10 /\ DOMAIN Places' = 1..10
      /\ Apart(Places) /\ UNION Range(Places) = 1..made
      /\ Places[4] = Range(in_flight) /\ Places[5] = Range(submitted)
  <2>1. DOMAIN Places = 1..10 /\ DOMAIN Places' = 1..10
        /\ Places[4] = Range(in_flight) /\ Places[5] = Range(submitted)
    BY DEF Places
  <2> QED BY <2>1, FatesInParts DEF IInv, Accounted
<1>4. Range(submitted) \cap Range(in_flight) = {}
  BY <1>3 DEF Apart
<1>5. /\ submitted' \in Seq(Events) /\ IsInjective(submitted') /\ failed' \subseteq Events
      /\ ok => Range(submitted') = Range(submitted) \cup Range(in_flight)
  <2>1. /\ submitted \o in_flight \in Seq(Events) /\ IsInjective(submitted \o in_flight)
        /\ Range(submitted \o in_flight) = Range(submitted) \cup Range(in_flight)
    BY <1>2, <1>4, JoinEvents
  <2> QED BY <1>1, <1>2, <2>1
<1>6. Apart(Places') /\ UNION Range(Places') = 1..made
  <2>1. CASE ok
    <3>1. /\ Places'[4] = {} /\ Places'[5] = Places[5] \cup Range(in_flight)
          /\ \A k \in 1..10 : k # 4 /\ k # 5 => Places'[k] = Places[k]
      BY <1>1, <1>2, <1>5, <2>1 DEF Places
    <3>2. Moves(Places, Places', 4, 5, Range(in_flight))
      BY <3>1, <1>3 DEF Moves
    <3> QED BY <3>2, <1>3, MovingKeepsApart
  <2>2. CASE ~ok
    <3>1. /\ Places'[4] = {} /\ Places'[6] = Places[6] \cup Range(in_flight)
          /\ \A k \in 1..10 : k # 4 /\ k # 6 => Places'[k] = Places[k]
      BY <1>1, <1>2, <2>2 DEF Places
    <3>2. Moves(Places, Places', 4, 6, Range(in_flight))
      BY <3>1, <1>3 DEF Moves
    <3> QED BY <3>2, <1>3, MovingKeepsApart
  <2> QED BY <2>1, <2>2
<1>7. ExactlyOneFate'
  BY <1>1, <1>5, <1>6 DEF ExactlyOneFate, Apart, IsInjective
<1>8. TypeOK'
  <2>1. worker' \in {"recv", "drain"}
    BY <1>1
  <2> QED BY <1>1, <1>2, <1>5, <2>1 DEF IInv, TypeOK, Taken
<1>9. Unrepeated'
  BY <1>1, <1>2, <1>5 DEF IInv, Unrepeated
<1>10. OneRequest' /\ Ends'
  BY <1>1 DEF IInv, OneRequest, Ends, Asked
<1>11. Owing'
  <2>1. Range(in_flight) \cup Range(submitted) \cup failed \subseteq Range(submitted') \cup failed'
    BY <1>1, <1>5
  <2> QED BY <1>1, <2>1 DEF IInv, Owing, Asked
<1>12. SilentLossOnlyAfterShutdown'
  BY <1>1 DEF IInv, SilentLossOnlyAfterShutdown
<1> QED BY <1>7, <1>8, <1>9, <1>10, <1>11, <1>12 DEF IInv

(* The runtime stops: what the tasks owned is lost, nothing else. *)
LEMMA RuntimeStopsKeeps ==
  ASSUME IInv, RuntimeStops
  PROVE  IInv'
<1>1. /\ worker' = "stopped" /\ relay' = "done" /\ closed' = TRUE
      /\ lost' = lost \cup EventsIn(channel) \cup Range(in_flight)
      /\ channel' = <<>> /\ in_flight' = <<>>
      /\ response' = IF response = "pending" THEN "dropped" ELSE response
      /\ UNCHANGED <<stream, tx, batch, batch_bytes, lines, handle, owed, submitted, failed,
                     dropped, oversized, refused, size, made>>
  BY DEF RuntimeStops, gathering, events
<1>2. /\ channel \in Seq(Commands) /\ in_flight \in Seq(Events)
      /\ EventsIn(channel) \subseteq Events /\ Range(in_flight) \subseteq Events /\ lost \subseteq Events
  BY RangeOfSeq, EventsInType DEF IInv, TypeOK, Commands
<1>3. /\ channel' \in Seq(Commands) /\ Len(channel') = 0 /\ DOMAIN channel' = {}
      /\ in_flight' \in Seq(Events) /\ IsInjective(in_flight') /\ Range(in_flight') = {}
  BY <1>1, NoEvents
<1>4. EventsIn(channel') = {}
  BY <1>3, EventsInType
<1>5. TypeOK'
  <2>1. Taken' <= ChannelCapacity
    BY <1>1, <1>3 DEF Taken
  <2>2. response' \in {"none", "pending", "sent", "dropped"}
    BY <1>1 DEF IInv, TypeOK
  <2>3. lost' \subseteq Events
    BY <1>1, <1>2
  <2> QED BY <1>1, <1>3, <2>1, <2>2, <2>3 DEF IInv, TypeOK, Commands
<1>6. Unrepeated'
  BY <1>1, <1>3 DEF IInv, Unrepeated
<1>7. ExactlyOneFate'
  <2> DEFINE mid == <<Range(lines), Range(batch), {}, Range(in_flight), Range(submitted), failed,
                      dropped, oversized, refused, lost \cup EventsIn(channel)>>
  <2>1. DOMAIN Places = 1..10 /\ DOMAIN Places' = 1..10 /\ DOMAIN mid = 1..10
    BY DEF Places
  <2>2. Apart(Places) /\ UNION Range(Places) = 1..made
    BY FatesInParts DEF IInv, Accounted
  <2>3. /\ Places[3] = EventsIn(channel) /\ mid[3] = {} /\ mid[10] = Places[10] \cup EventsIn(channel)
        /\ \A k \in 1..10 : k # 3 /\ k # 10 => mid[k] = Places[k]
    BY DEF Places
  <2>4. /\ mid[4] = Range(in_flight) /\ Places'[4] = {} /\ Places'[10] = mid[10] \cup Range(in_flight)
        /\ \A k \in 1..10 : k # 4 /\ k # 10 => Places'[k] = mid[k]
    BY <1>1, <1>3, <1>4 DEF Places
  <2> HIDE DEF mid
  <2>5. Moves(Places, mid, 3, 10, EventsIn(channel))
    BY <2>1, <2>3 DEF Moves
  <2>6. Moves(mid, Places', 4, 10, Range(in_flight))
    BY <2>1, <2>4 DEF Moves
  <2>7. Apart(mid) /\ UNION Range(mid) = 1..made
    BY <2>2, <2>5, MovingKeepsApart
  <2>8. Apart(Places') /\ UNION Range(Places') = 1..made
    BY <2>6, <2>7, MovingKeepsApart
  <2> QED BY <1>1, <2>8 DEF IInv, ExactlyOneFate, Apart
<1>8. OneRequest' /\ Ends'
  BY <1>1, <1>3 DEF IInv, OneRequest, Ends, Asked
<1>9. Owing' /\ SilentLossOnlyAfterShutdown'
  BY <1>1 DEF IInv, Owing, Asked, SilentLossOnlyAfterShutdown
<1> QED BY <1>5, <1>6, <1>7, <1>8, <1>9 DEF IInv

-----------------------------------------------------------------------------
LEMMA InitHolds ==
  ASSUME Init
  PROVE  IInv
<1>1. /\ Range(lines) = {} /\ Range(batch) = {} /\ Range(in_flight) = {} /\ Range(submitted) = {}
      /\ lines \in Seq(Events) /\ batch \in Seq(Events) /\ in_flight \in Seq(Events)
      /\ submitted \in Seq(Events) /\ IsInjective(<<>>) /\ DOMAIN channel = {} /\ DOMAIN submitted = {}
      /\ channel \in Seq(Commands) /\ Len(channel) = 0
  BY NoEvents DEF Init
<1>2. EventsIn(channel) = {}
  BY <1>1, EventsInType
<1>3. TypeOK
  <2>1. size \in [Events -> Sizes \cup {0}] /\ made \in 0..MaxEvents /\ batch_bytes \in Nat
    BY DEF Init
  <2>2. Taken <= ChannelCapacity
    BY <1>1 DEF Init, Taken
  <2> QED BY <1>1, <2>1, <2>2 DEF Init, TypeOK, Commands
<1>4. Unrepeated
  BY <1>1 DEF Init, Unrepeated
<1>5. ExactlyOneFate
  <2>1. DOMAIN Places = 1..10 /\ \A k \in 1..10 : Places[k] = {}
    BY <1>1, <1>2 DEF Init, Places
  <2>2. UNION Range(Places) = {}
    BY <2>1 DEF Range
  <2>3. 1..made = {}
    BY DEF Init
  <2> QED BY <1>1, <2>1, <2>2, <2>3 DEF ExactlyOneFate
<1>6. OneRequest /\ Ends
  BY <1>1 DEF Init, OneRequest, Ends
<1>7. Owing /\ SilentLossOnlyAfterShutdown
  BY DEF Init, Owing, SilentLossOnlyAfterShutdown
<1> QED BY <1>3, <1>4, <1>5, <1>6, <1>7 DEF IInv

LEMMA NextKeeps ==
  ASSUME IInv, [Next]_vars
  PROVE  IInv'
<1>1. CASE Stream
  BY <1>1, NextLineKeeps, LastBatchKeeps, NextEntryKeeps DEF Stream
<1>2. CASE SubmitLoop
  BY <1>2, CreateKeeps, ReceiveKeeps, ReceiveNoneKeeps, DrainKeeps, AnswerKeeps, SubmitBatchKeeps
     DEF SubmitLoop
<1>3. CASE Relay
  BY <1>3, RelayWakeKeeps, RelaySendKeeps DEF Relay
<1>4. CASE Handle
  BY <1>4, HandleKeeps
<1>5. CASE RuntimeStops
  BY <1>5, RuntimeStopsKeeps
<1>6. CASE UNCHANGED vars
  <2>1. UNCHANGED <<stream, tx, batch, batch_bytes, lines, channel, in_flight, submitted, failed,
                    dropped, oversized, refused, lost, size, made,
                    closed, worker, relay, handle, response, owed>>
    BY <1>6 DEF vars, gathering, tasks, closing, fates, events
  <2>2. TypeOK'
    BY <2>1 DEF IInv, TypeOK, Taken
  <2>3. Unrepeated' /\ ExactlyOneFate'
    BY <2>1, StillEventsKeep
  <2>4. OneRequest' /\ Ends'
    BY <2>1 DEF IInv, OneRequest, Ends, Asked
  <2>5. Owing' /\ SilentLossOnlyAfterShutdown'
    BY <2>1 DEF IInv, Owing, Asked, SilentLossOnlyAfterShutdown
  <2> QED BY <2>2, <2>3, <2>4, <2>5 DEF IInv
<1> QED BY <1>1, <1>2, <1>3, <1>4, <1>5, <1>6 DEF Next

LEMMA InvariantHolds == Spec => []IInv
<1>1. Init => IInv
  BY InitHolds
<1>2. IInv /\ [Next]_vars => IInv'
  BY NextKeeps
<1> QED BY <1>1, <1>2, PTL DEF Spec

-----------------------------------------------------------------------------
(* Every event next() made is in one place, whatever the limits: waiting, in   *)
(* the batch, in the channel, in flight, put once, failed, or reported as     *)
(* dropped, oversized or refused, or among those lost to a closed channel.    *)
THEOREM EventsHaveOneFate == Spec => [](TypeOK /\ ExactlyOneFate)
<1>1. IInv => TypeOK /\ ExactlyOneFate
  BY DEF IInv
<1> QED BY <1>1, InvariantHolds, PTL

(* While nobody calls shutdown() and the runtime runs, no event goes missing   *)
(* without a report: not by a full channel, and not by dropping the stream.   *)
THEOREM LossIsReported == Spec => []SilentLossOnlyAfterShutdown
<1>1. IInv => SilentLossOnlyAfterShutdown
  BY DEF IInv
<1> QED BY <1>1, InvariantHolds, PTL

(* shutdown() returns, while the stream and the runtime live, only when every  *)
(* batch enqueued before the call has been put.                               *)
THEOREM ShutdownPutsWhatItOwes == Spec => []ShutdownDrains
<1>1. IInv => ShutdownDrains
  <2> SUFFICES ASSUME IInv, handle = "returned", stream = "live", worker # "stopped"
               PROVE  owed \subseteq Range(submitted) \cup failed
    BY DEF ShutdownDrains
  <2>1. CASE owed = {}
    BY <2>1
  <2>2. CASE owed # {}
    <3>1. response = "sent" /\ worker = "done"
      BY <2>2 DEF IInv, Owing
    <3>2. channel = <<>> /\ in_flight = <<>>
      BY <3>1 DEF IInv, Ends
    <3>3. EventsIn(channel) = {} /\ Range(in_flight) = {}
      <4>1. DOMAIN channel = {} /\ channel \in Seq(Commands)
        BY <3>2
      <4> QED BY <3>2, <4>1, NoEvents, EventsInType
    <3> QED BY <3>3 DEF IInv, Owing
  <2> QED BY <2>1, <2>2
<1> QED BY <1>1, InvariantHolds, PTL

-----------------------------------------------------------------------------
(* The limits of a batch, with the sizes of the events and the batch as        *)
(* parameters.                                                               *)

Weigh(sz, b, max) ==
  {total \in [DOMAIN b -> 0..max] :
     \A i \in DOMAIN b :
       total[i] = (IF i = 1 THEN 0 ELSE total[i - 1]) + sz[b[i]] + EventOverhead}

InLimits(sz, b) ==
  Len(b) <= MaxBatchEvents /\ (Len(b) > 1 => Weigh(sz, b, MaxBatchBytes) # {})

Fills(sz, b, n) ==
  /\ b = <<>> => n = 0
  /\ \E total \in Weigh(sz, b, n) : b # <<>> => total[Len(b)] = n

MayBeSent(b, n) == Len(b) <= MaxBatchEvents /\ (Len(b) > 1 => n <= MaxBatchBytes)

Sent == ({in_flight} \cup Range(channel)) \ {Shutdown}

LEMMA LimitsInParts ==
  /\ Limits <=> /\ Fills(size, batch, batch_bytes) /\ (tx => MayBeSent(batch, batch_bytes))
                /\ \A b \in Sent : InLimits(size, b)
  /\ Limits' <=> /\ Fills(size', batch', batch_bytes') /\ (tx' => MayBeSent(batch', batch_bytes'))
                 /\ \A b \in Sent' : InLimits(size', b)
BY DEF Limits, Fills, MayBeSent, Sent, InLimits, Bounded, RunningTotals, Weigh

LEMMA SameSizes ==
  ASSUME NEW b, NEW n, NEW sz, NEW sz2, \A i \in DOMAIN b : sz[b[i]] = sz2[b[i]]
  PROVE  /\ InLimits(sz, b) => InLimits(sz2, b)
         /\ Fills(sz, b, n) => Fills(sz2, b, n)
<1>1. \A max : Weigh(sz, b, max) = Weigh(sz2, b, max)
  BY DEF Weigh
<1> QED BY <1>1 DEF InLimits, Fills

LEMMA EmptyIsInLimits ==
  ASSUME NEW sz
  PROVE  InLimits(sz, <<>>) /\ Fills(sz, <<>>, 0) /\ MayBeSent(<<>>, 0)
<1>1. DOMAIN <<>> = {} /\ Len(<<>>) = 0
  OBVIOUS
<1>2. [i \in {} |-> 0] \in Weigh(sz, <<>>, 0)
  BY <1>1 DEF Weigh
<1> QED BY <1>1, <1>2 DEF InLimits, Fills, MayBeSent

LEMMA FilledIsInLimits ==
  ASSUME NEW sz, NEW b, NEW n \in Nat, Fills(sz, b, n), MayBeSent(b, n)
  PROVE  InLimits(sz, b)
<1>1. ASSUME Len(b) > 1 PROVE Weigh(sz, b, MaxBatchBytes) # {}
  <2>1. PICK total \in Weigh(sz, b, n) : TRUE
    BY DEF Fills
  <2>2. 0..n \subseteq 0..MaxBatchBytes
    BY <1>1 DEF MayBeSent
  <2>3. total \in [DOMAIN b -> 0..n]
    BY <2>1 DEF Weigh
  <2>4. total \in [DOMAIN b -> 0..MaxBatchBytes]
    BY <2>2, <2>3
  <2>5. total \in Weigh(sz, b, MaxBatchBytes)
    BY <2>1, <2>4 DEF Weigh
  <2> QED BY <2>5
<1> QED BY <1>1 DEF InLimits, MayBeSent

LEMMA FillingAddsUp ==
  ASSUME NEW sz, NEW b \in Seq(Events), NEW n \in Nat, NEW e \in Events, sz[e] \in Nat,
         Fills(sz, b, n)
  PROVE  Fills(sz, Append(b, e), n + sz[e] + EventOverhead)
<1> DEFINE m == n + sz[e] + EventOverhead
           c == Append(b, e)
           k == Len(b) + 1
<1>1. PICK t \in Weigh(sz, b, n) : b # <<>> => t[Len(b)] = n
  BY DEF Fills
<1>2. /\ t \in [1..Len(b) -> 0..n] /\ Len(b) \in Nat /\ m \in Nat /\ n <= m
      /\ \A i \in 1..Len(b) :
           t[i] = (IF i = 1 THEN 0 ELSE t[i - 1]) + sz[b[i]] + EventOverhead
  BY <1>1 DEF Weigh
<1>3. /\ DOMAIN c = 1..k /\ Len(c) = k /\ c # <<>> /\ c[k] = e
      /\ \A i \in 1..Len(b) : c[i] = b[i]
  OBVIOUS
<1>4. b = <<>> => n = 0 /\ Len(b) = 0
  BY DEF Fills
<1>5. b # <<>> => Len(b) > 0
  BY <1>2
<1> DEFINE u == [i \in 1..k |-> IF i = k THEN m ELSE t[i]]
<1>6. u \in [1..k -> 0..m] /\ u[k] = m
  <2>1. \A i \in 1..k : i # k => i \in 1..Len(b)
    BY <1>2
  <2>2. \A i \in 1..Len(b) : t[i] \in 0..m
    BY <1>2
  <2>3. k \in 1..k /\ m \in 0..m
    BY <1>2
  <2> QED BY <2>1, <2>2, <2>3
<1>7. \A i \in 1..k : u[i] = (IF i = 1 THEN 0 ELSE u[i - 1]) + sz[c[i]] + EventOverhead
  <2> TAKE i \in 1..k
  <2>1. CASE i # k
    <3>1. i \in 1..Len(b) /\ u[i] = t[i] /\ c[i] = b[i]
      BY <2>1, <1>2, <1>3
    <3>2. i # 1 => i - 1 \in 1..k /\ i - 1 # k /\ u[i - 1] = t[i - 1]
      BY <3>1, <1>2
    <3> QED BY <3>1, <3>2, <1>2
  <2>2. CASE i = k /\ i = 1
    BY <2>2, <1>2, <1>3, <1>4, <1>5, <1>6
  <2>3. CASE i = k /\ i # 1
    <3>1. Len(b) \in 1..k /\ Len(b) # k /\ i - 1 = Len(b) /\ b # <<>>
      BY <2>3, <1>2, <1>4
    <3>2. u[i - 1] = n
      BY <3>1, <1>1
    <3> QED BY <2>3, <3>2, <1>3, <1>6
  <2> QED BY <2>1, <2>2, <2>3
<1>8. u \in Weigh(sz, c, m)
  BY <1>3, <1>6, <1>7 DEF Weigh
<1> QED BY <1>3, <1>6, <1>8 DEF Fills

(* What is in the channel or in flight came from there, or is the batch. *)
LEMMA SentStaysInLimits ==
  ASSUME IInv, Limits,
         \A e \in 1..made : size'[e] = size[e],
         Sent' \subseteq Sent \cup {<<>>} \cup (IF tx THEN {batch} ELSE {})
  PROVE  \A b \in Sent' : InLimits(size', b)
<1> TAKE b \in Sent'
<1>1. InLimits(size, b)
  <2>1. CASE b \in Sent
    BY <2>1, LimitsInParts
  <2>2. CASE b = <<>>
    BY <2>2, EmptyIsInLimits
  <2>3. CASE tx /\ b = batch
    BY <2>3, LimitsInParts, FilledIsInLimits DEF IInv, TypeOK
  <2> QED BY <2>1, <2>2, <2>3
<1>2. \A i \in DOMAIN b : b[i] \in 1..made
  <2>1. /\ Range(batch) \subseteq 1..made /\ EventsIn(channel) \subseteq 1..made
        /\ Range(in_flight) \subseteq 1..made
    <3>1. \A k \in DOMAIN Places : Places[k] \subseteq 1..made
      BY DEF IInv, ExactlyOneFate, Range
    <3>2. /\ 2 \in DOMAIN Places /\ 3 \in DOMAIN Places /\ 4 \in DOMAIN Places
          /\ Places[2] = Range(batch) /\ Places[3] = EventsIn(channel) /\ Places[4] = Range(in_flight)
      BY DEF Places
    <3> QED BY <3>1, <3>2
  <2>2. CASE b = <<>>
    BY <2>2
  <2>3. CASE b = batch \/ b = in_flight
    BY <2>1, <2>3 DEF Range
  <2>4. CASE b \in Range(channel) \ {Shutdown}
    BY <2>1, <2>4 DEF Range, EventsIn
  <2> QED BY <2>2, <2>3, <2>4 DEF Sent
<1> QED BY <1>1, <1>2, SameSizes

LEMMA StillBatchInLimits ==
  ASSUME IInv, Limits, UNCHANGED <<batch, batch_bytes, tx, size>>,
         Sent' \subseteq Sent \cup {<<>>} \cup (IF tx THEN {batch} ELSE {})
  PROVE  Limits'
<1>1. \A b \in Sent' : InLimits(size', b)
  BY SentStaysInLimits
<1> QED BY <1>1, LimitsInParts

LEMMA EnqueuedIsInLimits ==
  ASSUME IInv, EnqueueBatch, UNCHANGED in_flight
  PROVE  Sent' \subseteq Sent \cup {<<>>} \cup (IF tx THEN {batch} ELSE {})
<1>1. CASE channel' = channel
  BY <1>1 DEF Sent
<1>2. CASE tx /\ channel' = OfferLast
  <2>1. Range(channel') = Range(channel) \cup {batch}
    <3>1. channel \in Seq(Commands) /\ batch \in Commands
      BY DEF IInv, TypeOK, Commands
    <3> QED BY <1>2, <3>1, AppendEvent DEF OfferLast
  <2> QED BY <1>2, <2>1 DEF Sent
<1> QED BY <1>1, <1>2 DEF EnqueueBatch

LEMMA NextLineInLimits ==
  ASSUME IInv, Limits, NextLine
  PROVE  Limits'
<1> DEFINE e    == Head(lines)
           full == batch # <<>> /\ ExceedsLimits(size[e])
<1>1. /\ lines # <<>> /\ UNCHANGED <<in_flight, size>> /\ UNCHANGED size
      /\ size[e] > MaxEventBytes => NotEnqueued /\ UNCHANGED <<batch, batch_bytes>>
      /\ ~(size[e] > MaxEventBytes) =>
           /\ IF full THEN EnqueueBatch /\ tx' = TxAfter ELSE NotEnqueued
           /\ batch' = Append(IF full THEN BatchAfter ELSE batch, e)
           /\ batch_bytes' = (IF full THEN BytesAfter ELSE batch_bytes) + size[e] + EventOverhead
  BY DEF NextLine, tasks, events
<1>2. e \in Events /\ size[e] \in Nat /\ batch \in Seq(Events) /\ batch_bytes \in Nat
  <2>1. e \in Events /\ size \in [Events -> Sizes \cup {0}]
    BY <1>1, TakeEvent DEF IInv, TypeOK
  <2>2. size[e] \in Sizes \cup {0}
    BY <2>1
  <2>3. Sizes \subseteq Nat /\ 0 \in Nat
    OBVIOUS
  <2>4. size[e] \in Nat
    BY <2>2, <2>3, Zenon
  <2> QED BY <2>1, <2>4 DEF IInv, TypeOK
<1> HIDE DEF e
<1>3. CASE size[e] > MaxEventBytes
  <2>1. UNCHANGED <<channel, tx, batch, batch_bytes>>
    BY <1>1, <1>3 DEF NotEnqueued
  <2> QED BY <2>1, <1>1, StillBatchInLimits DEF Sent
<1>4. CASE ~(size[e] > MaxEventBytes) /\ ~full
  <2>1. /\ UNCHANGED <<channel, tx>> /\ batch' = Append(batch, e)
        /\ batch_bytes' = batch_bytes + size[e] + EventOverhead
    BY <1>1, <1>4 DEF NotEnqueued
  <2>2. Fills(size', batch', batch_bytes')
    BY <2>1, <1>1, <1>2, FillingAddsUp, LimitsInParts
  <2>3. \A b \in Sent' : InLimits(size', b)
    BY <2>1, <1>1, SentStaysInLimits DEF Sent
  <2>4. MayBeSent(batch', batch_bytes')
    <3>1. Len(batch') = Len(batch) + 1 /\ Len(batch) \in Nat /\ (batch = <<>> => Len(batch) = 0)
      BY <2>1, <1>2
    <3>2. batch = <<>> \/ ~ExceedsLimits(size[e])
      BY <1>4
    <3> QED BY <2>1, <3>1, <3>2, <1>2 DEF ExceedsLimits, MayBeSent
  <2> QED BY <2>2, <2>3, <2>4, LimitsInParts
<1>5. CASE ~(size[e] > MaxEventBytes) /\ full
  <2>1. /\ EnqueueBatch /\ tx' = TxAfter /\ batch' = Append(BatchAfter, e)
        /\ batch_bytes' = BytesAfter + size[e] + EventOverhead
    BY <1>1, <1>5
  <2>2. Fills(size, BatchAfter, BytesAfter) /\ BatchAfter \in Seq(Events) /\ BytesAfter \in Nat
    BY <1>2, EmptyIsInLimits, LimitsInParts DEF BatchAfter, BytesAfter
  <2>3. Fills(size', batch', batch_bytes')
    BY <2>1, <2>2, <1>1, <1>2, FillingAddsUp
  <2>4. \A b \in Sent' : InLimits(size', b)
    BY <2>1, <1>1, EnqueuedIsInLimits, SentStaysInLimits
  <2>5. tx' => MayBeSent(batch', batch_bytes')
    <3>1. ASSUME tx' PROVE Len(batch') = 1
      <4>1. tx
        BY <3>1, <2>1, Zenon DEF TxAfter
      <4>2. batch' = Append(<<>>, e)
        BY <4>1, <2>1, Zenon DEF BatchAfter
      <4> QED BY <4>2, <1>2
    <3>2. Len(batch') = 1 => MayBeSent(batch', batch_bytes')
      BY DEF MayBeSent
    <3> QED BY <3>1, <3>2, Zenon
  <2> QED BY <2>3, <2>4, <2>5, LimitsInParts
<1> QED BY <1>3, <1>4, <1>5

LEMMA LastBatchInLimits ==
  ASSUME IInv, Limits, Flush \/ DropStream
  PROVE  Limits'
<1>1. UNCHANGED <<in_flight, size>>
  BY DEF Flush, DropStream, tasks, events
<1>2. CASE EnqueueBatch /\ batch' = BatchAfter /\ batch_bytes' = BytesAfter /\ (tx' => tx)
  <2>1. \A b \in Sent' : InLimits(size', b)
    BY <1>1, <1>2, EnqueuedIsInLimits, SentStaysInLimits
  <2>2. Fills(size', batch', batch_bytes') /\ (tx' => MayBeSent(batch', batch_bytes'))
    BY <1>1, <1>2, EmptyIsInLimits, LimitsInParts DEF BatchAfter, BytesAfter
  <2> QED BY <2>1, <2>2, LimitsInParts
<1>3. CASE UNCHANGED <<channel, batch, batch_bytes>> /\ ~tx'
  <2>1. \A b \in Sent' : InLimits(size', b)
    BY <1>1, <1>3, SentStaysInLimits DEF Sent
  <2> QED BY <1>1, <1>3, <2>1, LimitsInParts
<1> QED BY <1>2, <1>3 DEF Flush, DropStream, TxAfter

(* The events a new entry is formatted into are not in any batch yet. *)
LEMMA NextEntryInLimits ==
  ASSUME IInv, Limits, NEW sizes \in SizeLists, NextEntry(sizes)
  PROVE  Limits'
<1>1. /\ UNCHANGED <<tx, batch, batch_bytes, channel, in_flight>>
      /\ size' = [e \in Events |-> IF e \in Range([i \in 1..Len(sizes) |-> made + i])
                                   THEN sizes[e - made] ELSE size[e]]
  BY DEF NextEntry, tasks
<1>2. \A e \in 1..made : size'[e] = size[e]
  <2> TAKE e \in 1..made
  <2>1. e \in Events /\ made \in Nat
    BY DEF IInv, TypeOK, Events
  <2>2. \A i \in 1..Len(sizes) : made + i # e
    BY <2>1
  <2> QED BY <1>1, <2>1, <2>2 DEF Range
<1>3. \A b \in Sent' : InLimits(size', b)
  BY <1>1, <1>2, SentStaysInLimits DEF Sent
<1>4. \A i \in DOMAIN batch : batch[i] \in 1..made
  <2>1. \A k \in DOMAIN Places : Places[k] \subseteq 1..made
    BY DEF IInv, ExactlyOneFate, Range
  <2>2. 2 \in DOMAIN Places /\ Places[2] = Range(batch)
    BY DEF Places
  <2> QED BY <2>1, <2>2 DEF Range
<1>5. Fills(size', batch, batch_bytes)
  BY <1>2, <1>4, SameSizes, LimitsInParts
<1> QED BY <1>1, <1>3, <1>5, LimitsInParts

LEMMA TasksInLimits ==
  ASSUME IInv, Limits, SubmitLoop \/ Relay \/ Handle \/ RuntimeStops \/ UNCHANGED vars
  PROVE  Limits'
<1>1. UNCHANGED <<batch, batch_bytes, tx, size>>
  BY DEF SubmitLoop, Relay, Handle, RuntimeStops, vars, gathering, events, Create, Receive,
         ReceiveNone, SubmitBatch, Drain, Answer, ShutdownCall, ShutdownReturn, DropHandle,
         RelayWake, RelaySend
<1>2. CASE UNCHANGED channel /\ (UNCHANGED in_flight \/ in_flight' = <<>>)
  BY <1>1, <1>2, StillBatchInLimits DEF Sent
<1>3. CASE channel # <<>> /\ channel' = Tail(channel) /\ (UNCHANGED in_flight \/ in_flight' = Head(channel))
  <2>1. channel \in Seq(Commands)
    BY DEF IInv, TypeOK, Commands
  <2>2. Range(channel) = Range(Tail(channel)) \cup {Head(channel)}
    BY <2>1, <1>3, TakeEvent
  <2> QED BY <1>1, <1>3, <2>2, StillBatchInLimits DEF Sent
<1>4. CASE channel' = Append(channel, Shutdown) /\ UNCHANGED in_flight
  <2>1. channel \in Seq(Commands) /\ Shutdown \in Commands
    BY DEF IInv, TypeOK, Commands
  <2>2. Range(channel') = Range(channel) \cup {Shutdown}
    BY <2>1, <1>4, AppendEvent
  <2> QED BY <1>1, <1>4, <2>2, StillBatchInLimits DEF Sent
<1>5. CASE channel' = <<>> /\ in_flight' = <<>>
  BY <1>1, <1>5, NoEvents, StillBatchInLimits DEF Sent
<1>6. CASE SubmitLoop
  BY <1>6, <1>2, <1>3 DEF SubmitLoop, Create, Receive, ReceiveFrom, ReceiveNone, SubmitBatch, Drain, Answer
<1>7. CASE Relay \/ Handle
  BY <1>7, <1>2, <1>4 DEF Relay, Handle, ShutdownCall, ShutdownReturn, DropHandle, RelayWake, RelaySend, tasks
<1>8. CASE RuntimeStops \/ UNCHANGED vars
  BY <1>8, <1>2, <1>5 DEF RuntimeStops, vars, tasks
<1> QED BY <1>6, <1>7, <1>8

(* No batch in the channel or on its way to CloudWatch, and no batch that may  *)
(* still be sent, is over PutLogEvents' limits, whatever these are: the number *)
(* of events is at most MAX_BATCH_EVENTS, and the bytes with their overhead    *)
(* are at most MAX_BATCH_BYTES unless the batch is a single event.            *)
THEOREM BatchesStayInLimits == Spec => []BatchesAreBounded
<1>1. Init => Limits
  <2> SUFFICES ASSUME Init PROVE Limits
    OBVIOUS
  <2>1. Sent \subseteq {<<>>}
    BY NoEvents DEF Init, Sent
  <2>2. batch = <<>> /\ batch_bytes = 0
    BY DEF Init
  <2> QED BY <2>1, <2>2, EmptyIsInLimits, LimitsInParts
<1>2. IInv /\ Limits /\ [Next]_vars => Limits'
  BY NextLineInLimits, LastBatchInLimits, NextEntryInLimits, TasksInLimits DEF Next, Stream
<1>3. IInv /\ Limits => BatchesAreBounded
  <2> SUFFICES ASSUME IInv, Limits, NEW b \in BatchesOut, tx \/ b # batch PROVE InLimits(size, b)
    BY DEF BatchesAreBounded, Bounded, InLimits, RunningTotals, Weigh
  <2>1. CASE b = batch
    BY <2>1, LimitsInParts, FilledIsInLimits DEF IInv, TypeOK
  <2>2. CASE b \in Sent
    BY <2>2, LimitsInParts
  <2> QED BY <2>1, <2>2 DEF BatchesOut, Sent
<1> QED BY <1>1, <1>2, <1>3, InvariantHolds, PTL DEF Spec
=============================================================================
