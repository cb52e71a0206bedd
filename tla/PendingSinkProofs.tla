-------------------------- MODULE PendingSinkProofs --------------------------
(***************************************************************************)
(* Proofs about PendingSink, for every number of threads, capacity and       *)
(* number of appends.                                                        *)
(***************************************************************************)
EXTENDS PendingSink, FiniteSetTheorems, TLAPS

USE ThreadsAssumption, CapacityAssumption, BoundsAssumption

(* What is inside the counted section stays finite and is counted. *)
LEMMA InsideIsFinite == IsFiniteSet(Inside) /\ Cardinality(Inside) \in Nat
BY FS_Subset, FS_CardinalityType DEF Inside

(* A thread that enters, leaves or stays out of the counted section of        *)
(* append changes the number of threads inside it accordingly.               *)
LEMMA CountedSection ==
  ASSUME at \in [Threads -> Labels], NEW t \in Threads, NEW l \in Labels, Goto(t, l)
  PROVE  LET In == {"recheck", "leave", "push", "exit"} IN
         /\ at[t] \in In <=> l \in In => Inside' = Inside
         /\ at[t] \notin In /\ l \in In => Cardinality(Inside') = Cardinality(Inside) + 1
         /\ at[t] \in In /\ l \notin In =>
              /\ Cardinality(Inside') = Cardinality(Inside) - 1
              /\ Cardinality(Inside) > 0
<1> DEFINE In == {"recheck", "leave", "push", "exit"}
<1>1. Inside' = IF l \in In THEN Inside \cup {t} ELSE Inside \ {t}
  BY DEF Inside, Goto
<1>2. t \in Inside <=> at[t] \in In
  BY DEF Inside
<1>3. at[t] \in In <=> l \in In => Inside' = Inside
  BY <1>1, <1>2
<1>4. Cardinality(Inside \cup {t}) = IF t \in Inside THEN Cardinality(Inside)
                                     ELSE Cardinality(Inside) + 1
  BY FS_AddElement, InsideIsFinite
<1>5. Cardinality(Inside \ {t}) = IF t \in Inside THEN Cardinality(Inside) - 1
                                  ELSE Cardinality(Inside)
  BY FS_RemoveElement, InsideIsFinite
<1>6. t \in Inside => Cardinality(Inside) # 0
  BY FS_EmptySet, InsideIsFinite
<1>7. Cardinality(Inside) \in Nat
  BY InsideIsFinite
<1> HIDE DEF In
<1>8. at[t] \notin In /\ l \in In => Cardinality(Inside') = Cardinality(Inside) + 1
  BY <1>1, <1>2, <1>4
<1>9. at[t] \in In /\ l \notin In =>
        Cardinality(Inside') = Cardinality(Inside) - 1 /\ Cardinality(Inside) > 0
  BY <1>1, <1>2, <1>5, <1>6, <1>7
<1> USE DEF In
<1> QED BY <1>3, <1>8, <1>9

(* A thread between its first look at the slot and the end of its entry's    *)
(* journey carries an entry.                                                 *)
LEMMA HoldsAnEntry ==
  ASSUME QuiescenceInv, NEW t \in Threads, at[t] \notin {"idle", "exit"}
  PROVE  holds[t] \in Entries
<1>1. holds[t] \in 0..MaxEntries
  BY DEF QuiescenceInv, TypeOK
<1>2. holds[t] # 0
  BY DEF QuiescenceInv
<1> QED BY <1>1, <1>2 DEF Entries

(* No step of append breaks the invariant. *)
LEMMA AppendKeeps ==
  ASSUME QuiescenceInv, NEW t \in Threads, Begin(t) \/ InAppend(t)
  PROVE  QuiescenceInv'
<1> USE DEF QuiescenceInv, TypeOK, Labels
<1>0. /\ at \in [Threads -> Labels]
      /\ holds \in [Threads -> 0..MaxEntries]
      /\ Cardinality(Inside) = buffering
      /\ buffering \in Nat
  OBVIOUS
<1>1. CASE Begin(t)
  <2>1. Inside' = Inside
    BY <1>1, CountedSection DEF Begin
  <2> QED BY <1>1, <2>1 DEF Begin, Goto, shared, fates, Entries
<1>2. CASE Forward(t)
  <2>1. Inside' = Inside
    BY <1>2, CountedSection DEF Forward
  <2>2. holds[t] \in Entries
    BY <1>2, HoldsAnEntry DEF Forward
  <2>3. delivered' \in Seq(Entries)
    BY <1>2, <2>2 DEF Forward
  <2> QED BY <1>2, <2>1, <2>3 DEF Forward, Goto, LetsGo, shared
<1>3. CASE CancelCheck(t)
  <2>1. Inside' = Inside
    BY <1>3, CountedSection DEF CancelCheck
  <2>2. holds[t] \in Entries
    BY <1>3, HoldsAnEntry DEF CancelCheck
  <2>3. CASE cancelled
    <3>1. discarded' \subseteq Entries
      BY <1>3, <2>2, <2>3 DEF CancelCheck
    <3>2. Goto(t, "idle") /\ LetsGo(t)
      BY <1>3, <2>3 DEF CancelCheck
    <3>3. UNCHANGED <<shared, resolver, in_hand, delivered, evicted, appended, flushes,
                      missed>>
      BY <1>3 DEF CancelCheck
    <3>4. at[t] = "cancel_check"
      BY <1>3 DEF CancelCheck
    <3> QED BY <1>0, <2>1, <3>1, <3>2, <3>3, <3>4 DEF Goto, LetsGo, shared
  <2>4. CASE ~cancelled
    BY <1>3, <2>1, <2>4 DEF CancelCheck, Goto, shared
  <2> QED BY <2>3, <2>4
<1>4. CASE Enter(t)
  <2>1. Cardinality(Inside') = Cardinality(Inside) + 1
    BY <1>4, CountedSection DEF Enter, AfterEnter
  <2> QED BY <1>4, <2>1 DEF Enter, Goto, CountUp, AfterEnter, fates
<1>5. CASE Recheck(t)
  <2>1. Inside' = Inside
    BY <1>5, CountedSection DEF Recheck
  <2> QED BY <1>5, <2>1 DEF Recheck, Goto, shared, fates
<1>6. CASE Leave(t)
  <2>1. Cardinality(Inside') = Cardinality(Inside) - 1 /\ Cardinality(Inside) > 0
    BY <1>6, CountedSection DEF Leave
  <2> QED BY <1>6, <2>1 DEF Leave, Goto, CountDown, fates
<1>7. CASE Push(t)
  <2>1. Inside' = Inside
    BY <1>7, CountedSection DEF Push
  <2>0. at[t] = "push"
    BY <1>7 DEF Push
  <2>2. holds[t] \in Entries
    BY <2>0, HoldsAnEntry
  <2>3. Displaced(buffer) \in {0, 1} /\ Displaced(buffer) <= Len(buffer)
    BY DEF Displaced
  <2>4. SubSeq(buffer, Displaced(buffer) + 1, Len(buffer)) \in Seq(Entries)
    BY <2>3
  <2>5. buffer' \in Seq(Entries)
    BY <1>7, <2>2, <2>4 DEF Push
  <2>6. \A i \in 1..Displaced(buffer) : buffer[i] \in Entries
    BY <2>3
  <2>7. evicted' \subseteq Entries
    BY <1>7, <2>6 DEF Push
  <2>8. resolver \notin {"drain", "resolved"}
    BY <1>7 DEF Push
  <2> QED BY <1>7, <2>1, <2>5, <2>7, <2>8, SMTT(30) DEF Push, Goto, LetsGo
<1>8. CASE Exit(t)
  <2>1. Cardinality(Inside') = Cardinality(Inside) - 1 /\ Cardinality(Inside) > 0
    BY <1>8, CountedSection DEF Exit
  <2> QED BY <1>8, <2>1 DEF Exit, Goto, CountDown, fates
<1> QED BY <1>1, <1>2, <1>3, <1>4, <1>5, <1>6, <1>7, <1>8 DEF InAppend

(* No step of the resolver, and no flush, breaks the invariant. *)
LEMMA ResolverKeeps ==
  ASSUME QuiescenceInv,
         ResolveSet \/ ResolverDrop \/ InResolve \/ \E t \in Threads : FlushAsync(t)
  PROVE  QuiescenceInv'
<1> USE DEF QuiescenceInv, TypeOK, ResolverStates
<1>1. CASE ResolveSet
  BY <1>1 DEF ResolveSet, Inside, fates
<1>2. CASE ResolverDrop
  BY <1>2 DEF ResolverDrop, Inside, fates
<1>3. CASE ResolveSpin
  <2>1. Inside = {}
    BY <1>3, FS_EmptySet, InsideIsFinite DEF ResolveSpin, Quiescent
  <2>2. \A t \in Threads : at[t] \notin {"push", "exit"}
    BY <2>1 DEF Inside
  <2> QED BY <1>3, <2>2 DEF ResolveSpin, Inside, shared, fates
<1>4. CASE ResolvePop
  <2>1. buffer # <<>> => Head(buffer) \in Entries /\ Tail(buffer) \in Seq(Entries)
    OBVIOUS
  <2>2. CASE buffer # <<>>
    <3>1. in_hand' \in 0..MaxEntries
      BY <1>4, <2>1, <2>2 DEF ResolvePop, Entries
    <3>2. buffer' \in Seq(Entries)
      BY <1>4, <2>1, <2>2 DEF ResolvePop, Popped
    <3>3. UNCHANGED <<sink_set, cancelled, buffering, at, holds, resolver, fates,
                      appended, flushes, missed>> /\ resolver = "drain"
      BY <1>4, <2>2 DEF ResolvePop
    <3> QED BY <3>1, <3>2, <3>3 DEF Inside, fates
  <2>3. CASE buffer = <<>>
    BY <1>4, <2>3 DEF ResolvePop, Inside, fates
  <2> QED BY <2>2, <2>3
<1>5. CASE ResolveAppend
  <2>1. in_hand \in Entries
    BY <1>5 DEF ResolveAppend, Entries
  <2>2. delivered' \in Seq(Entries)
    BY <1>5, <2>1 DEF ResolveAppend
  <2> QED BY <1>5, <2>2 DEF ResolveAppend, Inside, shared
<1>6. CASE \E t \in Threads : FlushAsync(t)
  <2>1. Accepted \subseteq Entries
    BY DEF Accepted, Entries
  <2>2. missed' \subseteq Entries
    BY <1>6, <2>1 DEF FlushAsync
  <2>3. flushes' \in 0..MaxFlushes
    BY <1>6 DEF FlushAsync
  <2> QED BY <1>6, <2>2, <2>3 DEF FlushAsync, Inside, shared, fates
<1> QED BY <1>1, <1>2, <1>3, <1>4, <1>5, <1>6 DEF InResolve

(* pending_sink::new establishes the invariant. *)
LEMMA QuiescenceInit == Init => QuiescenceInv
<1> SUFFICES ASSUME Init PROVE QuiescenceInv
  OBVIOUS
<1>1. Inside = {}
  BY DEF Init, Inside
<1>2. Cardinality(Inside) = 0
  BY <1>1, FS_EmptySet
<1>3. TypeOK
  <2>1. buffer \in Seq(Entries) /\ delivered \in Seq(Entries)
    BY DEF Init
  <2>2. at \in [Threads -> Labels] /\ holds \in [Threads -> 0..MaxEntries]
    BY DEF Init, Labels
  <2>3. in_hand \in 0..MaxEntries /\ appended \in 0..MaxEntries /\ flushes \in 0..MaxFlushes
    BY DEF Init
  <2> QED BY <2>1, <2>2, <2>3 DEF Init, TypeOK, ResolverStates
<1> QED BY <1>2, <1>3 DEF Init, QuiescenceInv

(* The invariant of the counted section is inductive. *)
LEMMA QuiescenceStep == QuiescenceInv /\ [Next]_vars => QuiescenceInv'
<1> SUFFICES ASSUME QuiescenceInv, [Next]_vars PROVE QuiescenceInv'
  OBVIOUS
<1>1. CASE UNCHANGED vars
  BY <1>1 DEF QuiescenceInv, TypeOK, Inside, vars, shared, fates
<1>2. CASE Next
  BY <1>2, AppendKeeps, ResolverKeeps DEF Next
<1> QED BY <1>1, <1>2

(* The state of a pending sink is well formed, and once resolve has returned *)
(* the ring is empty and stays so: no append can still write to it.          *)
THEOREM ResolveStrandsNothing == Spec => [](TypeOK /\ NothingStranded)
<1>1. QuiescenceInv => TypeOK /\ NothingStranded
  BY DEF QuiescenceInv, NothingStranded
<1> QED BY <1>1, QuiescenceInit, QuiescenceStep, PTL DEF Spec

-----------------------------------------------------------------------------
(* Where the entries are. *)

(* What a ring or the real sink holds after an append to it. *)
LEMMA AppendRange ==
  ASSUME NEW S, NEW s \in Seq(S), NEW x \in S
  PROVE  /\ Range(Append(s, x)) = Range(s) \cup {x}
         /\ Len(Append(s, x)) = Len(s) + 1
         /\ (\A i, j \in 1..Len(s) : i # j => s[i] # s[j]) /\ x \notin Range(s) =>
              \A i, j \in 1..Len(Append(s, x)) : i # j => Append(s, x)[i] # Append(s, x)[j]
<1>1. /\ Append(s, x) \in Seq(S) /\ Len(Append(s, x)) = Len(s) + 1 /\ Len(s) \in Nat
      /\ \A i \in 1..Len(s) : Append(s, x)[i] = s[i]
      /\ Append(s, x)[Len(s) + 1] = x
  OBVIOUS
<1>2. DOMAIN s = 1..Len(s) /\ DOMAIN Append(s, x) = 1..(Len(s) + 1)
  BY <1>1
<1>3. Range(Append(s, x)) = Range(s) \cup {x}
  BY <1>1, <1>2 DEF Range
<1>4. \A i \in 1..(Len(s) + 1) : i \in 1..Len(s) \/ i = Len(s) + 1
  BY <1>1
<1>5. \A i \in 1..Len(s) : s[i] \in Range(s)
  BY <1>2 DEF Range
<1> QED BY <1>1, <1>3, <1>4, <1>5

(* What it holds after a pop. *)
LEMMA TailRange ==
  ASSUME NEW S, NEW s \in Seq(S), s # <<>>, \A i, j \in 1..Len(s) : i # j => s[i] # s[j]
  PROVE  /\ Range(Tail(s)) = Range(s) \ {Head(s)}
         /\ Head(s) \in Range(s)
         /\ \A i, j \in 1..Len(Tail(s)) : i # j => Tail(s)[i] # Tail(s)[j]
<1>1. /\ Tail(s) \in Seq(S) /\ Len(s) \in Nat \ {0} /\ Len(Tail(s)) = Len(s) - 1
      /\ \A i \in 1..(Len(s) - 1) : Tail(s)[i] = s[i + 1]
      /\ Head(s) = s[1]
  OBVIOUS
<1>2. DOMAIN s = 1..Len(s) /\ DOMAIN Tail(s) = 1..(Len(s) - 1)
  BY <1>1
<1>3. Head(s) \in Range(s)
  BY <1>1, <1>2 DEF Range
<1>4. Range(Tail(s)) \subseteq Range(s) \ {Head(s)}
  <2> SUFFICES ASSUME NEW i \in 1..(Len(s) - 1)
               PROVE  Tail(s)[i] \in Range(s) \ {Head(s)}
    BY <1>2 DEF Range
  <2>1. i + 1 \in 1..Len(s) /\ 1 \in 1..Len(s) /\ i + 1 # 1
    BY <1>1
  <2> QED BY <1>1, <1>2, <2>1 DEF Range
<1>5. Range(s) \ {Head(s)} \subseteq Range(Tail(s))
  <2> SUFFICES ASSUME NEW i \in 1..Len(s), s[i] # Head(s)
               PROVE  s[i] \in Range(Tail(s))
    BY <1>2 DEF Range
  <2>1. i - 1 \in 1..(Len(s) - 1) /\ (i - 1) + 1 = i
    BY <1>1
  <2>2. Tail(s)[i - 1] = s[i]
    BY <1>1, <2>1
  <2> QED BY <1>2, <2>1, <2>2 DEF Range
<1>6. ASSUME NEW i \in 1..(Len(s) - 1), NEW j \in 1..(Len(s) - 1), i # j
      PROVE  Tail(s)[i] # Tail(s)[j]
  <2>1. i + 1 \in 1..Len(s) /\ j + 1 \in 1..Len(s) /\ i + 1 # j + 1
    BY <1>1, <1>6
  <2> QED BY <1>1, <2>1
<1> QED BY <1>1, <1>3, <1>4, <1>5, <1>6

(* A thread lets go of the entry it carries, which no other thread carries. *)
LEMMA LetsGoOfOne ==
  ASSUME QuiescenceInv, OneFate, NEW t \in Threads, at[t] \notin {"idle", "exit"}, LetsGo(t)
  PROVE  /\ holds[t] \in Held /\ holds[t] \in Entries
         /\ Held' = Held \ {holds[t]}
         /\ \A u, v \in Threads : u # v /\ holds'[u] # 0 => holds'[u] # holds'[v]
<1>1. /\ holds \in [Threads -> 0..MaxEntries] /\ holds[t] \in Entries /\ holds[t] # 0
      /\ DOMAIN holds = Threads
  BY HoldsAnEntry DEF QuiescenceInv, TypeOK, Entries
<1>2. /\ holds' = [holds EXCEPT ![t] = 0] /\ holds'[t] = 0 /\ DOMAIN holds' = Threads
      /\ \A u \in Threads : u # t => holds'[u] = holds[u]
  BY <1>1 DEF LetsGo
<1>3. \A u, v \in Threads : u # v /\ holds[u] # 0 => holds[u] # holds[v]
  BY DEF OneFate
<1>4. Held = {holds[u] : u \in Threads} \ {0} /\ Held' = {holds'[u] : u \in Threads} \ {0}
  BY <1>1, <1>2 DEF Held, Range
<1>5. Held' = Held \ {holds[t]}
  BY <1>1, <1>2, <1>3, <1>4
<1> QED BY <1>1, <1>2, <1>3, <1>4, <1>5

(* No step of append gives an entry two places or none. *)
LEMMA AppendMovesOne ==
  ASSUME QuiescenceInv, OneFate, NEW t \in Threads, Begin(t) \/ InAppend(t)
  PROVE  OneFate'
<1>0. /\ buffer \in Seq(Entries) /\ delivered \in Seq(Entries)
      /\ holds \in [Threads -> 0..MaxEntries] /\ appended \in Nat
      /\ at[t] \notin {"idle", "exit"} => holds[t] \in Entries
  BY HoldsAnEntry DEF QuiescenceInv, TypeOK
<1>1. CASE Begin(t)
  <2>1. /\ holds' = [holds EXCEPT ![t] = appended + 1] /\ appended' = appended + 1
        /\ holds[t] = 0 /\ appended + 1 # 0
        /\ UNCHANGED <<buffer, resolver, in_hand, delivered, evicted, discarded>>
    BY <1>0, <1>1 DEF Begin, QuiescenceInv, shared, fates
  <2>2. Held \subseteq 1..appended /\ appended + 1 \notin 1..appended
        /\ 1..(appended + 1) = (1..appended) \cup {appended + 1}
    BY <1>0 DEF OneFate
  <2>3. Held' = Held \cup {appended + 1}
    BY <1>0, <2>1 DEF Held, Range
  <2>4. \A u \in Threads : holds[u] # appended + 1
    BY <1>0, <2>1, <2>2 DEF Held, Range
  <2>5. \A u, v \in Threads : u # v /\ holds'[u] # 0 => holds'[u] # holds'[v]
    BY <1>0, <2>1, <2>4 DEF OneFate
  <2> QED BY <2>1, <2>2, <2>3, <2>5 DEF OneFate
<1>2. CASE Forward(t)
  <2>1. /\ delivered' = Append(delivered, holds[t]) /\ LetsGo(t) /\ at[t] = "forward"
        /\ UNCHANGED <<buffer, resolver, in_hand, evicted, discarded, appended>>
    BY <1>2 DEF Forward, shared
  <2>2. /\ holds[t] \in Held /\ holds[t] \in Entries /\ Held' = Held \ {holds[t]}
        /\ \A u, v \in Threads : u # v /\ holds'[u] # 0 => holds'[u] # holds'[v]
    BY <2>1, LetsGoOfOne
  <2>3. holds[t] \notin Range(delivered)
    BY <2>2 DEF OneFate
  <2>4. /\ Range(delivered') = Range(delivered) \cup {holds[t]}
        /\ \A i, j \in 1..Len(delivered') : i # j => delivered'[i] # delivered'[j]
    BY <1>0, <2>1, <2>2, <2>3, AppendRange DEF OneFate
  <2> QED BY <2>1, <2>2, <2>4 DEF OneFate
<1>3. CASE CancelCheck(t)
  <2>1. CASE cancelled
    <3>1. /\ discarded' = discarded \cup {holds[t]} /\ LetsGo(t) /\ at[t] = "cancel_check"
          /\ UNCHANGED <<buffer, resolver, in_hand, delivered, evicted, appended>>
      BY <1>3, <2>1 DEF CancelCheck, shared
    <3>2. /\ holds[t] \in Held /\ Held' = Held \ {holds[t]}
          /\ \A u, v \in Threads : u # v /\ holds'[u] # 0 => holds'[u] # holds'[v]
      BY <3>1, LetsGoOfOne
    <3> QED BY <3>1, <3>2 DEF OneFate
  <2>2. CASE ~cancelled
    BY <1>3, <2>2 DEF CancelCheck, shared, OneFate, Held
  <2> QED BY <2>1, <2>2
<1>4. CASE Enter(t) \/ Recheck(t) \/ Leave(t) \/ Exit(t)
  BY <1>4 DEF Enter, Recheck, Leave, Exit, shared, fates, OneFate, Held
<1>5. CASE Push(t)
  <2> DEFINE n == Displaced(buffer)
             rest == SubSeq(buffer, n + 1, Len(buffer))
  <2>1. /\ buffer' = Append(rest, holds[t]) /\ evicted' = evicted \cup {buffer[i] : i \in 1..n}
        /\ LetsGo(t) /\ at[t] = "push"
        /\ UNCHANGED <<resolver, in_hand, delivered, discarded, appended>>
    BY <1>5 DEF Push
  <2>2. /\ holds[t] \in Held /\ holds[t] \in Entries /\ Held' = Held \ {holds[t]}
        /\ \A u, v \in Threads : u # v /\ holds'[u] # 0 => holds'[u] # holds'[v]
    BY <2>1, LetsGoOfOne
  <2>3. /\ rest \in Seq(Entries)
        /\ {buffer[i] : i \in 1..n} \subseteq Range(buffer)
        /\ Range(rest) = Range(buffer) \ {buffer[i] : i \in 1..n}
        /\ \A i, j \in 1..Len(rest) : i # j => rest[i] # rest[j]
    <3>1. CASE Len(buffer) < Capacity
      <4>1. n = 0 /\ 1..n = {}
        BY <3>1 DEF Displaced
      <4>2. rest = buffer
        BY <1>0, <4>1
      <4>3. {buffer[i] : i \in 1..n} = {}
        BY <4>1
      <4> HIDE DEF n, rest
      <4> QED BY <1>0, <4>2, <4>3 DEF OneFate
    <3>2. CASE ~(Len(buffer) < Capacity)
      <4>1. n = 1 /\ 1..n = {1} /\ buffer # <<>>
        BY <1>0, <3>2 DEF Displaced
      <4>2. rest = Tail(buffer) /\ Head(buffer) = buffer[1]
        BY <1>0, <4>1
      <4>3. {buffer[i] : i \in 1..n} = {Head(buffer)}
        BY <4>1, <4>2
      <4> HIDE DEF n, rest
      <4>4. Tail(buffer) \in Seq(Entries)
        BY <1>0, <4>1
      <4>5. /\ Range(Tail(buffer)) = Range(buffer) \ {Head(buffer)}
            /\ Head(buffer) \in Range(buffer)
            /\ \A i, j \in 1..Len(Tail(buffer)) : i # j => Tail(buffer)[i] # Tail(buffer)[j]
        BY <1>0, <4>1, TailRange DEF OneFate
      <4> QED BY <4>2, <4>3, <4>4, <4>5
    <3> QED BY <3>1, <3>2
  <2> HIDE DEF n, rest
  <2>4. holds[t] \notin Range(rest)
    BY <2>2, <2>3 DEF OneFate
  <2>5. /\ Range(buffer') = Range(rest) \cup {holds[t]}
        /\ \A i, j \in 1..Len(buffer') : i # j => buffer'[i] # buffer'[j]
    BY <2>1, <2>2, <2>3, <2>4, AppendRange
  <2> QED BY <2>1, <2>2, <2>3, <2>5 DEF OneFate
<1> QED BY <1>1, <1>2, <1>3, <1>4, <1>5 DEF InAppend

(* Nor does the resolver: its drain takes an entry out of the ring into its    *)
(* hand, and from there to the real sink.                                     *)
LEMMA ResolverMovesOne ==
  ASSUME QuiescenceInv, OneFate,
         ResolveSet \/ ResolverDrop \/ InResolve \/ \E t \in Threads : FlushAsync(t)
  PROVE  OneFate'
<1>0. /\ buffer \in Seq(Entries) /\ delivered \in Seq(Entries) /\ in_hand \in 0..MaxEntries
  BY DEF QuiescenceInv, TypeOK
<1>1. CASE ResolveSet \/ ResolverDrop \/ ResolveSpin \/ \E t \in Threads : FlushAsync(t)
  BY <1>1 DEF ResolveSet, ResolverDrop, ResolveSpin, FlushAsync, shared, fates, OneFate, Held
<1>2. CASE ResolvePop /\ buffer = <<>>
  BY <1>2 DEF ResolvePop, fates, OneFate, Held
<1>3. CASE ResolvePop /\ buffer # <<>>
  <2>1. /\ in_hand = 0 /\ in_hand' = Head(buffer) /\ buffer' = Tail(buffer)
        /\ UNCHANGED <<resolver, holds, delivered, evicted, discarded, appended>>
        /\ resolver = "drain"
    BY <1>3 DEF ResolvePop, Popped, fates
  <2>2. /\ Range(Tail(buffer)) = Range(buffer) \ {Head(buffer)} /\ Head(buffer) \in Range(buffer)
        /\ \A i, j \in 1..Len(Tail(buffer)) : i # j => Tail(buffer)[i] # Tail(buffer)[j]
    BY <1>0, <1>3, TailRange DEF OneFate
  <2>3. Head(buffer) # 0
    BY <1>0, <1>3 DEF Entries
  <2> QED BY <2>1, <2>2, <2>3 DEF OneFate, Held
<1>4. CASE ResolveAppend
  <2>1. /\ in_hand # 0 /\ delivered' = Append(delivered, in_hand) /\ in_hand' = 0
        /\ UNCHANGED <<buffer, holds, evicted, discarded, appended, resolver>>
    BY <1>4 DEF ResolveAppend, shared
  <2>2. in_hand \in Entries /\ in_hand \notin Range(delivered)
    BY <1>0, <2>1 DEF OneFate, Entries
  <2>3. /\ Range(delivered') = Range(delivered) \cup {in_hand}
        /\ \A i, j \in 1..Len(delivered') : i # j => delivered'[i] # delivered'[j]
    BY <1>0, <2>1, <2>2, AppendRange DEF OneFate
  <2> QED BY <2>1, <2>2, <2>3 DEF OneFate, Held
<1> QED BY <1>1, <1>2, <1>3, <1>4 DEF InResolve

LEMMA OneFateStep == QuiescenceInv /\ OneFate /\ [Next]_vars => OneFate'
<1>1. QuiescenceInv /\ OneFate /\ Next => OneFate'
  BY AppendMovesOne, ResolverMovesOne DEF Next
<1>2. OneFate /\ UNCHANGED vars => OneFate'
  BY DEF vars, shared, fates, OneFate, Held
<1> QED BY <1>1, <1>2

LEMMA OneFateInit == Init => OneFate
<1> SUFFICES ASSUME Init PROVE OneFate
  OBVIOUS
<1>1. Range(buffer) = {} /\ Range(delivered) = {} /\ Len(buffer) = 0 /\ Len(delivered) = 0
  BY DEF Init, Range
<1>2. Held = {} /\ 1..appended = {}
  BY DEF Init, Held, Range
<1> QED BY <1>1, <1>2 DEF Init, OneFate

(* Every entry given to the pending sink is, at any time, in exactly one       *)
(* place: with the thread that appends it, in the ring, in resolve's hand,     *)
(* with the real sink, thrown out of the full ring, or discarded after a       *)
(* cancellation. Nothing is lost silently and nothing is delivered twice.      *)
THEOREM EntriesHaveOneFate == Spec => []ExactlyOneFate
<1>1. OneFate => ExactlyOneFate
  <2> SUFFICES ASSUME OneFate PROVE ExactlyOneFate
    OBVIOUS
  <2>1. /\ Places[1] = Held /\ Places[2] = Range(buffer) /\ Places[3] = {in_hand} \ {0}
        /\ Places[4] = Range(delivered) /\ Places[5] = evicted /\ Places[6] = discarded
    BY DEF Places
  <2>2. \A i \in 1..6 : i = 1 \/ i = 2 \/ i = 3 \/ i = 4 \/ i = 5 \/ i = 6
    OBVIOUS
  <2>3. UNION {Places[i] : i \in 1..6} = Places[1] \cup Places[2] \cup Places[3] \cup Places[4]
                                           \cup Places[5] \cup Places[6]
    BY <2>2
  <2>4. UNION {Places[i] : i \in 1..6} = 1..appended
    BY <2>1, <2>3 DEF OneFate
  <2>5. \A i, j \in 1..6 : i # j => Places[i] \cap Places[j] = {}
    BY <2>1, <2>2 DEF OneFate
  <2> QED BY <2>4, <2>5 DEF OneFate, ExactlyOneFate
<1> QED BY <1>1, QuiescenceInit, QuiescenceStep, OneFateInit, OneFateStep, PTL DEF Spec

(* A flush of the pending sink that is called after resolve has returned       *)
(* covers every entry whose append returned before it, for every schedule: by  *)
(* then each of them is with the real sink.                                   *)
THEOREM FlushesCoverContents == Spec => FlushCoversContents
<1>1. QuiescenceInv /\ OneFate /\ [Next]_vars => [resolver = "resolved" => missed' = missed]_vars
  <2> SUFFICES ASSUME QuiescenceInv, OneFate, Next, resolver = "resolved"
               PROVE  missed' = missed
    OBVIOUS
  <2>1. Accepted \subseteq Range(delivered)
    <3>1. Range(buffer) = {} /\ in_hand = 0
      BY DEF QuiescenceInv, OneFate, Range
    <3>2. Range(holds) \subseteq Held \cup {0}
      BY DEF Held
    <3> QED BY <3>1, <3>2 DEF OneFate, Accepted, Held
  <2>2. CASE \E t \in Threads : FlushAsync(t)
    BY <2>1, <2>2 DEF FlushAsync
  <2>3. CASE ~ \E t \in Threads : FlushAsync(t)
    BY <2>3 DEF Next, Begin, InAppend, Forward, CancelCheck, Enter, Recheck, Leave, Push, Exit,
       ResolveSet, ResolverDrop, InResolve, ResolveSpin, ResolvePop, ResolveAppend
  <2> QED BY <2>2, <2>3
<1> QED BY <1>1, QuiescenceInit, QuiescenceStep, OneFateInit, OneFateStep, PTL
        DEF Spec, FlushCoversContents
=============================================================================
