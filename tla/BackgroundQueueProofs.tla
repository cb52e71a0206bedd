----------------------- MODULE BackgroundQueueProofs -----------------------
(***************************************************************************)
(* Proofs about BackgroundQueue, for every set of appenders, capacity,      *)
(* clock-check interval, set of stream answers and bound.                  *)
(***************************************************************************)
EXTENDS BackgroundQueue, FiniteSetTheorems, TLAPS

(* Every counter update of consume and flush_stream is a tally of naturals. *)
LEMMA TallyType ==
  /\ \A e, i, v \in Nat : Tally(e, i, v) \in [Counters -> Nat]
  /\ Zero \in [Counters -> Nat]
  /\ \A o \in Outcomes : EffectOf[o] \in [Counters -> Nat]
  /\ \A a, b \in [Counters -> Nat] : Plus(a, b) \in [Counters -> Nat]
<1>1. \A e, i, v \in Nat : Tally(e, i, v) \in [Counters -> Nat]
  BY DEF Tally, Counters
<1>2. Zero \in [Counters -> Nat]
  BY <1>1 DEF Zero
<1>3. \A o \in Outcomes : EffectOf[o] \in [Counters -> Nat]
  <2> TAKE o \in Outcomes
  <2>1. o \in {"ok", "io", "validation", "validation_reported", "validation_lost"}
    BY OutcomesAssumption DEF EffectOf
  <2>2. \E e, i, v \in Nat : EffectOf[o] = Tally(e, i, v)
    <3>1. CASE o = "ok" BY <3>1 DEF EffectOf
    <3>2. CASE o = "io" BY <3>2 DEF EffectOf
    <3>3. CASE o = "validation" BY <3>3 DEF EffectOf
    <3>4. CASE o = "validation_reported" BY <3>4 DEF EffectOf
    <3>5. CASE o = "validation_lost" BY <3>5 DEF EffectOf
    <3> QED BY <2>1, <3>1, <3>2, <3>3, <3>4, <3>5
  <2> QED BY <1>1, <2>2
<1>4. \A a, b \in [Counters -> Nat] : Plus(a, b) \in [Counters -> Nat]
  BY DEF Plus
<1> QED BY <1>1, <1>2, <1>3, <1>4

(* What force_push does to a ring of entries. *)
LEMMA ForcePushType ==
  ASSUME NEW q \in Seq(Entries), NEW e \in Entries
  PROVE  /\ ForcePush(q, e) \in Seq(Entries)
         /\ Displaced(q) \subseteq Entries
<1>1. Len(q) \in Nat /\ (Len(q) > 0 => Head(q) \in Entries /\ Tail(q) \in Seq(Entries))
  OBVIOUS
<1> QED BY <1>1, CapacityAssumption DEF ForcePush, Displaced

(* The type invariant is preserved by flush_stream, wherever it is called. *)
LEMMA FlushStreamType ==
  ASSUME TypeOK, NEW fails \in BOOLEAN, FlushStream(fails), NEW label \in Labels,
         pc' = label, label # "consume", pc # "consume"
  PROVE  TypeOK'
<1> DEFINE tally == Plus(counters, Tally(0, IF fails THEN 1 ELSE 0, 0))
<1>1. tally \in [Counters -> Nat]
  BY TallyType DEF TypeOK
<1>2. counters' \in [Counters -> Nat]
  BY <1>1, TallyType DEF FlushStream, TakeTally
<1>3. reported' \in [Counters -> Nat]
  BY <1>1, TallyType DEF FlushStream, TypeOK
<1>4. extra' \in Nat /\ flushed' \subseteq Entries
  BY DEF FlushStream, TypeOK
<1> QED
  BY <1>2, <1>3, <1>4 DEF FlushStream, TypeOK, NotMine, clones, joining, ring, flushes,
     drain, loop

(* No step of an appender, of the join handle or of run breaks TypeOK. *)
LEMMA TypeStep == TypeOK /\ [Next]_vars => TypeOK'
<1> SUFFICES ASSUME TypeOK, [Next]_vars PROVE TypeOK'
  OBVIOUS
<1> USE BoundsAssumption, CapacityAssumption
<1>1. CASE Receiver
  <2>1. CASE Pop
    <3>1. CASE queue # <<>>
      <4>1. Head(queue) \in Entries /\ Tail(queue) \in Seq(Entries)
        BY <3>1 DEF TypeOK
      <4>2. in_hand' \in Entries
        BY <2>1, <3>1, <4>1 DEF Pop
      <4> QED BY <2>1, <3>1, <4>1, <4>2 DEF Pop, TypeOK, NotMine, clones, joining, flushes,
            loop, stream, tallies, At, Goto, Labels
    <3>2. CASE queue = <<>>
      BY <2>1, <3>2 DEF Pop, TypeOK, NotMine, clones, joining, flushes, loop,
            stream, tallies, At, Goto, Labels, AfterDrain
    <3> QED BY <3>1, <3>2
  <2>2. CASE HandleWakers
    BY <2>2 DEF HandleWakers, SaturatingSub, TypeOK, NotMine, clones, joining, ring, loop,
          stream, tallies, At, Goto, Labels
  <2>3. CASE Wake
    BY <2>3 DEF Wake, AfterWake, TypeOK, NotMine, clones, joining, ring, drain, loop,
          stream, tallies, At, Goto, Labels, SignalStates
  <2>4. CASE Recv
    BY <2>4 DEF Recv, Patience, TypeOK, NotMine, clones, joining, ring, drain, loop,
          stream, tallies, At, Goto, Labels, SignalStates, SignalsIn
  <2>5. CASE Decide
    BY <2>5 DEF Decide, NextLoopAction, TypeOK, NotMine, clones, joining, ring, flushes,
          loop, stream, tallies, At, Goto, Labels
  <2>6. CASE Park
    BY <2>6 DEF Park, TypeOK, NotMine, clones, joining, ring, flushes, drain, loop,
          stream, tallies, At, Goto, Labels
  <2>7. CASE Deadline
    BY <2>7 DEF Deadline, TypeOK, NotMine, clones, joining, ring, flushes, drain, loop,
          stream, tallies, At, Goto, Labels
  <2>8. CASE ExitCheck
    BY <2>8 DEF ExitCheck, ExitRequested, ShutDownLabel, TypeOK, NotMine, clones, joining,
          ring, flushes, drain, stream, tallies, At, Goto, Labels
  <2>9. CASE DropWakers
    BY <2>9 DEF DropWakers, DroppedWithTracker, TypeOK, NotMine, clones, joining, ring,
          drain, loop, stream, tallies, At, Goto, Labels, SignalStates
  <2>10. ASSUME NEW o \in Outcomes, Consume(o) PROVE TypeOK'
    <3>1. in_hand \in Entries /\ counters' \in [Counters -> Nat]
      BY <2>10, TallyType DEF Consume, TypeOK, At
    <3>2. extra' \in Nat /\ entry_count' \in Nat
      BY <2>10 DEF Consume, ReportsOf, TypeOK
    <3>3. cut' \in Cuts /\ status' \in {"Drained", "HitDeadline"} /\ pc' \in Labels
      BY <2>10 DEF Consume, TypeOK, Goto, AfterDrain, Labels, Cuts
    <3>4. consumed' \subseteq Entries /\ in_hand' = 0 /\ pc' # "consume"
      BY <2>10, <3>1 DEF Consume, TypeOK, Goto, AfterDrain
    <3> QED BY <2>10, <3>1, <3>2, <3>3, <3>4 DEF Consume, TypeOK, NotMine, clones, joining,
          ring, flushes
  <2>11. ASSUME NEW fails \in BOOLEAN, WakeFlush(fails) \/ Flush(fails) \/ FinalFlush(fails)
         PROVE TypeOK'
    BY <2>11, FlushStreamType DEF WakeFlush, Flush, FinalFlush, At, Goto, Labels
  <2>12. CASE Panic
    <3>1. consumed' \subseteq Entries
      BY <2>12 DEF Panic, TypeOK, At
    <3> QED BY <2>12, <3>1 DEF Panic, TypeOK, NotMine, clones, joining, ring, flushes,
          tallies, Goto, Labels, Cuts, Panics
  <2> QED BY <1>1, <2>1, <2>2, <2>3, <2>4, <2>5, <2>6, <2>7, <2>8, <2>9, <2>10, <2>11, <2>12
        DEF Receiver
<1>2. CASE Tick
  BY <1>2 DEF Tick, TypeOK, NotMine, clones, joining, ring, flushes, drain, stream, tallies
<1>3. CASE Handle
  BY <1>3, ZenonT(60) DEF Handle, HandleStore, HandleUnpark, HandleJoin, HandleForget, Token, TypeOK,
        clones, ring, flushes, drain, loop, stream, tallies, HandleStates
<1>4. ASSUME NEW t \in Appenders, Appender(t) PROVE TypeOK'
  <2>1. CASE Push(t)
    <3>1. pushed + 1 \in Entries
      BY <2>1 DEF Push, TypeOK, Entries
    <3>2. queue' \in Seq(Entries) /\ evicted' \subseteq Entries
      BY <2>1, <3>1, ForcePushType DEF Push, TypeOK
    <3> QED BY <2>1, <3>1, <3>2 DEF Push, Does, TypeOK, flushes, joining, drain, loop,
          stream, tallies, Entries
  <2>2. CASE Overflow(t)
    BY <2>2 DEF Overflow, Does, TypeOK, ring, flushes, joining, drain, loop, stream, tallies
  <2>3. CASE FlushAsync(t)
    <3>1. sent + 1 \in Signals /\ sent' \in 0..MaxFlushes
      BY <2>3 DEF FlushAsync, TypeOK, Signals
    <3>2. late' \subseteq Signals /\ before' \in [Signals -> 0..MaxEntries]
      BY <2>3, <3>1 DEF FlushAsync, TypeOK
    <3>3. signal' \in [Signals -> SignalStates]
      BY <2>3, <3>1 DEF FlushAsync, TypeOK, SignalStates
    <3> QED BY <2>3, <3>1, <3>2, <3>3 DEF FlushAsync, Does, TypeOK, ring, joining, drain,
          loop, stream, tallies
  <2>4. CASE Unpark(t)
    BY <2>4, SMTT(30) DEF Unpark, Token, Does, TypeOK, ring, flushes, joining, drain, loop, stream,
          tallies
  <2>5. CASE DropQueue(t) \/ \E u \in Appenders : Clone(t, u)
    BY <2>5 DEF DropQueue, Clone, TypeOK, ring, flushes, joining, drain, loop, stream,
          tallies
  <2> QED BY <1>4, <2>1, <2>2, <2>3, <2>4, <2>5 DEF Appender
<1>5. CASE UNCHANGED vars
  BY <1>5 DEF vars, TypeOK, clones, ring, flushes, joining, drain, loop, stream, tallies
<1> QED BY <1>1, <1>2, <1>3, <1>4, <1>5 DEF Next

(* do_build starts in a well-formed state. *)
LEMMA TypeInit == Init => TypeOK
<1> SUFFICES ASSUME Init PROVE TypeOK
  OBVIOUS
<1>1. queue \in Seq(Entries) /\ owners \subseteq Appenders
  BY DEF Init
<1>2. counters \in [Counters -> Nat] /\ reported \in [Counters -> Nat]
  BY TallyType DEF Init
<1>3. 0 \in 0..MaxEntries /\ 0 \in 0..MaxFlushes
  BY BoundsAssumption
<1>4. /\ signal \in [Signals -> SignalStates]
      /\ doing \in [Appenders -> {"idle", "overflow", "unpark"}]
      /\ before \in [Signals -> 0..MaxEntries]
      /\ handled \in [Signals -> Nat]
  BY <1>3 DEF Init, SignalStates
<1> QED BY <1>1, <1>2, <1>3, <1>4 DEF Init, TypeOK, HandleStates, Labels, Cuts

(* The queue's state is well formed in every reachable state. *)
THEOREM TypeCorrect == Spec => []TypeOK
  BY TypeInit, TypeStep, PTL DEF Spec

-----------------------------------------------------------------------------
(* How the two operations on the ring move its window. *)
LEMMA PushMovesWindow ==
  ASSUME TypeOK, RingIsWindow, pushed < MaxEntries, pushed' = pushed + 1,
         queue' = ForcePush(queue, pushed + 1)
  PROVE  /\ RingIsWindow'
         /\ Removed \in Nat /\ Removed' \in Nat
         /\ \/ Displaced(queue) = {} /\ Removed' = Removed
            \/ Displaced(queue) = {Removed + 1} /\ Removed' = Removed + 1
<1> USE CapacityAssumption, BoundsAssumption
<1>1. queue \in Seq(Entries) /\ Len(queue) \in Nat /\ pushed \in Nat
  BY DEF TypeOK
<1>2. CASE Len(queue) < Capacity
  <2>1. queue' = Append(queue, pushed + 1) /\ Displaced(queue) = {}
    BY <1>2 DEF ForcePush, Displaced
  <2>2. Len(queue') = Len(queue) + 1
    BY <1>1, <2>1
  <2>3. \A i \in 1..Len(queue') : queue'[i] = IF i <= Len(queue) THEN queue[i] ELSE pushed + 1
    BY <1>1, <2>1, <2>2
  <2>4. Removed \in Nat /\ Removed' = Removed
    BY <1>1, <2>2 DEF RingIsWindow, Removed
  <2>5. \A i \in 1..Len(queue') : queue'[i] = Removed' + i
    <3>1. \A i \in 1..Len(queue) : queue[i] = Removed + i
      BY DEF RingIsWindow
    <3>2. pushed = Removed + Len(queue)
      BY <1>1 DEF Removed
    <3>3. SUFFICES ASSUME NEW i \in 1..Len(queue') PROVE queue'[i] = Removed' + i
      OBVIOUS
    <3>4. CASE i <= Len(queue)
      <4>1. i \in 1..Len(queue)
        BY <1>1, <3>4
      <4> QED BY <2>3, <2>4, <3>1, <3>4, <4>1
    <3>5. CASE ~(i <= Len(queue))
      <4>1. i = Len(queue) + 1
        BY <1>1, <2>2, <3>5
      <4>2. queue'[i] = pushed + 1
        BY <2>3, <3>5
      <4> QED BY <1>1, <2>4, <3>2, <4>1, <4>2
    <3> QED BY <3>4, <3>5
  <2> QED BY <1>1, <1>2, <2>1, <2>2, <2>4, <2>5 DEF RingIsWindow
<1>3. CASE Len(queue) = Capacity
  <2>1. queue' = Append(Tail(queue), pushed + 1) /\ Displaced(queue) = {Head(queue)}
    BY <1>3 DEF ForcePush, Displaced
  <2>2. /\ Tail(queue) \in Seq(Entries)
        /\ Len(Tail(queue)) = Len(queue) - 1
        /\ \A i \in 1..(Len(queue) - 1) : Tail(queue)[i] = queue[i + 1]
        /\ Head(queue) = queue[1]
    BY <1>1, <1>3
  <2>3. Len(queue') = Len(queue)
    BY <1>1, <2>1, <2>2
  <2>4. \A i \in 1..Len(queue') : queue'[i] = IF i < Len(queue) THEN queue[i + 1] ELSE pushed + 1
    BY <1>1, <2>1, <2>2, <2>3, SMTT(30)
  <2>5. Removed \in Nat /\ Removed' = Removed + 1 /\ Head(queue) = Removed + 1
    BY <1>1, <1>3, <2>2, <2>3 DEF RingIsWindow, Removed
  <2>6. \A i \in 1..Len(queue') : queue'[i] = Removed' + i
    <3>1. \A i \in 1..Len(queue) : queue[i] = Removed + i
      BY DEF RingIsWindow
    <3>2. pushed = Removed + Len(queue)
      BY <1>1 DEF Removed
    <3> TAKE i \in 1..Len(queue')
    <3>3. CASE i < Len(queue)
      <4>1. i + 1 \in 1..Len(queue)
        BY <1>1, <3>3
      <4> QED BY <1>1, <2>3, <2>4, <2>5, <3>1, <3>3, <4>1
    <3>4. CASE i = Len(queue)
      BY <1>1, <2>3, <2>4, <2>5, <3>2, <3>4
    <3> QED BY <1>1, <2>3, <3>3, <3>4
  <2> QED BY <1>1, <1>3, <2>1, <2>3, <2>5, <2>6 DEF RingIsWindow
<1> QED BY <1>1, <1>2, <1>3 DEF RingIsWindow

(* queue.pop() takes the first entry of the window off the ring. *)
LEMMA PopMovesWindow ==
  ASSUME TypeOK, RingIsWindow, queue # <<>>, pushed' = pushed, queue' = Tail(queue)
  PROVE  /\ RingIsWindow'
         /\ Removed \in Nat /\ Removed' = Removed + 1 /\ Head(queue) = Removed + 1
<1>1. queue \in Seq(Entries) /\ Len(queue) \in Nat /\ Len(queue) > 0 /\ pushed \in Nat
  BY BoundsAssumption DEF TypeOK
<1>2. /\ Len(queue') = Len(queue) - 1
      /\ \A i \in 1..(Len(queue) - 1) : queue'[i] = queue[i + 1]
      /\ Head(queue) = queue[1]
  BY <1>1
<1> QED BY <1>1, <1>2, CapacityAssumption DEF RingIsWindow, Removed

(* The parts of IInv besides TypeOK. *)
Parts == /\ RingIsWindow /\ OutIsAccounted /\ SignalsAreNumbered
         /\ Countdown /\ WakeIsSafe /\ CloseIsSafe

(* Inner::push: the window moves up by one, nothing flushed is forgotten. *)
LEMMA PushKeeps ==
  ASSUME IInv, NEW t \in Appenders, Push(t)
  PROVE  Parts'
<1> USE BoundsAssumption, CapacityAssumption
<1>1. /\ TypeOK /\ pushed < MaxEntries /\ pushed' = pushed + 1 /\ t \in owners
      /\ queue' = ForcePush(queue, pushed + 1) /\ evicted' = evicted \cup Displaced(queue)
      /\ UNCHANGED <<flushes, joining, pc, drain, loop, entries_before_wake, stream, owners>>
  BY DEF IInv, Push, Idle
<1>2. RingIsWindow' /\ Removed \in Nat /\ Removed' \in Nat
      /\ \/ Displaced(queue) = {} /\ Removed' = Removed
         \/ Displaced(queue) = {Removed + 1} /\ Removed' = Removed + 1
  BY <1>1, PushMovesWindow DEF IInv
<1>3. OutIsAccounted'
  <2>1. in_hand' = in_hand /\ consumed' = consumed /\ flushed' = flushed /\ in_hand \in Nat
    BY <1>1 DEF TypeOK, drain, stream, Entries
  <2> QED BY <1>1, <1>2, <2>1 DEF IInv, OutIsAccounted
<1>4. SignalsAreNumbered'
  BY <1>1 DEF IInv, SignalsAreNumbered, TypeOK, flushes, joining
<1>5. Countdown'
  BY <1>1, <1>2 DEF IInv, Countdown, TypeOK, flushes, drain, waiting_wakers, SignalsIn,
     Entries
<1>6. \A f \in Signals : Covered(f) => Covered(f)'
  BY <1>1 DEF Covered, flushes, stream
<1>7. WakeIsSafe'
  BY <1>1, <1>2, <1>6 DEF IInv, WakeIsSafe, TypeOK, flushes, drain, waiting_wakers, SignalsIn
<1>8. CloseIsSafe'
  BY <1>1, <1>2, <1>6 DEF IInv, CloseIsSafe, TypeOK, flushes, drain, loop, joining, stream,
     waiting_wakers, SignalsIn
<1> QED BY <1>2, <1>3, <1>4, <1>5, <1>7, <1>8 DEF Parts

(* drain_until_deadline's pop, of an entry or of the empty ring. *)
LEMMA PopKeeps ==
  ASSUME IInv, Pop
  PROVE  Parts'
<1> USE BoundsAssumption, CapacityAssumption
<1>1. /\ TypeOK /\ pc = "pop" /\ pushed' = pushed /\ evicted' = evicted
      /\ entry_count' = entry_count /\ in_hand = 0
      /\ UNCHANGED <<flushes, clones, joining, loop, entries_before_wake, stream>>
  BY DEF IInv, Pop, At, NotMine, TypeOK
<1>2. \A f \in Signals : Covered(f) => Covered(f)'
  BY <1>1 DEF Covered, flushes, stream
<1>3. CASE queue # <<>>
  <2>1. queue' = Tail(queue) /\ in_hand' = Head(queue) /\ pc' = "consume"
    BY <1>3 DEF Pop, Goto
  <2>2. RingIsWindow' /\ Removed \in Nat /\ Removed' = Removed + 1 /\ in_hand' = Removed + 1
    BY <1>1, <1>3, <2>1, PopMovesWindow DEF IInv
  <2>3. OutIsAccounted'
    BY <1>1, <2>2 DEF IInv, OutIsAccounted, TypeOK, stream, Entries
  <2>4. SignalsAreNumbered'
    BY <1>1 DEF IInv, SignalsAreNumbered, TypeOK, flushes, joining
  <2>5. Countdown'
    <3>1. \A f \in Signals : before[f] \in Nat /\ before' = before /\ signal' = signal
      BY <1>1 DEF TypeOK, flushes
    <3>2. entry_count \in Nat /\ entries_before_wake \in Nat /\ in_hand' # 0
      BY <1>1, <2>2 DEF TypeOK
    <3> QED BY <1>1, <2>1, <2>2, <3>1, <3>2 DEF IInv, Countdown, waiting_wakers, SignalsIn
  <2>6. WakeIsSafe'
    BY <1>1, <1>2, <2>1 DEF IInv, WakeIsSafe, flushes, SignalsIn
  <2>7. CloseIsSafe'
    BY <1>1, <1>2, <2>1 DEF IInv, CloseIsSafe, flushes, loop, joining, clones, SignalsIn
  <2> QED BY <2>2, <2>3, <2>4, <2>5, <2>6, <2>7 DEF Parts
<1>4. CASE queue = <<>>
  <2>1. /\ queue' = queue /\ in_hand' = 0 /\ status' = "Drained"
        /\ pc' = IF closing THEN "final_flush" ELSE "wakers"
    BY <1>1, <1>4 DEF Pop, Goto, AfterDrain
  <2>2. Removed = pushed /\ Removed' = Removed
    BY <1>1, <1>4, <2>1 DEF Removed, TypeOK
  <2>3. RingIsWindow' /\ OutIsAccounted' /\ SignalsAreNumbered'
    BY <1>1, <2>1, <2>2 DEF IInv, RingIsWindow, OutIsAccounted, SignalsAreNumbered, stream,
       flushes, joining
  <2>4. Countdown' /\ WakeIsSafe'
    BY <1>1, <1>2, <2>1, <2>2 DEF IInv, Countdown, WakeIsSafe, SignalsAreNumbered, TypeOK,
       flushes, waiting_wakers, SignalsIn
  <2>5. CloseIsSafe'
    BY <1>1, <1>2, <2>1, <2>2 DEF IInv, CloseIsSafe, SignalsAreNumbered, TypeOK,
       flushes, joining, clones, loop, waiting_wakers, SignalsIn
  <2> QED BY <2>3, <2>4, <2>5 DEF Parts
<1> QED BY <1>3, <1>4

(* consume: the entry in hand joins the consumed ones. *)
LEMMA ConsumeKeeps ==
  ASSUME IInv, NEW o \in Outcomes, Consume(o)
  PROVE  Parts'
<1> USE BoundsAssumption, ClockCheckAssumption
<1> DEFINE hit == (entry_count + 1) % ClockCheck = 0 /\ expired
<1>1. /\ TypeOK /\ pc = "consume" /\ in_hand \in Nat \ {0} /\ in_hand' = 0
      /\ consumed' = consumed \cup {in_hand} /\ entry_count' = entry_count + 1
      /\ status' = (IF hit THEN "HitDeadline" ELSE status)
      /\ cut' = (IF hit /\ closing THEN "timeout" ELSE cut)
      /\ pc' = IF hit THEN (IF closing THEN "final_flush" ELSE "wakers") ELSE "pop"
      /\ UNCHANGED <<ring, flushes, clones, joining, closing, entries_before_wake, flushed>>
  BY DEF IInv, Consume, At, Goto, AfterDrain, NotMine, TypeOK, Entries
<1>2. \A f \in Signals : Covered(f) => Covered(f)'
  BY <1>1 DEF Covered, flushes, ring
<1>3. Removed' = Removed /\ RingIsWindow' /\ SignalsAreNumbered'
  BY <1>1 DEF IInv, Removed, RingIsWindow, SignalsAreNumbered, ring, flushes, joining
<1>4. OutIsAccounted'
  <2>1. Removed \in Int
    BY <1>1 DEF TypeOK, Removed
  <2> QED BY <1>1, <1>3, <2>1 DEF IInv, OutIsAccounted, ring
<1>5. Countdown'
  BY <1>1, <1>3 DEF IInv, Countdown, TypeOK, flushes, waiting_wakers, SignalsIn
<1>6. WakeIsSafe'
  BY <1>1, <1>2, <1>3 DEF IInv, WakeIsSafe, flushes, waiting_wakers, SignalsIn
<1>7. CloseIsSafe'
  BY <1>1, <1>2, <1>3 DEF IInv, CloseIsSafe, flushes, joining, clones, waiting_wakers,
     SignalsIn
<1> QED BY <1>3, <1>4, <1>5, <1>6, <1>7 DEF Parts

(* flush_stream makes every entry up to Removed count as flushed. *)
LEMMA FlushKeeps ==
  ASSUME IInv, NEW fails \in BOOLEAN, WakeFlush(fails) \/ Flush(fails) \/ FinalFlush(fails)
  PROVE  Parts'
<1> USE BoundsAssumption
<1>1. /\ TypeOK /\ in_hand = 0 /\ flushed' = consumed /\ consumed' = consumed
      /\ \/ pc = "wake_flush" /\ pc' = "wake"
         \/ pc = "flush" /\ pc' = "exit_check"
         \/ pc = "final_flush" /\ pc' = "drop_wakers"
      /\ UNCHANGED <<ring, flushes, clones, joining, drain, loop, entries_before_wake>>
  BY DEF IInv, WakeFlush, Flush, FinalFlush, FlushStream, At, Goto, NotMine, TypeOK
<1>2. Removed' = Removed /\ RingIsWindow' /\ SignalsAreNumbered' /\ OutIsAccounted'
  BY <1>1 DEF IInv, Removed, RingIsWindow, SignalsAreNumbered, OutIsAccounted, ring, flushes,
     joining, drain
<1>3. /\ Removed \in Int
      /\ 1..Removed \subseteq flushed' \cup evicted'
  BY <1>1 DEF IInv, OutIsAccounted, ring, Removed, TypeOK, Entries
<1>4. \A n \in Nat : n <= Removed => 1..n \subseteq flushed' \cup evicted'
  BY <1>3
<1>5. \A f \in Signals : /\ Covered(f) => Covered(f)'
                         /\ before[f] <= Removed => Covered(f)'
  BY <1>1, <1>4 DEF Covered, flushes, ring, IInv, OutIsAccounted, TypeOK
<1>6. Countdown'
  BY <1>1, <1>2 DEF IInv, Countdown, TypeOK, drain, flushes, waiting_wakers, SignalsIn
<1>7. WakeIsSafe'
  BY <1>1, <1>2, <1>5 DEF IInv, WakeIsSafe, drain, flushes, waiting_wakers, SignalsIn
<1>8. CloseIsSafe'
  <2>1. pushed \in Nat /\ at_signal \in Nat
    BY <1>1 DEF TypeOK
  <2> QED BY <1>1, <1>2, <1>4, <1>5, <2>1 DEF IInv, CloseIsSafe, flushes, joining, clones,
        loop, ring, waiting_wakers, SignalsIn
<1> QED BY <1>2, <1>6, <1>7, <1>8 DEF Parts

(* A panic of the stream leaves the thread to drop its wakers. *)
LEMMA PanicKeeps ==
  ASSUME IInv, Panic
  PROVE  Parts'
<1> USE BoundsAssumption
<1>1. /\ TypeOK /\ in_hand' = 0 /\ in_hand \in Nat /\ pc \notin {"done", "recv", "wake"}
      /\ consumed' = (IF pc = "consume" THEN consumed \cup {in_hand} ELSE consumed)
      /\ pc # "consume" => in_hand = 0
      /\ pc = "consume" => in_hand # 0
      /\ pc' = "drop_wakers" /\ closing' = TRUE /\ cut' # "no"
      /\ UNCHANGED <<ring, flushes, clones, joining, entry_count, entries_before_wake, flushed>>
  BY DEF IInv, Panic, At, Goto, NotMine, TypeOK, Entries
<1>2. /\ Removed' = Removed /\ RingIsWindow' /\ SignalsAreNumbered'
      /\ \A f \in Signals : Covered(f) => Covered(f)'
  BY <1>1 DEF IInv, Removed, RingIsWindow, SignalsAreNumbered, Covered, ring, flushes, joining
<1>3. OutIsAccounted'
  <2>1. Removed \in Int
    BY <1>1 DEF TypeOK, Removed
  <2> QED BY <1>1, <1>2, <2>1 DEF IInv, OutIsAccounted, ring
<1>4. Countdown'
  <2>1. /\ Removed \in Int /\ entry_count \in Nat /\ entries_before_wake \in Nat
        /\ \A f \in Signals : before[f] \in Nat
        /\ before' = before /\ waiting_wakers' = waiting_wakers
    BY <1>1 DEF TypeOK, Removed, flushes, waiting_wakers, SignalsIn
  <2>2. waiting_wakers \subseteq Signals
    BY DEF waiting_wakers, SignalsIn
  <2>3. \A f \in waiting_wakers : \/ before[f] - Removed <= entries_before_wake - entry_count
                                  \/ before[f] <= Removed
    BY <1>1, <2>1, <2>2 DEF IInv, Countdown
  <2> QED BY <1>1, <1>2, <2>1, <2>2, <2>3 DEF Countdown
<1>5. WakeIsSafe'
  BY <1>1, <1>2 DEF IInv, WakeIsSafe, flushes, waiting_wakers, SignalsIn
<1>6. CloseIsSafe'
  BY <1>1 DEF IInv, CloseIsSafe, joining
<1> QED BY <1>2, <1>3, <1>4, <1>5, <1>6 DEF Parts

(* The WakerTracker's own steps. *)
LEMMA WakerTrackerKeeps ==
  ASSUME IInv, HandleWakers \/ Wake \/ Recv
  PROVE  Parts'
<1> USE BoundsAssumption, CapacityAssumption
<1>1. /\ TypeOK /\ in_hand = 0 /\ in_hand' = 0
      /\ UNCHANGED <<ring, sent, before, late, clones, joining, status, loop, stream>>
  BY DEF IInv, HandleWakers, Wake, Recv, At, NotMine, TypeOK, drain
<1>2. /\ Removed' = Removed /\ RingIsWindow' /\ OutIsAccounted'
      /\ \A f \in Signals : Covered(f) => Covered(f)'
  BY <1>1 DEF IInv, Removed, RingIsWindow, OutIsAccounted, Covered, ring, stream
<1>3. /\ Removed \in Int /\ entry_count \in Nat /\ entries_before_wake \in Nat
      /\ \A f \in Signals : before[f] \in Nat
  BY <1>1 DEF TypeOK, Removed, IInv
<1>4. CASE HandleWakers
  <2> DEFINE left == SaturatingSub(entries_before_wake, entry_count)
  <2>1. /\ pc = "wakers" /\ signal' = signal /\ entry_count' = 0
        /\ \/ waiting_wakers # {} /\ entries_before_wake' = left
              /\ pc' = IF left = 0 \/ status = "Drained" THEN "wake_flush" ELSE "decide"
           \/ waiting_wakers = {} /\ pc' = "recv"
    BY <1>4 DEF HandleWakers, At, Goto, WakeNow
  <2>2. left \in Nat /\ left >= entries_before_wake - entry_count
    BY <1>3 DEF SaturatingSub
  <2>3. waiting_wakers' = waiting_wakers
    BY <2>1 DEF waiting_wakers, SignalsIn
  <2>4. \A f \in waiting_wakers : /\ before[f] - Removed <= left \/ before[f] <= Removed
                                  /\ left = 0 => before[f] <= Removed
                                  /\ status = "Drained" => before[f] <= Removed
    BY <1>1, <1>3, <2>1, <2>2 DEF IInv, Countdown, WakeIsSafe, waiting_wakers, SignalsIn
  <2>5. SignalsAreNumbered'
    BY <1>1, <2>1 DEF IInv, SignalsAreNumbered, ring, joining
  <2>6. Countdown'
    BY <1>1, <1>2, <1>3, <2>1, <2>2, <2>3, <2>4 DEF Countdown
  <2>7. WakeIsSafe'
    BY <1>1, <1>2, <2>1, <2>3, <2>4 DEF IInv, WakeIsSafe, SignalsIn
  <2>8. CloseIsSafe'
    BY <1>1, <1>2, <2>1 DEF IInv, CloseIsSafe, joining, clones, loop, SignalsIn
  <2> QED BY <1>2, <2>5, <2>6, <2>7, <2>8 DEF Parts
<1>5. CASE Wake
  <2>1. /\ pc = "wake" /\ pc' = "recv" /\ entry_count' = entry_count
        /\ signal' = [f \in Signals |-> IF signal[f] = "waiting" THEN "woken" ELSE signal[f]]
    BY <1>5 DEF Wake, At, Goto, AfterWake, drain
  <2>2. SignalsAreNumbered'
    BY <1>1, <2>1 DEF IInv, SignalsAreNumbered, ring, joining, TypeOK
  <2>3. Countdown' /\ WakeIsSafe'
    BY <1>1, <1>2, <2>1 DEF IInv, Countdown, WakeIsSafe, waiting_wakers, SignalsIn, TypeOK
  <2>4. CloseIsSafe'
    BY <1>1, <1>2, <2>1 DEF IInv, CloseIsSafe, joining, clones, loop, SignalsIn, TypeOK
  <2> QED BY <1>2, <2>2, <2>3, <2>4 DEF Parts
<1>6. CASE Recv
  <2>1. /\ pc = "recv" /\ entry_count' = entry_count /\ entry_count = 0
        /\ \/ pc' = "recv" /\ \E f \in SignalsIn("queued") :
                signal' = [signal EXCEPT ![f] = "waiting"]
           \/ /\ pc' = "decide" /\ signal' = signal
              /\ waiting_wakers # {} => entries_before_wake' = Capacity
    BY <1>6 DEF Recv, At, Goto, Patience, drain, IInv, Countdown
  <2>2. SignalsAreNumbered'
    BY <1>1, <2>1 DEF IInv, SignalsAreNumbered, ring, joining, TypeOK, SignalsIn
  <2>3. \A f \in Signals : before[f] - Removed <= Capacity
    BY <1>1, <1>3 DEF IInv, SignalsAreNumbered, RingIsWindow, Removed, TypeOK
  <2>4. Countdown'
    BY <1>1, <1>2, <1>3, <2>1, <2>3 DEF Countdown, waiting_wakers, SignalsIn
  <2>5. WakeIsSafe'
    BY <1>1, <1>2, <2>1 DEF IInv, WakeIsSafe, SignalsIn, TypeOK
  <2>6. CloseIsSafe'
    BY <1>1, <1>2, <2>1 DEF IInv, CloseIsSafe, joining, clones, loop, SignalsIn, TypeOK
  <2> QED BY <1>2, <2>2, <2>4, <2>5, <2>6 DEF Parts
<1> QED BY <1>4, <1>5, <1>6

(* The Receiver's remaining steps, and the clock. *)
LEMMA LoopKeeps ==
  ASSUME IInv, Decide \/ Park \/ Deadline \/ ExitCheck \/ DropWakers \/ Tick
  PROVE  Parts'
<1>1. /\ TypeOK /\ in_hand' = in_hand /\ entry_count' = entry_count
      /\ entries_before_wake' = entries_before_wake
      /\ UNCHANGED <<ring, sent, before, late, clones, joining, cut, stream>>
  BY DEF IInv, Decide, Park, Deadline, ExitCheck, DropWakers, Tick, NotMine, drain, flushes, loop
<1>2. /\ Removed' = Removed /\ RingIsWindow' /\ OutIsAccounted'
      /\ \A f \in Signals : Covered(f) => Covered(f)'
  BY <1>1 DEF IInv, Removed, RingIsWindow, OutIsAccounted, Covered, ring, stream
<1>3. CASE DropWakers
  <2>1. /\ pc = "drop_wakers" /\ pc' = "done" /\ closing' = closing /\ status' = status
        /\ signal' = [f \in Signals |-> IF signal[f] \in {"waiting", "queued"}
                                        THEN "dropped" ELSE signal[f]]
    BY <1>3 DEF DropWakers, DroppedWithTracker, At, Goto, loop, drain
  <2>2. SignalsAreNumbered'
    BY <1>1, <2>1 DEF IInv, SignalsAreNumbered, ring, joining, TypeOK
  <2>3. Countdown' /\ WakeIsSafe'
    BY <1>1, <1>2, <2>1 DEF IInv, Countdown, WakeIsSafe, waiting_wakers, SignalsIn, TypeOK
  <2>4. CloseIsSafe'
    BY <1>1, <1>2, <2>1 DEF IInv, CloseIsSafe, joining, clones, stream, ring, waiting_wakers,
       SignalsIn, TypeOK
  <2> QED BY <1>2, <2>2, <2>3, <2>4 DEF Parts
<1>4. CASE Decide \/ Park \/ Deadline \/ ExitCheck \/ Tick
  <2>1. /\ signal' = signal
        /\ \/ pc = "decide" /\ pc' \in {"flush", "deadline", "park"} /\ closing' = closing
           \/ pc = "park" /\ pc' = "deadline" /\ closing' = closing
           \/ pc = "deadline" /\ pc' \in {"flush", "pop"} /\ closing' = closing
           \/ pc = "exit_check" /\ pc' = "pop" /\ (closing' => shutdown_signal \/ owners = {})
           \/ pc' = pc /\ closing' = closing /\ status' = status
    BY <1>4 DEF Decide, Park, Deadline, ExitCheck, Tick, NextLoopAction, ShutDownLabel,
       ExitRequested, At, Goto, flushes, loop, drain
  <2>2. SignalsAreNumbered'
    BY <1>1, <2>1 DEF IInv, SignalsAreNumbered, ring, joining
  <2>3. Countdown'
    BY <1>1, <1>2, <2>1 DEF IInv, Countdown, waiting_wakers, SignalsIn
  <2>4. WakeIsSafe'
    BY <1>1, <1>2, <2>1 DEF IInv, WakeIsSafe, waiting_wakers, SignalsIn
  <2>5. CloseIsSafe'
    BY <1>1, <1>2, <2>1 DEF IInv, CloseIsSafe, joining, clones, stream, ring, waiting_wakers,
       SignalsIn
  <2> QED BY <1>2, <2>2, <2>3, <2>4, <2>5 DEF Parts
<1> QED BY <1>3, <1>4

(* flush_async: the new signal is queued, or refused, and no other moves. *)
LEMMA FlushAsyncKeeps ==
  ASSUME IInv, NEW t \in Appenders, FlushAsync(t)
  PROVE  Parts'
<1> USE BoundsAssumption
<1>1. /\ TypeOK /\ sent + 1 \in Signals /\ sent' = sent + 1 /\ t \in owners
      /\ signal' = [signal EXCEPT ![sent + 1] = IF pc = "done" THEN "refused" ELSE "queued"]
      /\ before' = [before EXCEPT ![sent + 1] = pushed]
      /\ late' = IF closing THEN late \cup {sent + 1} ELSE late
      /\ UNCHANGED <<ring, owners, joining, pc, drain, loop, entries_before_wake, stream>>
  <2>1. TypeOK
    BY DEF IInv
  <2>2. sent \in 0..MaxFlushes /\ sent < MaxFlushes
    BY <2>1 DEF TypeOK, FlushAsync
  <2>3. sent + 1 \in Signals
    BY <2>2 DEF Signals
  <2> QED BY <2>1, <2>3, Zenon DEF FlushAsync, Idle
<1>2. Removed' = Removed /\ RingIsWindow' /\ OutIsAccounted'
  BY <1>1 DEF IInv, Removed, RingIsWindow, OutIsAccounted, ring, stream, drain
<1>3. /\ signal[sent + 1] = "unsent"
      /\ signal'[sent + 1] \in {"queued", "refused"} /\ (closing => sent + 1 \in late')
      /\ \A f \in Signals : f # sent + 1 => /\ signal'[f] = signal[f] /\ before'[f] = before[f]
                                            /\ Covered(f) => Covered(f)'
                                            /\ f \in late => f \in late'
  BY <1>1 DEF IInv, SignalsAreNumbered, TypeOK, Covered, ring, stream
<1>4. SignalsAreNumbered'
  <2>1. sent \in Nat /\ late' \subseteq 1..sent'
    <3>1. sent \in Nat /\ late \subseteq 1..sent
      BY <1>1 DEF IInv, TypeOK, SignalsAreNumbered
    <3>2. late' \subseteq late \cup {sent + 1}
      BY <1>1
    <3> QED BY <1>1, <3>1, <3>2
  <2>2. \A f \in Signals : /\ f \in Int
                           /\ signal'[f] = "unsent" <=> f > sent'
                           /\ before'[f] <= pushed'
    BY <1>1, <1>3, <2>1 DEF IInv, SignalsAreNumbered, TypeOK, Signals, ring
  <2> QED BY <1>1, <2>1, <2>2 DEF IInv, SignalsAreNumbered, ring, joining
<1>5. Countdown'
  BY <1>1, <1>2, <1>3 DEF IInv, Countdown, drain, waiting_wakers, SignalsIn
<1>6. WakeIsSafe'
  BY <1>1, <1>2, <1>3 DEF IInv, WakeIsSafe, drain, waiting_wakers, SignalsIn
<1>7. CloseIsSafe'
  BY <1>1, <1>2, <1>3 DEF IInv, CloseIsSafe, joining, loop, ring, stream, waiting_wakers,
     SignalsIn
<1> QED BY <1>2, <1>4, <1>5, <1>6, <1>7 DEF Parts

(* The other steps of the appenders and of the handle. *)
LEMMA OutsideKeeps ==
  ASSUME IInv,
         \/ Handle
         \/ \E t \in Appenders : \/ Overflow(t) \/ Unpark(t) \/ DropQueue(t)
                                 \/ \E u \in Appenders : Clone(t, u)
  PROVE  Parts'
<1> USE BoundsAssumption
<1>1. /\ TypeOK
      /\ UNCHANGED <<ring, flushes, pc, drain, loop, entries_before_wake, stream>>
  BY DEF IInv, Handle, HandleStore, HandleUnpark, HandleJoin, HandleForget, Overflow, Unpark,
     DropQueue, Clone
<1>2. /\ Removed' = Removed /\ RingIsWindow' /\ OutIsAccounted'
      /\ \A f \in Signals : Covered(f) => Covered(f)'
  BY <1>1 DEF IInv, Removed, RingIsWindow, OutIsAccounted, Covered, ring, stream, drain, flushes
<1>3. Countdown' /\ WakeIsSafe'
  BY <1>1, <1>2 DEF IInv, Countdown, WakeIsSafe, drain, flushes, waiting_wakers, SignalsIn
<1>4. \/ handle = "held" /\ shutdown_signal' /\ handle' = "stored" /\ at_signal' = pushed
         /\ owners' = owners
      \/ /\ shutdown_signal' = shutdown_signal /\ at_signal' = at_signal /\ owners' = owners
         /\ \/ handle = "held" /\ handle' = "forgotten"
            \/ handle = "stored" /\ handle' = "joining"
            \/ handle = "joining" /\ handle' \in {"joined", "join_panicked"} /\ pc = "done"
      \/ /\ UNCHANGED joining
         /\ owners = {} => owners' = {}
  BY DEF Handle, HandleStore, HandleUnpark, HandleJoin, HandleForget, Overflow, Unpark,
     DropQueue, Clone, Idle, clones
<1>5. SignalsAreNumbered'
  BY <1>1, <1>4 DEF IInv, SignalsAreNumbered, TypeOK, ring, flushes, joining
<1>6. CloseIsSafe'
  BY <1>1, <1>2, <1>4 DEF IInv, CloseIsSafe, SignalsAreNumbered, TypeOK, ring, flushes, loop,
     stream, joining, waiting_wakers, SignalsIn
<1> QED BY <1>2, <1>3, <1>5, <1>6 DEF Parts

(* The inductive step of the invariant, one case per part of Next. *)
LEMMA IInvStep == IInv /\ [Next]_vars => IInv'
<1> SUFFICES ASSUME IInv, [Next]_vars PROVE Parts'
  BY TypeStep DEF IInv, Parts
<1>1. CASE Receiver
  BY <1>1, PopKeeps, ConsumeKeeps, FlushKeeps, PanicKeeps, WakerTrackerKeeps,
     LoopKeeps DEF Receiver
<1>2. CASE Tick
  BY <1>2, LoopKeeps
<1>3. CASE Handle
  BY <1>3, OutsideKeeps
<1>4. ASSUME NEW t \in Appenders, Appender(t) PROVE Parts'
  BY <1>4, PushKeeps, FlushAsyncKeeps, OutsideKeeps DEF Appender
<1>5. CASE UNCHANGED vars
  BY <1>5 DEF vars, IInv, Parts, RingIsWindow, Removed, OutIsAccounted, SignalsAreNumbered,
     Countdown, WakeIsSafe, CloseIsSafe, Covered, waiting_wakers, SignalsIn, ring, flushes,
     clones, joining, drain, loop, stream
<1> QED BY <1>1, <1>2, <1>3, <1>4, <1>5 DEF Next

(* do_build's state satisfies the inductive invariant. *)
LEMMA IInvInit == Init => IInv
<1> SUFFICES ASSUME Init PROVE TypeOK /\ Parts
  BY DEF IInv, Parts
<1>1. TypeOK
  BY TypeInit
<1>2. queue = <<>> /\ Len(queue) = 0 /\ pushed = 0 /\ Removed = 0
  <2>1. queue = <<>>
    BY DEF Init
  <2>2. pushed = 0
    BY DEF Init
  <2>3. Len(queue) = 0
    BY <2>1
  <2>4. Removed = 0
    BY <2>2, <2>3 DEF Removed
  <2> QED BY <2>1, <2>2, <2>3, <2>4
<1>3. RingIsWindow /\ OutIsAccounted
  BY <1>2, CapacityAssumption DEF Init, RingIsWindow, OutIsAccounted
<1>4. \A f \in Signals : signal[f] = "unsent" /\ before[f] = 0 /\ f > 0
  BY DEF Init, Signals
<1>5. SignalsAreNumbered /\ Countdown /\ WakeIsSafe /\ CloseIsSafe
  BY <1>2, <1>4 DEF Init, SignalsAreNumbered, Countdown, WakeIsSafe, CloseIsSafe,
     waiting_wakers, SignalsIn
<1> QED BY <1>1, <1>3, <1>5 DEF Parts

(* In every reachable state of the background queue, a flush the thread       *)
(* resolves covers every entry appended before it (S1), unless it came after   *)
(* shut_down began or the thread was cut short.                               *)
THEOREM FlushIsSafe == Spec => []FlushSafety
<1>1. IInv => FlushSafety
  BY DEF IInv, FlushSafety, WakeIsSafe, CloseIsSafe, SignalsIn
<1> QED BY <1>1, IInvInit, IInvStep, PTL DEF Spec

(* When the background thread is done, what was appended before the shutdown   *)
(* was asked for (or at all, when the last appender's drop ends it) has been   *)
(* written and flushed, or thrown out of the full ring.                       *)
THEOREM ShutdownIsSafe == Spec => []ShutdownDrains
<1>1. IInv => ShutdownDrains
  BY DEF IInv, ShutdownDrains, CloseIsSafe
<1> QED BY <1>1, IInvInit, IInvStep, PTL DEF Spec

-----------------------------------------------------------------------------
(* A step that leaves the mapped state alone is a stutter of the EntrySink. *)
LEMMA Stutter ==
  ASSUME UNCHANGED <<ring, in_hand, stream, before, shutdown_signal, at_signal>>,
         SinkWait' = SinkWait, SinkLife' = SinkLife
  PROVE  [Sink!Next]_(Sink!vars)
BY DEF Sink!vars, Sink!contents, Sink!requests, Sink!shutdown, ring, stream

(* The mapped state at the start: nothing appended, nobody waiting. *)
LEMMA SinkInit == Init => Sink!Init
BY DEF Init, Sink!Init, SinkWait, SinkLife

(* Inner::push appends, dropping the oldest entry of a full ring. *)
LEMMA PushAppends ==
  ASSUME IInv, NEW t \in Appenders, Push(t)
  PROVE  Sink!Next
<1>1. Len(queue) \in Nat /\ Len(queue) <= Capacity
  BY DEF IInv, RingIsWindow, TypeOK
<1>2. SinkWait' = SinkWait /\ SinkLife' = SinkLife
  BY DEF Push, SinkWait, SinkLife, Resolved, flushes, loop
<1>3. Sink!AppendEntry
  <2>1. CASE Len(queue) < Capacity
    <3>1. queue' = Append(queue, pushed + 1) /\ evicted' = evicted
      BY <2>1 DEF Push, ForcePush, Displaced
    <3> QED BY <1>2, <2>1, <3>1 DEF Push, Sink!AppendEntry, Sink!requests, Sink!shutdown,
          flushes, joining, drain, stream
  <2>2. CASE Len(queue) = Capacity
    <3>1. queue' = Append(Tail(queue), pushed + 1) /\ evicted' = evicted \cup {Head(queue)}
      BY <2>2, CapacityAssumption DEF Push, ForcePush, Displaced
    <3> QED BY <1>2, <2>2, <3>1 DEF Push, Sink!AppendEntry, Sink!requests, Sink!shutdown,
          flushes, joining, drain, stream
  <2> QED BY <1>1, <2>1, <2>2, CapacityAssumption
<1> QED BY <1>3 DEF Sink!Next

(* The drain takes the oldest entry and hands it to the stream. *)
LEMMA DrainTakesAndWrites ==
  ASSUME IInv, Pop \/ \E o \in Outcomes : Consume(o)
  PROVE  [Sink!Next]_(Sink!vars)
<1>1. SinkWait' = SinkWait /\ UNCHANGED <<before, shutdown_signal, at_signal>>
  BY DEF Pop, Consume, SinkWait, Resolved, flushes, NotMine, joining
<1>2. CASE Pop
  <2>1. SinkLife' = SinkLife
    BY <1>2 DEF Pop, SinkLife, loop, At, Goto, AfterDrain
  <2>2. in_hand = 0
    BY <1>2 DEF IInv, TypeOK, Pop, At
  <2>3. CASE queue # <<>>
    <3>1. Sink!Take
      BY <1>1, <1>2, <2>1, <2>2, <2>3 DEF Pop, Sink!Take, Sink!requests, Sink!shutdown, stream
    <3> QED BY <3>1 DEF Sink!Next
  <2>4. CASE queue = <<>>
    BY <1>1, <1>2, <2>1, <2>4, Stutter DEF Pop, ring, stream
  <2> QED BY <2>3, <2>4
<1>3. ASSUME NEW o \in Outcomes, Consume(o) PROVE Sink!Next
  <2>1. SinkLife' \in {SinkLife, "cut"}
    BY <1>3 DEF Consume, SinkLife, At, Goto, AfterDrain
  <2>2. in_hand # 0
    BY <1>3 DEF IInv, TypeOK, Consume, At, Entries
  <2>3. Sink!Write
    BY <1>1, <1>3, <2>1, <2>2 DEF Consume, Sink!Write, Sink!requests, Sink!shutdown, ring
  <2> QED BY <2>3 DEF Sink!Next
<1> QED BY <1>2, <1>3

(* flush_stream makes what was written durable. *)
LEMMA FlushPersists ==
  ASSUME IInv, NEW fails \in BOOLEAN, WakeFlush(fails) \/ Flush(fails) \/ FinalFlush(fails)
  PROVE  Sink!Next
<1>1. SinkWait' = SinkWait /\ SinkLife' = SinkLife
  BY DEF WakeFlush, Flush, FinalFlush, FlushStream, SinkWait, SinkLife, Resolved, flushes, loop,
     At, Goto
<1>2. in_hand = 0
  BY DEF IInv, TypeOK, WakeFlush, Flush, FinalFlush, At
<1>3. Sink!Persist
  BY <1>1, <1>2 DEF WakeFlush, Flush, FinalFlush, FlushStream, Sink!Persist, Sink!requests,
     Sink!shutdown, NotMine, joining, ring, flushes, drain
<1> QED BY <1>3 DEF Sink!Next

(* A panic of the stream cuts the sink short, in a write or between two. *)
LEMMA PanicCutsShort ==
  ASSUME IInv, Panic
  PROVE  Sink!Next
<1>1. SinkWait' = SinkWait /\ SinkLife' = "cut" /\ SinkLife # "stopped"
  BY DEF Panic, SinkWait, SinkLife, Resolved, flushes
<1>2. CASE pc = "consume"
  <2>1. in_hand # 0
    BY <1>2 DEF IInv, TypeOK, Entries
  <2>2. Sink!Write
    BY <1>1, <1>2, <2>1 DEF Panic, At, Sink!Write, Sink!requests, Sink!shutdown, NotMine,
       joining, ring, flushes
  <2> QED BY <2>2 DEF Sink!Next
<1>3. CASE pc # "consume"
  <2>1. in_hand = 0
    BY <1>3 DEF IInv, TypeOK
  <2>2. Sink!CutShort
    BY <1>1, <1>3, <2>1 DEF Panic, At, Sink!CutShort, Sink!contents, Sink!requests,
       Sink!shutdown, NotMine, joining, ring, flushes
  <2> QED BY <2>2 DEF Sink!Next
<1> QED BY <1>2, <1>3

(* flush_async is a request, turned away once the thread is gone. *)
LEMMA FlushAsyncRequests ==
  ASSUME IInv, NEW t \in Appenders, FlushAsync(t)
  PROVE  Sink!Next
<1> DEFINE f == sent + 1
<1>1. f \in Signals /\ signal[f] = "unsent"
  BY BoundsAssumption DEF IInv, TypeOK, SignalsAreNumbered, FlushAsync, Signals
<1>2. SinkLife' = SinkLife /\ SinkWait[f] = "none"
  BY <1>1 DEF FlushAsync, SinkLife, SinkWait, loop
<1>3. /\ (cut # "no" => closing) /\ (pc = "done" => closing)
  BY DEF IInv, CloseIsSafe
<1>4. \A g \in Signals : g # f => SinkWait'[g] = SinkWait[g]
  BY <1>1 DEF FlushAsync, SinkWait, Resolved, IInv, TypeOK
<1>5. SinkWait'[f] = IF pc = "done" THEN "resolved" ELSE IF closing THEN "late" ELSE "waiting"
  <2>1. signal'[f] = IF pc = "done" THEN "refused" ELSE "queued"
    BY <1>1 DEF FlushAsync, IInv, TypeOK
  <2>2. pc # "done" /\ ~closing => f \notin late'
    <3>1. ~closing => late' = late
      BY DEF FlushAsync
    <3>2. f \notin late
      BY BoundsAssumption DEF IInv, TypeOK, SignalsAreNumbered
    <3> QED BY <3>1, <3>2
  <2>3. closing => f \in late'
    BY DEF FlushAsync
  <2> QED BY <1>1, <2>1, <2>2, <2>3 DEF SinkWait, Resolved
<1>6. SinkWait' = [SinkWait EXCEPT ![f] = SinkWait'[f]]
  BY <1>1, <1>4 DEF SinkWait
<1>7. CASE pc = "done" /\ cut # "no"
  <2>1. Sink!Refuse(f)
    BY <1>1, <1>2, <1>5, <1>6, <1>7 DEF FlushAsync, Sink!Refuse, Sink!contents, Sink!shutdown,
       SinkLife, ring, joining, drain, stream
  <2> QED BY <1>1, <2>1 DEF Sink!Next
<1>8. CASE ~(pc = "done" /\ cut # "no")
  <2>1. SinkWait'[f] = IF SinkLife = "open" THEN "waiting"
                       ELSE IF SinkLife = "stopped" THEN "resolved" ELSE "late"
    BY <1>3, <1>5, <1>8 DEF SinkLife
  <2>2. Sink!Request(f)
    BY <1>1, <1>2, <1>6, <2>1 DEF FlushAsync, Sink!Request, Sink!contents, Sink!shutdown,
       ring, joining, drain, stream
  <2> QED BY <1>1, <2>2 DEF Sink!Next
<1> QED BY <1>7, <1>8

(* The wakers the WakerTracker clears, and the signals that go down with it.  *)
LEMMA WakersResolve ==
  ASSUME IInv, Wake \/ DropWakers
  PROVE  Sink!Next
<1> DEFINE Gone == IF pc = "wake" THEN waiting_wakers ELSE SignalsIn("queued") \cup waiting_wakers
<1>1. /\ UNCHANGED <<ring, in_hand, stream, before, late, joining, loop>>
      /\ \/ pc = "wake" /\ pc' = "recv"
         \/ pc = "drop_wakers" /\ pc' = "done"
  BY DEF Wake, DropWakers, NotMine, drain, At, Goto, AfterWake
<1>2. /\ signal \in [Signals -> SignalStates]
      /\ \A f \in Signals : signal'[f] = IF f \in Gone
                                         THEN IF pc = "wake" THEN "woken" ELSE "dropped"
                                         ELSE signal[f]
  BY DEF IInv, TypeOK, Wake, DropWakers, DroppedWithTracker, waiting_wakers, SignalsIn, At
<1>3. SinkWait' = [f \in Signals |-> IF f \in Gone THEN "resolved" ELSE SinkWait[f]]
  BY <1>1, <1>2 DEF SinkWait, Resolved
<1>4. Gone \subseteq Sink!Pending
  BY DEF Sink!Pending, SinkWait, Resolved, waiting_wakers, SignalsIn
<1>5. \A f \in Signals : Covered(f) => Sink!MayResolve(f)
  BY DEF Covered, Sink!MayResolve, Sink!Settled
<1>6. \A f \in Signals : f \in late => Sink!MayResolve(f)
  BY DEF Sink!MayResolve, SinkWait
<1>7. SinkLife # "cut" => \A f \in Gone : Sink!MayResolve(f)
  BY <1>1, <1>5, <1>6 DEF IInv, WakeIsSafe, CloseIsSafe, SinkLife, waiting_wakers, SignalsIn
<1>8. Sink!Resolved(Gone)
  BY <1>3 DEF Sink!Resolved
<1>9. CASE pc = "wake" \/ cut # "no"
  <2>1. SinkLife' = SinkLife
    BY <1>1, <1>9 DEF SinkLife, loop
  <2>2. Sink!Resolve(Gone)
    BY <1>1, <1>4, <1>7, <1>8, <2>1 DEF Sink!Resolve, Sink!contents, Sink!shutdown, ring,
       stream, joining
  <2>3. Gone \in SUBSET Signals
    BY DEF waiting_wakers, SignalsIn
  <2> QED BY <2>2, <2>3 DEF Sink!Next
<1>10. CASE pc = "drop_wakers" /\ cut = "no"
  <2>1. SinkLife = "closing" /\ SinkLife' = "stopped"
    BY <1>1, <1>10 DEF SinkLife, loop, IInv, CloseIsSafe
  <2>2. Gone = Sink!Pending
    <3>1. \A f \in Signals : signal[f] \in SignalStates
      BY <1>2
    <3>2. Sink!Pending \subseteq Gone
      BY <1>10, <3>1 DEF Sink!Pending, SinkWait, Resolved, waiting_wakers, SignalsIn, SignalStates
    <3> QED BY <1>4, <3>2
  <2>3. Sink!Settled(IF shutdown_signal THEN at_signal ELSE pushed)
    BY <1>10 DEF IInv, CloseIsSafe, Sink!Settled
  <2>4. Sink!Stop
    BY <1>1, <1>7, <1>8, <2>1, <2>2, <2>3 DEF Sink!Stop, Sink!contents, Sink!shutdown, ring,
       stream, joining
  <2> QED BY <2>4 DEF Sink!Next
<1> QED BY <1>1, <1>9, <1>10

(* run's remaining steps: one may close the sink, none moves an entry. *)
LEMMA LoopCloses ==
  ASSUME IInv, HandleWakers \/ Recv \/ Decide \/ Park \/ Deadline \/ ExitCheck \/ Tick
  PROVE  [Sink!Next]_(Sink!vars)
<1>1. /\ UNCHANGED <<ring, in_hand, stream, before, late, joining, cut>>
      /\ pc # "done" /\ pc' # "done"
  BY DEF HandleWakers, Recv, Decide, NextLoopAction, Park, Deadline, ExitCheck, ShutDownLabel,
     Tick, NotMine, drain, loop, flushes, At, Goto
<1>2. SinkWait' = SinkWait
  <2>1. CASE Recv
    <3>1. \/ signal' = signal
          \/ \E f \in SignalsIn("queued") : signal' = [signal EXCEPT ![f] = "waiting"]
      BY <2>1 DEF Recv
    <3>2. \A f \in Signals : /\ signal'[f] = "unsent" <=> signal[f] = "unsent"
                             /\ Resolved(f)' <=> Resolved(f)
      BY <3>1 DEF SignalsIn, Resolved, IInv, TypeOK
    <3> QED BY <1>1, <3>2 DEF SinkWait
  <2>2. CASE HandleWakers \/ Decide \/ Park \/ Deadline \/ ExitCheck \/ Tick
    <3>1. signal' = signal
      BY <2>2 DEF HandleWakers, Decide, Park, Deadline, ExitCheck, Tick, flushes
    <3> QED BY <1>1, <3>1 DEF SinkWait, Resolved
  <2> QED BY <2>1, <2>2
<1>3. CASE ExitCheck
  <2>1. ~closing /\ cut = "no"
    BY <1>3 DEF IInv, CloseIsSafe, ExitCheck, At
  <2>2. CASE closing'
    <3>1. SinkLife = "open" /\ SinkLife' = "closing"
      BY <1>1, <2>1, <2>2 DEF SinkLife
    <3>2. Sink!Close
      BY <1>1, <1>2, <3>1 DEF Sink!Close, Sink!contents, Sink!requests, Sink!shutdown, ring,
         stream, joining
    <3> QED BY <3>2 DEF Sink!Next
  <2>3. CASE ~closing'
    <3>1. SinkLife' = SinkLife
      BY <1>1, <2>1, <2>3 DEF SinkLife
    <3> QED BY <1>1, <1>2, <3>1, Stutter DEF joining
  <2> QED BY <2>2, <2>3
<1>4. CASE HandleWakers \/ Recv \/ Decide \/ Park \/ Deadline \/ Tick
  <2>1. closing' = closing
    BY <1>4 DEF HandleWakers, Recv, Decide, Park, Deadline, Tick, loop
  <2>2. SinkLife' = SinkLife
    BY <1>1, <2>1 DEF SinkLife
  <2> QED BY <1>1, <1>2, <2>2, Stutter DEF joining
<1> QED BY <1>3, <1>4

(* The handle's store asks for the shutdown; the rest is not the sink's.      *)
LEMMA OutsideAsks ==
  ASSUME IInv,
         \/ Handle
         \/ \E t \in Appenders : \/ Overflow(t) \/ Unpark(t) \/ DropQueue(t)
                                 \/ \E u \in Appenders : Clone(t, u)
  PROVE  [Sink!Next]_(Sink!vars)
<1>1. UNCHANGED <<ring, flushes, pc, drain, loop, stream>>
  BY DEF Handle, HandleStore, HandleUnpark, HandleJoin, HandleForget, Overflow, Unpark,
     DropQueue, Clone
<1>2. SinkWait' = SinkWait /\ SinkLife' = SinkLife
  BY <1>1 DEF SinkWait, SinkLife, Resolved, flushes, loop
<1>3. CASE HandleStore
  <2>1. shutdown_signal = FALSE
    BY <1>3 DEF IInv, TypeOK, SignalsAreNumbered, HandleStore
  <2>2. Sink!Ask
    BY <1>1, <1>2, <1>3, <2>1 DEF HandleStore, Sink!Ask, Sink!contents, Sink!requests, ring,
       flushes, drain, stream
  <2> QED BY <2>2 DEF Sink!Next
<1>4. CASE ~HandleStore
  <2>1. UNCHANGED <<shutdown_signal, at_signal>>
    BY <1>4 DEF Handle, HandleUnpark, HandleJoin, HandleForget, Overflow, Unpark, DropQueue,
       Clone, joining
  <2> QED BY <1>1, <1>2, <2>1, Stutter DEF flushes, drain
<1> QED BY <1>3, <1>4

(* The background queue implements the EntrySink contract: for every capacity, *)
(* set of appenders and stream behaviour, each of its steps is a step the      *)
(* contract allows, or one it cannot see.                                     *)
THEOREM QueueIsAnEntrySink == Spec => ImplementsEntrySink
<1>1. IInv /\ [Next]_vars => [Sink!Next]_(Sink!vars)
  <2> SUFFICES ASSUME IInv, [Next]_vars PROVE [Sink!Next]_(Sink!vars)
    OBVIOUS
  <2>1. CASE Receiver
    BY <2>1, DrainTakesAndWrites, FlushPersists, PanicCutsShort, WakersResolve, LoopCloses
       DEF Receiver
  <2>2. CASE Tick
    BY <2>2, LoopCloses
  <2>3. CASE Handle
    BY <2>3, OutsideAsks
  <2>4. ASSUME NEW t \in Appenders, Appender(t) PROVE [Sink!Next]_(Sink!vars)
    BY <2>4, PushAppends, FlushAsyncRequests, OutsideAsks DEF Appender
  <2>5. CASE UNCHANGED vars
    <3>1. UNCHANGED <<ring, in_hand, stream, before, shutdown_signal, at_signal>>
      BY <2>5 DEF vars, drain, flushes, joining
    <3>2. SinkWait' = SinkWait /\ SinkLife' = SinkLife
      BY <2>5 DEF vars, SinkWait, SinkLife, Resolved, flushes, loop
    <3> QED BY <3>1, <3>2, Stutter
  <2> QED BY <2>1, <2>2, <2>3, <2>4, <2>5 DEF Next
<1> QED BY <1>1, SinkInit, IInvInit, IInvStep, PTL DEF Spec, ImplementsEntrySink, Sink!Spec

-----------------------------------------------------------------------------
(* The wakeups. *)

(* Only the park takes the token, and only an unpark ends a caller's duty. *)
LEMMA PendingStays ==
  ASSUME TypeOK, WakeupPending, [Next]_vars, ~Park
  PROVE  WakeupPending'
<1>1. CASE token
  <2>1. token'
    BY <1>1 DEF Next, Receiver, Handle, Appender, Pop, HandleWakers, Wake, Recv, Decide,
       Deadline, ExitCheck, DropWakers, Panic, Consume, WakeFlush, Flush, FinalFlush,
       FlushStream, Tick, HandleStore, HandleUnpark, HandleJoin, HandleForget, Push, Overflow,
       FlushAsync, Unpark, DropQueue, Clone, Token, vars
  <2> QED BY <2>1 DEF WakeupPending
<1>2. CASE \E t \in Appenders : doing[t] \in {"overflow", "unpark"}
  <2>1. PICK t \in Appenders : doing[t] \in {"overflow", "unpark"}
    BY <1>2
  <2>2. CASE UNCHANGED doing
    BY <2>1, <2>2 DEF WakeupPending
  <2>3. ASSUME NEW u \in Appenders, Appender(u), doing' # doing
        PROVE WakeupPending'
    <3>1. CASE Unpark(u)
      BY <3>1 DEF Unpark, Token, WakeupPending
    <3>2. CASE ~Unpark(u)
      <4>1. doing'[u] \in {"overflow", "unpark"}
        BY <2>3, <3>2 DEF Appender, Push, Overflow, FlushAsync, DropQueue, Clone, Does, TypeOK
      <4> QED BY <4>1 DEF WakeupPending
    <3> QED BY <3>1, <3>2
  <2>4. UNCHANGED doing \/ \E u \in Appenders : Appender(u)
    BY DEF Next, Receiver, Handle, Pop, HandleWakers, Wake, Recv, Decide, Park,
       Deadline, ExitCheck, DropWakers, Panic, Consume, WakeFlush, Flush, FinalFlush,
       FlushStream, Tick, HandleStore, HandleUnpark, HandleJoin, HandleForget, NotMine, clones,
       vars
  <2> QED BY <2>2, <2>3, <2>4
<1> QED BY <1>1, <1>2 DEF WakeupPending

(* What an appender does to the ring, to the channel and to its own duty. *)
LEMMA AppendersWakeUp ==
  ASSUME TypeOK, NEW t \in Appenders, Appender(t)
  PROVE  /\ UNCHANGED <<pc, status, handle, shutdown_signal>>
         /\ token => token'
         /\ WakeupPending' \/ UNCHANGED <<queue, signal>>
<1>1. CASE Push(t) \/ FlushAsync(t)
  <2>1. doing'[t] \in {"overflow", "unpark"}
    BY <1>1 DEF Push, FlushAsync, Does, TypeOK
  <2> QED BY <1>1, <2>1 DEF Push, FlushAsync, WakeupPending, joining, drain
<1>2. CASE ~Push(t) /\ ~FlushAsync(t)
  BY <1>2 DEF Appender, Overflow, Unpark, DropQueue, Clone, Token, joining, drain, ring, flushes
<1> QED BY <1>1, <1>2

(* No step loses a wakeup. *)
LEMMA WakeupStep == TypeOK /\ WakeupsAreKept /\ [Next]_vars => WakeupsAreKept'
<1> SUFFICES ASSUME TypeOK, WakeupsAreKept, [Next]_vars PROVE WakeupsAreKept'
  OBVIOUS
<1>1. ASSUME NEW t \in Appenders, Appender(t) PROVE WakeupsAreKept'
  <2>1. /\ UNCHANGED <<pc, status, handle, shutdown_signal>>
        /\ token => token'
        /\ WakeupPending' \/ UNCHANGED <<queue, signal>>
    BY <1>1, AppendersWakeUp
  <2>2. ~Park
    BY <2>1 DEF Park, At, Goto
  <2>3. WakeupPending => WakeupPending'
    BY <2>2, PendingStays
  <2>4. CASE WakeupPending'
    BY <2>1, <2>4 DEF WakeupsAreKept
  <2>5. CASE UNCHANGED <<queue, signal>>
    BY <2>1, <2>3, <2>5 DEF WakeupsAreKept, SignalsIn, waiting_wakers
  <2> QED BY <2>1, <2>4, <2>5
<1>2. CASE Handle
  <2>1. UNCHANGED <<queue, signal, pc, status>> /\ (token => token')
    BY <1>2 DEF Handle, HandleStore, HandleUnpark, HandleJoin, HandleForget, Token, ring,
       flushes, drain
  <2>2. WakeupPending => WakeupPending'
    BY <1>2, <2>1 DEF Handle, HandleStore, HandleUnpark, HandleJoin, HandleForget, clones,
       WakeupPending
  <2>3. shutdown_signal' => \/ handle' = "stored"
                            \/ shutdown_signal /\ (handle = "stored" => token')
    BY <1>2 DEF Handle, HandleStore, HandleUnpark, HandleJoin, HandleForget, Token
  <2> QED BY <2>1, <2>2, <2>3 DEF WakeupsAreKept, SignalsIn, waiting_wakers
<1>3. CASE Park
  BY <1>3 DEF Park, WakeupsAreKept, Goto
<1>4. CASE Receiver /\ ~Park
  <2>1. WakeupPending => WakeupPending'
    BY <1>4, PendingStays
  <2>2. UNCHANGED <<token, handle, shutdown_signal>>
    BY <1>4 DEF Receiver, Pop, HandleWakers, Wake, Recv, Decide,
       Deadline, ExitCheck, DropWakers, Panic, Consume, WakeFlush, Flush, FinalFlush,
       FlushStream, NotMine, joining
  <2>3. CASE Pop
    BY <2>1, <2>3 DEF Pop, AfterDrain, WakeupsAreKept, Goto
  <2>4. CASE HandleWakers
    BY <2>1, <2>4 DEF HandleWakers, At, Goto, WakeupsAreKept, SignalsIn, waiting_wakers, ring
  <2>5. CASE Wake
    BY <2>1, <2>5 DEF Wake, AfterWake, At, Goto, WakeupsAreKept, drain, ring
  <2>6. CASE Recv
    BY <2>1, <2>6 DEF Recv, At, Goto, WakeupsAreKept, SignalsIn, waiting_wakers, drain, ring
  <2>7. CASE Decide
    BY <2>1, <2>2, <2>7 DEF Decide, NextLoopAction, At, Goto, WakeupsAreKept, SignalsIn,
       waiting_wakers, drain, ring, flushes, TypeOK
  <2>8. CASE \E fails \in BOOLEAN : WakeFlush(fails)
    BY <2>1, <2>8 DEF WakeFlush, FlushStream, At, Goto, WakeupsAreKept, drain, ring
  <2>9. CASE pc' \notin {"wakers", "wake_flush", "wake", "recv", "decide", "park"}
    BY <2>9 DEF WakeupsAreKept
  <2>10. ASSUME NEW o \in Outcomes, Consume(o) PROVE WakeupsAreKept'
    BY <2>10 DEF Consume, AfterDrain, Goto, WakeupsAreKept
  <2> QED BY <1>4, <2>3, <2>4, <2>5, <2>6, <2>7, <2>8, <2>9, <2>10 DEF Receiver, Deadline,
        ExitCheck, ShutDownLabel, DropWakers, Panic, Flush, FinalFlush, Goto
<1>5. CASE Tick \/ UNCHANGED vars
  BY <1>5 DEF Tick, vars, WakeupsAreKept, WakeupPending, SignalsIn, waiting_wakers, NotMine,
     clones, joining, drain, ring, flushes
<1> QED BY <1>1, <1>2, <1>3, <1>4, <1>5 DEF Next

(* No wakeup is lost between the background thread's last look at the ring,   *)
(* at the channel and at the shutdown signal and its park: a thread that is    *)
(* parked without a token and has work has an unpark on its way.               *)
THEOREM WakeupsAreNotLost == Spec => []NoLostWakeup
<1>1. Init => WakeupsAreKept
  BY DEF Init, WakeupsAreKept
<1>2. WakeupsAreKept => NoLostWakeup
  BY DEF WakeupsAreKept, WakeupPending, NoLostWakeup
<1> QED BY <1>1, <1>2, TypeCorrect, WakeupStep, PTL DEF Spec

-----------------------------------------------------------------------------
(* The counts. *)

(* Entries are numbered, so any set of them is finite. *)
LEMMA EntrySetsAreFinite ==
  ASSUME NEW S \in SUBSET Entries
  PROVE  IsFiniteSet(S) /\ Cardinality(S) \in Nat
<1>1. IsFiniteSet(Entries)
  BY BoundsAssumption, FS_Interval DEF Entries
<1> QED BY <1>1, FS_Subset, FS_CardinalityType

(* Adding up two tallies, and what an outcome adds: one for the entry and one  *)
(* for the report it writes besides.                                          *)
LEMMA TotalIsAdditive ==
  /\ Total(Zero) = 0
  /\ \A a \in [Counters -> Nat] : Total(a) \in Nat
  /\ \A a, b \in [Counters -> Nat] : Total(Plus(a, b)) = Total(a) + Total(b)
  /\ \A e, i, v \in Nat : Total(Tally(e, i, v)) = e + i + v
  /\ \A o \in Outcomes : /\ ReportsOf(o) \in Nat
                         /\ Total(EffectOf[o]) = 1 + ReportsOf(o)
<1>1. \A e, i, v \in Nat : Total(Tally(e, i, v)) = e + i + v
  BY DEF Total, Tally, Counters
<1>2. Total(Zero) = 0
  BY <1>1 DEF Zero
<1>3. /\ \A a \in [Counters -> Nat] : Total(a) \in Nat
      /\ \A a, b \in [Counters -> Nat] : Total(Plus(a, b)) = Total(a) + Total(b)
  BY DEF Total, Plus, Counters
<1>4. \A o \in Outcomes : /\ ReportsOf(o) \in Nat
                          /\ Total(EffectOf[o]) = 1 + ReportsOf(o)
  <2> TAKE o \in Outcomes
  <2>1. o \in {"ok", "io", "validation", "validation_reported", "validation_lost"}
    BY OutcomesAssumption DEF EffectOf
  <2>2. CASE o = "ok" BY <1>1, <2>2 DEF EffectOf, ReportsOf
  <2>3. CASE o = "io" BY <1>1, <2>3 DEF EffectOf, ReportsOf
  <2>4. CASE o = "validation" BY <1>1, <2>4 DEF EffectOf, ReportsOf
  <2>5. CASE o = "validation_reported" BY <1>1, <2>5 DEF EffectOf, ReportsOf
  <2>6. CASE o = "validation_lost" BY <1>1, <2>6 DEF EffectOf, ReportsOf
  <2> QED BY <2>1, <2>2, <2>3, <2>4, <2>5, <2>6
<1> QED BY <1>1, <1>2, <1>3, <1>4

(* A step that leaves the counted state alone keeps the counts. *)
LEMMA NothingCounted ==
  ASSUME CountsAgree,
         UNCHANGED <<ring, in_hand, consumed, tallies, cut, overflows, doing>>,
         \/ pc' \notin {"drop_wakers", "done"} /\ cut \notin Panics
         \/ pc \in {"drop_wakers", "done"} /\ pc' \in {"drop_wakers", "done"}
  PROVE  CountsAgree'
BY DEF CountsAgree, EntriesAddUp, WritesAddUp, EventsAddUp, Owing, ring, tallies

(* The push: the ring grows, or throws out an entry that is not yet counted as *)
(* thrown out; its event is then owed.                                        *)
LEMMA PushCounts ==
  ASSUME IInv, CountsAgree, NEW t \in Appenders, Push(t)
  PROVE  CountsAgree'
<1>1. /\ RingIsWindow /\ OutIsAccounted /\ queue \in Seq(Entries) /\ Len(queue) \in Nat
      /\ pushed \in Nat /\ evicted \subseteq Entries /\ consumed \subseteq Entries
      /\ doing \in [Appenders -> {"idle", "overflow", "unpark"}]
  BY DEF IInv, TypeOK
<1>2. /\ Cardinality(consumed) \in Nat /\ Cardinality(evicted) \in Nat
      /\ IsFiniteSet(evicted)
  BY <1>1, EntrySetsAreFinite
<1>3. /\ UNCHANGED <<in_hand, consumed, tallies, cut, overflows, pc>>
      /\ pushed' = pushed + 1 /\ doing[t] = "idle"
      /\ queue' = ForcePush(queue, pushed + 1)
      /\ evicted' = evicted \cup Displaced(queue)
      /\ doing' = [doing EXCEPT ![t] = IF Displaced(queue) # {} /\ HasObserver
                                       THEN "overflow" ELSE "unpark"]
  BY DEF Push, Idle, Does, drain, stream, loop
<1>4. Cardinality(evicted') + Len(queue') = Cardinality(evicted) + Len(queue) + 1
      /\ Cardinality(evicted') \in Nat /\ Len(queue') \in Nat
      /\ Cardinality(evicted') = Cardinality(evicted) + (IF Displaced(queue) = {} THEN 0 ELSE 1)
  <2>1. CASE Len(queue) < Capacity
    <3>1. Displaced(queue) = {} /\ Len(queue') = Len(queue) + 1
      BY <1>1, <1>3, <2>1 DEF Displaced, ForcePush
    <3> QED BY <1>1, <1>2, <1>3, <3>1
  <2>2. CASE ~(Len(queue) < Capacity)
    <3>1. Displaced(queue) = {queue[1]} /\ Len(queue') = Len(queue) /\ Len(queue) >= 1
      BY <1>1, <1>3, <2>2, CapacityAssumption DEF Displaced, ForcePush
    <3>2. queue[1] \notin evicted
      BY <1>1, <3>1 DEF RingIsWindow, OutIsAccounted, Removed
    <3>3. Cardinality(evicted') = Cardinality(evicted) + 1
      BY <1>2, <1>3, <3>1, <3>2, FS_AddElement
    <3> QED BY <1>1, <1>2, <3>1, <3>3
  <2> QED BY <2>1, <2>2
<1>5. EntriesAddUp'
  <2> DEFINE h == IF in_hand = 0 THEN 0 ELSE 1
  <2>1. h' = h /\ h \in Nat /\ consumed' = consumed /\ pushed' = pushed + 1
    BY <1>3
  <2>2. pushed = Len(queue) + h + Cardinality(consumed) + Cardinality(evicted)
    BY DEF CountsAgree, EntriesAddUp
  <2> HIDE DEF h
  <2>3. pushed' = Len(queue') + h + Cardinality(consumed) + Cardinality(evicted')
    <3>1. Len(queue) \in Nat /\ Cardinality(consumed) \in Nat /\ Cardinality(evicted) \in Nat
      BY <1>1, <1>2
    <3>2. /\ Len(queue') \in Nat /\ Cardinality(evicted') \in Nat
          /\ Cardinality(evicted') + Len(queue') = Cardinality(evicted) + Len(queue) + 1
      BY <1>4
    <3>3. PICK l \in Nat, m \in Nat, c \in Nat, e \in Nat, d \in Nat :
            /\ l = Len(queue) /\ m = Len(queue') /\ c = Cardinality(consumed)
            /\ e = Cardinality(evicted) /\ d = Cardinality(evicted')
      BY <3>1, <3>2, Zenon
    <3>4. pushed = l + h + c + e /\ d + m = e + l + 1
      BY <2>2, <3>2, <3>3, Zenon
    <3>5. pushed + 1 = m + h + c + d
      BY <1>1, <2>1, <3>4
    <3> QED BY <2>1, <3>3, <3>5, Zenon
  <2> QED BY <2>1, <2>3 DEF EntriesAddUp, h
<1>6. WritesAddUp'
  BY <1>3 DEF CountsAgree, WritesAddUp, tallies
<1>7. EventsAddUp' /\ IsFiniteSet(Owing')
  <2>1. CASE Displaced(queue) # {} /\ HasObserver
    <3>1. Owing' = Owing \cup {t} /\ t \notin Owing
      BY <1>1, <1>3, <2>1 DEF Owing
    <3>2. /\ IsFiniteSet(Owing) /\ Cardinality(Owing) \in Nat
          /\ IsFiniteSet(Owing') /\ Cardinality(Owing') = Cardinality(Owing) + 1
      BY <3>1, FS_CardinalityType, FS_AddElement DEF CountsAgree
    <3>3. overflows \in Nat
      BY DEF IInv, TypeOK
    <3> QED BY <1>2, <1>3, <1>4, <2>1, <3>2, <3>3 DEF CountsAgree, EventsAddUp
  <2>2. CASE ~(Displaced(queue) # {} /\ HasObserver)
    <3>1. Owing' = Owing
      BY <1>1, <1>3, <2>2 DEF Owing
    <3> QED BY <1>2, <1>3, <1>4, <2>2, <3>1 DEF CountsAgree, EventsAddUp
  <2> QED BY <2>1, <2>2
<1> QED BY <1>3, <1>5, <1>6, <1>7 DEF CountsAgree, tallies

(* The event that was owed is sent. *)
LEMMA OverflowCounts ==
  ASSUME IInv, CountsAgree, NEW t \in Appenders, Overflow(t)
  PROVE  CountsAgree'
<1>1. /\ doing[t] = "overflow" /\ overflows' = overflows + 1
      /\ doing' = [doing EXCEPT ![t] = "unpark"]
      /\ UNCHANGED <<ring, in_hand, consumed, tallies, cut, pc>>
  BY DEF Overflow, Does, drain, stream, loop
<1>2. /\ doing \in [Appenders -> {"idle", "overflow", "unpark"}] /\ overflows \in Nat
      /\ evicted \in SUBSET Entries
  BY DEF IInv, TypeOK
<1>3. Owing' = Owing \ {t} /\ t \in Owing
  BY <1>1, <1>2 DEF Owing
<1>4. /\ IsFiniteSet(Owing) /\ Cardinality(Owing) \in Nat
      /\ IsFiniteSet(Owing') /\ Cardinality(Owing') = Cardinality(Owing) - 1
  BY <1>3, FS_RemoveElement, FS_CardinalityType DEF CountsAgree
<1>5. Cardinality(evicted) \in Nat
  BY <1>2, EntrySetsAreFinite
<1>6. EventsAddUp'
  BY <1>1, <1>2, <1>4, <1>5 DEF CountsAgree, EventsAddUp, ring
<1> QED BY <1>1, <1>4, <1>6 DEF CountsAgree, EntriesAddUp, WritesAddUp, ring, tallies

(* A pop moves an entry from the ring into the thread's hand. *)
LEMMA PopCounts ==
  ASSUME IInv, CountsAgree, Pop
  PROVE  CountsAgree'
<1>1. /\ UNCHANGED <<pushed, evicted, consumed, tallies, cut, overflows, doing>>
      /\ queue \in Seq(Entries) /\ pushed \in Nat /\ in_hand = 0 /\ pc = "pop"
      /\ consumed \subseteq Entries /\ evicted \subseteq Entries
  BY DEF IInv, TypeOK, Pop, At, NotMine, clones, stream, loop
<1>2. Cardinality(consumed) \in Nat /\ Cardinality(evicted) \in Nat
  BY <1>1, EntrySetsAreFinite
<1>3. /\ Len(queue) + (IF in_hand = 0 THEN 0 ELSE 1)
           = Len(queue') + (IF in_hand' = 0 THEN 0 ELSE 1)
      /\ Len(queue') \in Nat
  <2>1. CASE queue = <<>>
    BY <1>1, <2>1 DEF Pop
  <2>2. CASE queue # <<>>
    <3>1. in_hand' = Head(queue) /\ queue' = Tail(queue)
      BY <2>2 DEF Pop
    <3>2. Head(queue) \in Entries /\ Len(Tail(queue)) = Len(queue) - 1 /\ Len(queue) \in Nat \ {0}
      BY <1>1, <2>2
    <3> QED BY <1>1, <3>1, <3>2 DEF Entries
  <2> QED BY <2>1, <2>2
<1>4. pc' \notin {"drop_wakers", "done"}
  BY DEF Pop, Goto, AfterDrain
<1>5. EntriesAddUp'
  BY <1>1, <1>2, <1>3 DEF CountsAgree, EntriesAddUp
<1> QED BY <1>1, <1>4, <1>5 DEF CountsAgree, WritesAddUp, EventsAddUp, Owing, tallies

(* consume counts the entry it writes, which was not written before. *)
LEMMA ConsumeCounts ==
  ASSUME IInv, CountsAgree, NEW o \in Outcomes, Consume(o)
  PROVE  CountsAgree'
<1>1. /\ UNCHANGED <<ring, reported, overflows, doing>>
      /\ consumed' = consumed \cup {in_hand} /\ in_hand' = 0
      /\ counters' = Plus(counters, EffectOf[o]) /\ extra' = extra + ReportsOf(o)
      /\ pc = "consume" /\ pc' \notin {"drop_wakers", "done"}
      /\ cut' \in {"timeout", cut}
  BY DEF Consume, At, Goto, AfterDrain, NotMine, clones
<1>2. /\ in_hand \in Entries /\ in_hand # 0 /\ in_hand \notin consumed
      /\ Len(queue) \in Nat /\ pushed \in Nat /\ extra \in Nat
      /\ counters \in [Counters -> Nat] /\ reported \in [Counters -> Nat]
      /\ consumed \subseteq Entries /\ evicted \subseteq Entries
  BY <1>1 DEF IInv, TypeOK, OutIsAccounted, Entries
<1>3. /\ Cardinality(consumed) \in Nat /\ Cardinality(evicted) \in Nat
      /\ Cardinality(consumed') = Cardinality(consumed) + 1
  BY <1>1, <1>2, EntrySetsAreFinite, FS_AddElement
<1>4. /\ Total(counters') = Total(counters) + 1 + ReportsOf(o) /\ ReportsOf(o) \in Nat
      /\ Total(counters) \in Nat /\ Total(reported) \in Nat
  <2>1. EffectOf[o] \in [Counters -> Nat]
    BY TallyType
  <2>2. Total(counters') = Total(counters) + Total(EffectOf[o])
    BY <1>1, <1>2, <2>1, TotalIsAdditive
  <2>3. /\ ReportsOf(o) \in Nat /\ Total(EffectOf[o]) = 1 + ReportsOf(o)
        /\ Total(counters) \in Nat /\ Total(reported) \in Nat
    BY <1>2, TotalIsAdditive
  <2> QED BY <2>2, <2>3
<1>5. cut \notin Panics /\ cut' \notin Panics /\ cut # "write_panic" /\ cut' # "write_panic"
  BY <1>1 DEF CountsAgree, Panics
<1>6. EntriesAddUp'
  BY <1>1, <1>2, <1>3 DEF CountsAgree, EntriesAddUp, ring
<1>7. WritesAddUp'
  <2>1. Total(counters) + Total(reported) = Cardinality(consumed) + extra
    BY <1>4, <1>5 DEF CountsAgree, WritesAddUp
  <2>2. Total(counters') + Total(reported) = Cardinality(consumed') + extra'
    <3>1. extra' = extra + ReportsOf(o) /\ extra \in Nat
      BY <1>1, <1>2
    <3>2. Cardinality(consumed') = Cardinality(consumed) + 1 /\ Cardinality(consumed) \in Nat
      BY <1>3
    <3> QED BY <1>4, <2>1, <3>1, <3>2
  <2>3. reported' = reported /\ Total(counters') \in Nat
    BY <1>1, <1>4
  <2> QED BY <1>4, <1>5, <2>2, <2>3 DEF WritesAddUp
<1> QED BY <1>1, <1>5, <1>6, <1>7 DEF CountsAgree, EventsAddUp, Owing, ring

(* flush_stream counts its own failure, and hands the counters over. *)
LEMMA FlushCounts ==
  ASSUME IInv, CountsAgree, NEW fails \in BOOLEAN,
         WakeFlush(fails) \/ Flush(fails) \/ FinalFlush(fails)
  PROVE  CountsAgree'
<1> DEFINE n == IF fails THEN 1 ELSE 0
           tally == Plus(counters, Tally(0, n, 0))
<1>1. /\ UNCHANGED <<ring, in_hand, consumed, cut, overflows, doing>>
      /\ extra' = extra + n /\ n \in Nat
      /\ counters' = (IF HasObserver THEN Zero ELSE tally)
      /\ reported' = IF HasObserver THEN Plus(reported, tally) ELSE reported
      /\ pc \in {"wake_flush", "flush", "final_flush"}
  BY DEF WakeFlush, Flush, FinalFlush, FlushStream, TakeTally, At, NotMine, clones, drain, loop
<1> HIDE DEF n
<1>2. /\ extra \in Nat /\ counters \in [Counters -> Nat] /\ reported \in [Counters -> Nat]
      /\ Tally(0, n, 0) \in [Counters -> Nat] /\ tally \in [Counters -> Nat]
      /\ consumed \subseteq Entries
  BY <1>1, TallyType DEF IInv, TypeOK
<1>3. /\ Total(tally) = Total(counters) + n /\ Total(Zero) = 0
      /\ Total(Plus(reported, tally)) = Total(reported) + Total(tally)
      /\ Total(counters) \in Nat /\ Total(reported) \in Nat
  <2>1. Total(Tally(0, n, 0)) = n
    BY <1>1, TotalIsAdditive
  <2>2. Total(tally) = Total(counters) + Total(Tally(0, n, 0))
    BY <1>2, TotalIsAdditive
  <2> QED BY <1>2, <2>1, <2>2, TotalIsAdditive
<1> HIDE DEF tally
<1>4. Cardinality(consumed) \in Nat
  BY <1>2, EntrySetsAreFinite
<1>5. WritesAddUp'
  BY <1>1, <1>2, <1>3, <1>4 DEF CountsAgree, WritesAddUp
<1>6. HasObserver => Total(counters') = 0
  BY <1>1, <1>3
<1>7. cut' \notin Panics
  BY <1>1 DEF CountsAgree
<1> QED BY <1>1, <1>5, <1>6, <1>7 DEF CountsAgree, EntriesAddUp, EventsAddUp, Owing, ring

(* A panic of the stream loses the counters, and the entry it panicked on is   *)
(* the one that is not counted.                                               *)
LEMMA PanicCounts ==
  ASSUME IInv, CountsAgree, Panic
  PROVE  CountsAgree'
<1>1. /\ UNCHANGED <<ring, overflows, doing, tallies>>
      /\ consumed' = IF pc = "consume" THEN consumed \cup {in_hand} ELSE consumed
      /\ in_hand' = 0 /\ pc' = "drop_wakers" /\ pc \notin {"drop_wakers", "done"}
      /\ cut' = IF pc = "consume" THEN "write_panic" ELSE "flush_panic"
  BY DEF Panic, At, Goto, NotMine, clones
<1>2. /\ Len(queue) \in Nat /\ pushed \in Nat /\ extra \in Nat
      /\ counters \in [Counters -> Nat] /\ reported \in [Counters -> Nat]
      /\ consumed \subseteq Entries /\ evicted \subseteq Entries
      /\ pc # "consume" => in_hand = 0
      /\ pc = "consume" => in_hand \in Entries /\ in_hand # 0 /\ in_hand \notin consumed
  BY <1>1 DEF IInv, TypeOK, OutIsAccounted, Entries
<1>3. /\ Cardinality(consumed) \in Nat /\ Cardinality(evicted) \in Nat
      /\ Cardinality(consumed') = Cardinality(consumed) + (IF pc = "consume" THEN 1 ELSE 0)
  BY <1>1, <1>2, EntrySetsAreFinite, FS_AddElement
<1>4. Total(counters) \in Nat /\ Total(reported) \in Nat
  BY <1>2, TotalIsAdditive
<1>5. cut # "write_panic" /\ cut' \in Panics
  BY <1>1 DEF CountsAgree, Panics
<1>6. EntriesAddUp'
  BY <1>1, <1>2, <1>3 DEF CountsAgree, EntriesAddUp, ring
<1>7. WritesAddUp'
  BY <1>1, <1>2, <1>3, <1>4, <1>5 DEF CountsAgree, WritesAddUp, tallies
<1> QED BY <1>1, <1>5, <1>6, <1>7 DEF CountsAgree, EventsAddUp, Owing, ring

(* Every step keeps the counts. *)
LEMMA CountStep == IInv /\ CountsAgree /\ [Next]_vars => CountsAgree'
<1> SUFFICES ASSUME IInv, CountsAgree, [Next]_vars PROVE CountsAgree'
  OBVIOUS
<1>1. CASE Receiver
  <2>1. CASE HandleWakers \/ Wake \/ Recv \/ Decide \/ Park \/ Deadline \/ ExitCheck \/ DropWakers
    <3>1. /\ UNCHANGED <<ring, in_hand, consumed, tallies, cut, overflows, doing>>
          /\ \/ pc' \notin {"drop_wakers", "done"} /\ pc \notin {"drop_wakers", "done"}
             \/ pc = "drop_wakers" /\ pc' = "done"
      BY <2>1 DEF HandleWakers, Wake, AfterWake, Recv, Decide, NextLoopAction, Park, Deadline,
         ExitCheck, ShutDownLabel, DropWakers, At, Goto, NotMine, clones, drain, stream, loop
    <3> QED BY <3>1, NothingCounted DEF CountsAgree
  <2> QED BY <1>1, <2>1, PopCounts, ConsumeCounts, FlushCounts, PanicCounts DEF Receiver
<1>2. CASE Tick \/ Handle \/ UNCHANGED vars
  <2>1. UNCHANGED <<ring, in_hand, consumed, tallies, cut, overflows, doing, pc>>
    BY <1>2 DEF Tick, Handle, HandleStore, HandleUnpark, HandleJoin, HandleForget, vars, NotMine,
       clones, drain, stream, loop
  <2> QED BY <2>1, NothingCounted DEF CountsAgree
<1>3. ASSUME NEW t \in Appenders, Appender(t) PROVE CountsAgree'
  <2>1. CASE FlushAsync(t) \/ Unpark(t) \/ DropQueue(t) \/ \E u \in Appenders : Clone(t, u)
    <3>1. /\ UNCHANGED <<ring, in_hand, consumed, tallies, cut, overflows, pc>>
          /\ doing' = doing \/ /\ doing[t] # "overflow"
                               /\ \E what \in {"idle", "unpark"} :
                                    doing' = [doing EXCEPT ![t] = what]
      BY <2>1 DEF FlushAsync, Unpark, DropQueue, Clone, Does, Idle, drain, stream, loop
    <3>2. Owing' = Owing
      BY <3>1 DEF Owing, IInv, TypeOK
    <3> QED BY <3>1, <3>2 DEF CountsAgree, EntriesAddUp, WritesAddUp, EventsAddUp, ring, tallies
  <2> QED BY <1>3, <2>1, PushCounts, OverflowCounts DEF Appender
<1> QED BY <1>1, <1>2, <1>3 DEF Next

(* Nothing the appenders hand to the queue goes uncounted: every push is in    *)
(* the ring, in hand, written or thrown out, what was written was counted as   *)
(* emitted or as an error, what was thrown out has its overflow event, and the *)
(* observer has been told of all of it when the thread ends without a panic.   *)
THEOREM EverythingIsCounted == Spec => []Accounting
<1>1. Init => CountsAgree
  <2> SUFFICES ASSUME Init PROVE CountsAgree
    OBVIOUS
  <2>1. Len(queue) = 0 /\ Cardinality(consumed) = 0 /\ Cardinality(evicted) = 0
    BY FS_EmptySet DEF Init
  <2>2. Owing = {} /\ IsFiniteSet(Owing) /\ Cardinality(Owing) = 0
    <3>1. Owing = {}
      BY DEF Init, Owing
    <3> QED BY <3>1, FS_EmptySet
  <2>3. Total(counters) = 0 /\ Total(reported) = 0
    BY TotalIsAdditive DEF Init
  <2> QED BY <2>1, <2>2, <2>3 DEF Init, CountsAgree, EntriesAddUp, WritesAddUp, EventsAddUp, Panics
<1>2. CountsAgree => Accounting
  BY DEF CountsAgree, Accounting
<1> QED BY <1>1, <1>2, IInvInit, IInvStep, CountStep, PTL DEF Spec

-----------------------------------------------------------------------------
(* The rounds a waker waits. *)

(* Division by the clock-check interval: what it is bounded by, and that it    *)
(* drops by one whenever a whole interval is taken away.                       *)
LEMMA Division ==
  /\ \A a \in Nat : a \div ClockCheck \in Nat
  /\ \A a \in Nat : a < ClockCheck => a % ClockCheck = a
  /\ \A a \in Nat : (a + ClockCheck) \div ClockCheck = (a \div ClockCheck) + 1
  /\ \A a, b \in Nat : a <= b => a \div ClockCheck <= b \div ClockCheck
  /\ 0 \div ClockCheck = 0
<1>1. \A a \in Nat : a \div ClockCheck \in Nat
  BY ClockCheckAssumption
<1>2. \A a \in Nat : a < ClockCheck => a % ClockCheck = a
  BY ClockCheckAssumption
<1>3. \A a \in Nat : (a + ClockCheck) \div ClockCheck = (a \div ClockCheck) + 1
  BY ClockCheckAssumption
<1>4. ASSUME NEW a \in Nat, NEW b \in Nat, a <= b
      PROVE  a \div ClockCheck <= b \div ClockCheck
  BY <1>4, ClockCheckAssumption
<1>5. 0 \div ClockCheck = 0
  BY ClockCheckAssumption
<1> QED BY <1>1, <1>2, <1>3, <1>4, <1>5

(* A drain that hit its deadline takes a round off any wait. *)
LEMMA RoundsShrink ==
  /\ \A n \in Nat : Rounds(n) \in Nat
  /\ \A n \in Nat : n >= 1 => Rounds(n) >= 1
  /\ \A n, m \in Nat : n <= m => Rounds(n) <= Rounds(m)
  /\ \A n, m \in Nat : n >= 1 /\ m >= ClockCheck => Rounds(SaturatingSub(n, m)) + 1 <= Rounds(n)
<1> USE ClockCheckAssumption
<1>1. \A n \in Nat : Rounds(n) \in Nat
  BY Division DEF Rounds
<1>2. \A n, m \in Nat : n <= m => Rounds(n) <= Rounds(m)
  BY Division DEF Rounds
<1>3. Rounds(1) = 1 /\ Rounds(0) = 0
  <2>1. (0 + ClockCheck) \div ClockCheck = (0 \div ClockCheck) + 1
    BY Division
  <2>2. Rounds(1) = 1
    BY <2>1, Division DEF Rounds
  <2>3. Rounds(0) = 0
    <3>1. (0 + ClockCheck - 1) \div ClockCheck = 0
      OBVIOUS
    <3> QED BY <3>1 DEF Rounds
  <2> QED BY <2>2, <2>3
<1>4. \A n \in Nat : n >= 1 => Rounds(n) >= 1
  BY <1>2, <1>3
<1>5. ASSUME NEW n \in Nat, NEW m \in Nat, n >= 1, m >= ClockCheck
      PROVE  Rounds(SaturatingSub(n, m)) + 1 <= Rounds(n)
  <2>1. CASE m >= n
    <3>1. SaturatingSub(n, m) = 0
      BY <2>1 DEF SaturatingSub
    <3>2. Rounds(n) \in Nat /\ Rounds(n) >= 1
      BY <1>1, <1>4, <1>5
    <3> QED BY <1>3, <3>1, <3>2
  <2>2. CASE ~(m >= n)
    <3>1. SaturatingSub(n, m) = n - m /\ n - m \in Nat
      BY <2>2 DEF SaturatingSub
    <3>2. Rounds((n - m) + ClockCheck) = Rounds(n - m) + 1
      <4>1. (n - m) + ClockCheck - 1 \in Nat
        BY <3>1
      <4>2. (((n - m) + ClockCheck - 1) + ClockCheck) \div ClockCheck
              = (((n - m) + ClockCheck - 1) \div ClockCheck) + 1
        BY <4>1, Division
      <4>3. ((n - m) + ClockCheck) + ClockCheck - 1 = ((n - m) + ClockCheck - 1) + ClockCheck
        BY <3>1
      <4> QED BY <4>2, <4>3 DEF Rounds
    <3>3. (n - m) + ClockCheck <= n /\ (n - m) + ClockCheck \in Nat
      BY <1>5, <3>1
    <3> QED BY <1>2, <3>1, <3>2, <3>3
  <2> QED BY <2>1, <2>2
<1> QED BY <1>1, <1>2, <1>4, <1>5

(* Labels between the first half of handle_waiting_wakers and its end. *)
InWakers == {"wake_flush", "wake", "recv"}

(* A step that moves no signal keeps the bounds. *)
LEMMA NoSignalMoves ==
  ASSUME RoundsAreBounded,
         UNCHANGED <<signal, handled, entries_before_wake>>,
         pc' = "wakers" /\ status' = "HitDeadline" => entry_count' >= ClockCheck,
         pc' = "recv" => pc = "recv",
         pc' \in InWakers \/ closing' \/ (pc \notin InWakers /\ ~closing)
  PROVE  RoundsAreBounded'
BY DEF RoundsAreBounded, InWakers, waiting_wakers, SignalsIn

(* handle_waiting_wakers: one more call, and a round less to wait. *)
LEMMA HandleWakersKeepsRounds ==
  ASSUME IInv, RoundsAreBounded, HandleWakers
  PROVE  RoundsAreBounded'
<1> DEFINE left == SaturatingSub(entries_before_wake, entry_count)
           R == Rounds(Capacity)
<1>1. /\ entries_before_wake \in Nat /\ entry_count \in Nat /\ handled \in [Signals -> Nat]
      /\ signal \in [Signals -> SignalStates] /\ status \in {"Drained", "HitDeadline"}
      /\ pc = "wakers" /\ ~closing /\ closing' = closing /\ signal' = signal
      /\ handled' = [f \in Signals |-> IF signal[f] \in {"queued", "waiting"}
                                       THEN handled[f] + 1 ELSE handled[f]]
      /\ pc' # "wakers"
  BY DEF IInv, TypeOK, CloseIsSafe, HandleWakers, At, Goto, loop
<1>2. left \in Nat /\ left <= entries_before_wake
  BY <1>1 DEF SaturatingSub
<1>3. R \in Nat /\ R >= 1
  BY RoundsShrink, CapacityAssumption
<1> HIDE DEF left, R
<1>4. CASE waiting_wakers = {}
  <2>1. pc' = "recv" /\ entries_before_wake' = entries_before_wake
    BY <1>4 DEF HandleWakers, Goto
  <2>2. \A f \in Signals : /\ signal[f] # "waiting"
                           /\ signal[f] = "queued" => handled[f] = 0
    BY <1>1, <1>4 DEF RoundsAreBounded, waiting_wakers, SignalsIn
  <2> QED BY <1>1, <1>3, <2>1, <2>2 DEF RoundsAreBounded, R
<1>5. CASE waiting_wakers # {}
  <2>1. /\ entries_before_wake' = left
        /\ pc' = (IF left = 0 \/ status = "Drained" THEN "wake_flush" ELSE "decide")
    BY <1>5 DEF HandleWakers, Goto, WakeNow, left
  <2>2. entries_before_wake >= 1
    BY <1>1, <1>5 DEF RoundsAreBounded, waiting_wakers, SignalsIn
  <2>3. Rounds(entries_before_wake) \in Nat /\ Rounds(entries_before_wake) >= 1
    BY <1>1, <2>2, RoundsShrink
  <2>4. /\ \A f \in Signals : handled'[f] <= 2 * R
        /\ \A f \in Signals : signal[f] = "queued" => handled'[f] <= R
        /\ \A f \in Signals : signal[f] = "unsent" => handled'[f] = 0
    <3> SUFFICES ASSUME NEW f \in Signals
                 PROVE  /\ handled'[f] <= 2 * R
                        /\ signal[f] = "queued" => handled'[f] <= R
                        /\ signal[f] = "unsent" => handled'[f] = 0
      OBVIOUS
    <3>1. /\ handled[f] \in Nat /\ handled[f] <= 2 * R
          /\ signal[f] = "waiting" => handled[f] + Rounds(entries_before_wake) <= 2 * R
          /\ signal[f] = "queued" => handled[f] + Rounds(entries_before_wake) <= R
          /\ signal[f] = "unsent" => handled[f] = 0
      BY <1>1, <1>5 DEF RoundsAreBounded, R
    <3>2. handled'[f] = IF signal[f] \in {"queued", "waiting"} THEN handled[f] + 1 ELSE handled[f]
      BY <1>1
    <3> QED BY <1>3, <2>3, <3>1, <3>2
  <2>5. CASE pc' = "wake_flush"
    BY <1>1, <1>2, <2>1, <2>4, <2>5, CapacityAssumption DEF RoundsAreBounded, R
  <2>6. CASE pc' = "decide"
    <3>1. left >= 1 /\ entry_count >= ClockCheck
      BY <1>1, <1>2, <2>1, <2>6 DEF RoundsAreBounded
    <3>2. Rounds(left) + 1 <= Rounds(entries_before_wake) /\ Rounds(left) \in Nat
      BY <1>1, <1>2, <2>2, <3>1, RoundsShrink DEF left
    <3>3. ASSUME NEW f \in Signals
          PROVE  /\ signal[f] = "waiting" => handled'[f] + Rounds(left) <= 2 * R
                 /\ signal[f] = "queued" => handled'[f] + Rounds(left) <= R
      <4>1. /\ handled[f] \in Nat
            /\ signal[f] = "waiting" => handled[f] + Rounds(entries_before_wake) <= 2 * R
            /\ signal[f] = "queued" => handled[f] + Rounds(entries_before_wake) <= R
        BY <1>1, <1>5 DEF RoundsAreBounded, R
      <4>2. signal[f] \in {"queued", "waiting"} => handled'[f] = handled[f] + 1
        BY <1>1
      <4> QED BY <1>3, <2>3, <3>2, <4>1, <4>2
    <3>4. waiting_wakers' # {} /\ left <= Capacity
      BY <1>1, <1>2, <1>5, CapacityAssumption DEF waiting_wakers, SignalsIn, RoundsAreBounded
    <3> QED BY <1>1, <2>1, <2>4, <2>6, <3>1, <3>3, <3>4 DEF RoundsAreBounded, R
  <2> QED BY <2>1, <2>5, <2>6
<1> QED BY <1>4, <1>5

(* Waking resets what the woken signals waited; try_recv takes a signal over   *)
(* with what it waited behind the others, and its end begins a round.          *)
LEMMA WakeAndRecvKeepRounds ==
  ASSUME IInv, RoundsAreBounded, Wake \/ Recv
  PROVE  RoundsAreBounded'
<1> DEFINE R == Rounds(Capacity)
<1>1. /\ handled \in [Signals -> Nat] /\ signal \in [Signals -> SignalStates]
      /\ entries_before_wake \in Nat /\ closing' = closing
  BY DEF IInv, TypeOK, Wake, Recv, loop
<1>2. R \in Nat /\ R >= 1
  BY RoundsShrink, CapacityAssumption
<1> HIDE DEF R
<1>3. CASE Wake
  <2>1. /\ pc' = "recv" /\ entries_before_wake' = 0
        /\ signal' = [f \in Signals |-> IF signal[f] = "waiting" THEN "woken" ELSE signal[f]]
        /\ handled' = [f \in Signals |-> IF signal[f] = "waiting" THEN 0 ELSE handled[f]]
    BY <1>3 DEF Wake, Goto, AfterWake
  <2>2. ASSUME NEW f \in Signals
        PROVE  /\ handled'[f] <= 2 * R /\ signal'[f] # "waiting"
               /\ signal'[f] = "queued" => handled'[f] <= R
               /\ signal'[f] = "unsent" => handled'[f] = 0
    BY <1>1, <1>2, <2>1 DEF RoundsAreBounded, R
  <2> QED BY <2>1, <2>2, CapacityAssumption DEF RoundsAreBounded, R
<1>4. CASE Recv /\ SignalsIn("queued") # {}
  <2>1. PICK f \in SignalsIn("queued") : signal' = [signal EXCEPT ![f] = "waiting"]
    BY <1>4 DEF Recv
  <2>2. /\ f \in Signals /\ signal[f] = "queued"
        /\ UNCHANGED <<pc, entries_before_wake, handled>> /\ pc = "recv"
    BY <1>4, <2>1 DEF Recv, At, SignalsIn
  <2>3. ASSUME NEW g \in Signals
        PROVE  /\ handled'[g] <= 2 * R
               /\ signal'[g] = "queued" => handled'[g] <= R
               /\ signal'[g] = "unsent" => handled'[g] = 0
               /\ signal'[g] = "waiting" => handled'[g] <= R
    BY <1>1, <2>1, <2>2 DEF RoundsAreBounded, R
  <2> QED BY <2>2, <2>3 DEF RoundsAreBounded, R
<1>5. CASE Recv /\ SignalsIn("queued") = {}
  <2>1. /\ pc = "recv" /\ pc' = "decide" /\ UNCHANGED <<signal, handled>>
        /\ entries_before_wake' = IF waiting_wakers # {} THEN Capacity ELSE entries_before_wake
    BY <1>5 DEF Recv, At, Goto, Patience
  <2>2. entries_before_wake' <= Capacity
    BY <2>1, CapacityAssumption DEF RoundsAreBounded
  <2>3. ASSUME NEW f \in Signals
        PROVE  /\ handled'[f] <= 2 * R
               /\ signal'[f] # "queued"
               /\ signal'[f] = "unsent" => handled'[f] = 0
               /\ signal'[f] = "waiting" => /\ entries_before_wake' >= 1
                                            /\ handled'[f] + Rounds(entries_before_wake') <= 2 * R
    <3>1. handled[f] \in Nat /\ handled[f] <= 2 * R /\ signal[f] # "queued"
          /\ (signal[f] = "unsent" => handled[f] = 0)
      BY <1>1, <1>5 DEF RoundsAreBounded, R, SignalsIn
    <3>2. CASE signal[f] = "waiting"
      <4>1. entries_before_wake' = Capacity /\ handled[f] <= R
        BY <2>1, <3>2 DEF waiting_wakers, SignalsIn, RoundsAreBounded, R
      <4> QED BY <1>2, <2>1, <3>1, <3>2, <4>1, CapacityAssumption DEF R
    <3> QED BY <2>1, <3>1, <3>2
  <2> QED BY <2>1, <2>2, <2>3 DEF RoundsAreBounded, R
<1> QED BY <1>3, <1>4, <1>5

(* A new signal has waited for no call. *)
LEMMA FlushAsyncKeepsRounds ==
  ASSUME IInv, RoundsAreBounded, NEW t \in Appenders, FlushAsync(t)
  PROVE  RoundsAreBounded'
<1> DEFINE R == Rounds(Capacity)
<1>1. /\ handled \in [Signals -> Nat] /\ signal \in [Signals -> SignalStates]
      /\ entries_before_wake \in Nat /\ sent + 1 \in Signals /\ signal[sent + 1] = "unsent"
  <2>1. TypeOK /\ sent \in 0..MaxFlushes /\ sent < MaxFlushes /\ SignalsAreNumbered
    BY DEF IInv, TypeOK, FlushAsync
  <2>2. sent + 1 \in Signals /\ sent + 1 > sent
    BY <2>1, BoundsAssumption DEF Signals
  <2> QED BY <2>1, <2>2 DEF TypeOK, SignalsAreNumbered
<1>2. /\ UNCHANGED <<pc, status, entry_count, closing, entries_before_wake, handled>>
      /\ signal' = [signal EXCEPT ![sent + 1] = IF pc = "done" THEN "refused" ELSE "queued"]
  BY DEF FlushAsync, drain, loop
<1>3. R \in Nat /\ Rounds(entries_before_wake) \in Nat /\ Rounds(entries_before_wake) <= R
  BY <1>1, RoundsShrink, CapacityAssumption DEF RoundsAreBounded
<1> HIDE DEF R
<1>4. handled[sent + 1] = 0 /\ signal'[sent + 1] \in {"queued", "refused"}
  BY <1>1, <1>2 DEF RoundsAreBounded
<1>5. \A f \in Signals : f # sent + 1 => signal'[f] = signal[f]
  BY <1>1, <1>2
<1>6. waiting_wakers' = waiting_wakers
  BY <1>1, <1>4, <1>5 DEF waiting_wakers, SignalsIn
<1>7. ASSUME NEW f \in Signals
      PROVE  /\ handled[f] <= 2 * R
             /\ signal'[f] = "queued" => handled[f] <= R
             /\ signal'[f] = "unsent" => handled[f] = 0
             /\ pc = "recv" /\ signal'[f] = "waiting" => handled[f] <= R
  BY <1>3, <1>4, <1>5 DEF RoundsAreBounded, R
<1>8. ASSUME pc \notin {"wake_flush", "wake", "recv"}, ~closing, NEW f \in Signals
      PROVE  /\ signal'[f] = "waiting" => /\ entries_before_wake >= 1
                                          /\ handled[f] + Rounds(entries_before_wake) <= 2 * R
             /\ signal'[f] = "queued" =>
                  IF waiting_wakers = {} THEN handled[f] = 0
                  ELSE handled[f] + Rounds(entries_before_wake) <= R
  <2>1. CASE f = sent + 1
    BY <1>3, <1>4, <2>1
  <2>2. CASE f # sent + 1
    BY <1>5, <1>8, <2>2 DEF RoundsAreBounded, R
  <2> QED BY <2>1, <2>2
<1> QED BY <1>2, <1>6, <1>7, <1>8 DEF RoundsAreBounded, R

(* Every step keeps the bounds. *)
LEMMA RoundsStep == IInv /\ RoundsAreBounded /\ [Next]_vars => RoundsAreBounded'
<1> SUFFICES ASSUME IInv, RoundsAreBounded, [Next]_vars PROVE RoundsAreBounded'
  OBVIOUS
<1>1. CASE Receiver
  <2>1. CASE Pop
    BY <2>1, NoSignalMoves DEF Pop, AfterDrain, At, Goto, loop, flushes, InWakers, IInv,
       CloseIsSafe, RoundsAreBounded
  <2>2. ASSUME NEW o \in Outcomes, Consume(o) PROVE RoundsAreBounded'
    <3>1. entry_count \in Nat /\ expired \in BOOLEAN
      BY DEF IInv, TypeOK
    <3>2. (entry_count + 1) % ClockCheck = 0 => entry_count + 1 >= ClockCheck
      BY <3>1, ClockCheckAssumption, Division
    <3>3. /\ pc = "consume" /\ pc' \in {"pop", "wakers", "final_flush"}
          /\ UNCHANGED <<signal, handled, entries_before_wake, closing>>
          /\ pc' = "wakers" => entry_count' >= ClockCheck
      BY <2>2, <3>2 DEF Consume, AfterDrain, At, Goto, flushes
    <3> QED BY <3>3, NoSignalMoves DEF InWakers
  <2>3. CASE Decide \/ Park \/ Deadline \/ ExitCheck \/ Panic
    BY <2>3, NoSignalMoves DEF Decide, NextLoopAction, Park, Deadline, ExitCheck, ShutDownLabel,
       Panic, At, Goto, loop, drain, flushes, InWakers, IInv, CloseIsSafe
  <2>4. CASE \E fails \in BOOLEAN : WakeFlush(fails) \/ Flush(fails) \/ FinalFlush(fails)
    BY <2>4, NoSignalMoves DEF WakeFlush, Flush, FinalFlush, FlushStream, At, Goto, loop, drain,
       flushes, InWakers, IInv, CloseIsSafe
  <2>5. CASE DropWakers
    <3>1. /\ UNCHANGED <<handled, entries_before_wake, closing>> /\ closing /\ pc' = "done"
          /\ signal' = [f \in Signals |-> IF signal[f] \in {"waiting", "queued"}
                                          THEN "dropped" ELSE signal[f]]
      BY <2>5 DEF DropWakers, DroppedWithTracker, At, Goto, loop, IInv, CloseIsSafe
    <3> QED BY <3>1 DEF RoundsAreBounded
  <2> QED BY <1>1, <2>1, <2>2, <2>3, <2>4, <2>5, HandleWakersKeepsRounds,
             WakeAndRecvKeepRounds DEF Receiver
<1>2. CASE \/ Tick \/ Handle \/ UNCHANGED vars
           \/ \E t \in Appenders : \/ Push(t) \/ Overflow(t) \/ Unpark(t) \/ DropQueue(t)
                                   \/ \E u \in Appenders : Clone(t, u)
  <2>1. UNCHANGED <<signal, handled, entries_before_wake, pc, status, entry_count, closing>>
    BY <1>2 DEF Tick, Handle, HandleStore, HandleUnpark, HandleJoin, HandleForget, vars, Push,
       Overflow, Unpark, DropQueue, Clone, flushes, drain, loop
  <2> QED BY <2>1 DEF RoundsAreBounded, waiting_wakers, SignalsIn
<1> QED BY <1>1, <1>2, FlushAsyncKeepsRounds DEF Next, Appender

(* L1 of the WakerTracker, for every capacity and clock-check interval: the    *)
(* thread parks on no flush it has seen, and under any load a flush is woken   *)
(* within two rounds of handle_waiting_wakers calls, one for the wakers that   *)
(* were there before it and one of its own.                                   *)
THEOREM FlushesAreNotStarved == Spec => []L1
<1>1. Init => RoundsAreBounded
  <2> SUFFICES ASSUME Init PROVE RoundsAreBounded
    OBVIOUS
  <2>1. Rounds(Capacity) \in Nat
    BY RoundsShrink, CapacityAssumption
  <2>2. \A f \in Signals : signal[f] = "unsent" /\ handled[f] = 0
    BY DEF Init
  <2> QED BY <2>1, <2>2, CapacityAssumption DEF Init, RoundsAreBounded
<1>2. IInv /\ RoundsAreBounded => L1
  BY DEF IInv, CloseIsSafe, RoundsAreBounded, L1, Rounds, SignalsIn
<1> QED BY <1>1, <1>2, IInvInit, IInvStep, RoundsStep, PTL DEF Spec
=============================================================================
