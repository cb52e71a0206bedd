------------------------ MODULE EntryLifecycleProofs ------------------------
(***************************************************************************)
(* For any sets of guards, force-flush guards and handles: an entry is       *)
(* closed once, when it is due, with the slot it waited for.                 *)
(***************************************************************************)
EXTENDS EntryLifecycle, TLAPS

-----------------------------------------------------------------------------
(* The inductive invariant. *)

RootStates == {"live", "shared", "dropping", "dropValue", "letGo", "release", "gone"}
GuardStates == {"none", "held", "release", "gone"}
ForceStates == {"none", "held", "upgraded", "took", "letGo", "release", "gone"}

(* Each actor is at a point of its own life. *)
Lives ==
  /\ at[Root] \in RootStates
  /\ \A g \in Guards : at[g] \in GuardStates
  /\ \A f \in Forces : at[f] \in ForceStates
  /\ handles # {} => at[Root] = "shared"

(* The owners of the switch are the actors that have not let go of it. *)
RefsAreOwners ==
  /\ \A g \in Guards : g \in refs <=> at[g] = "held"
  /\ \A f \in Forces : f \in refs <=> at[f] \in {"upgraded", "took", "letGo"}
  /\ Root \in refs <=> promoted /\ at[Root] \notin {"release", "gone"}

(* Nothing is shared before the first guard. *)
Unpromoted ==
  ~promoted =>
    /\ refs = {} /\ ~parentRef /\ payload = "gone" /\ freed = 0 /\ ~pending
    /\ at[Root] \in {"live", "shared", "dropping", "gone"}
    /\ \A a \in Actors \ {Root} : at[a] = "none"

(* Who destroys the switch is alone with it. *)
OneReleaser ==
  \A a \in Actors : at[a] = "release" =>
    refs = {} /\ promoted /\ \A b \in Actors : at[b] = "release" => b = a

(* The payload sits in the switch, or in the hands of the one DropAll that    *)
(* took it; who is past the switch found it empty or dead.                    *)
PayloadIsSomewhere ==
  /\ payload = "slot" => refs # {} \/ \E a \in Actors : at[a] = "release"
  /\ \A f \in Forces : at[f] = "took" =>
       payload = "taken" /\ \A e \in Forces : at[e] = "took" => e = f
  /\ payload = "taken" => \E f \in Forces : at[f] = "took"
  /\ \A f \in Forces : payload = "slot" /\ at[f] \in {"letGo", "release", "gone"} => refs = {}
  /\ promoted /\ payload # "slot" => Forced \/ refs = {}

(* The value lives as long as one of its two references. *)
ValueIsCounted ==
  promoted =>
    /\ parentRef <=> at[Root] \in {"live", "shared", "dropping", "dropValue"}
    /\ freed = (IF parentRef \/ payload # "gone" THEN 0 ELSE 1)

(* The entry is in one place at a time. *)
OneFate ==
  /\ inner <=> ~RootDropped
  /\ inner => ~pending /\ emitted = 0 /\ ~panicked /\ ~discarded
  /\ at[Root] = "dropping" => discarded
  /\ discarded => ~pending /\ emitted = 0 /\ ~panicked
  /\ panicked => emitted = 0 /\ ~pending
  /\ pending => emitted = 0 /\ promoted /\ freed = 0 /\ at[Root] # "dropping"
  /\ RootDropped /\ ~pending => discarded \/ panicked \/ emitted = 1
  /\ promoted /\ (emitted = 1 \/ panicked) => freed = 1

(* What the slot's channel holds. *)
SlotIsSent ==
  /\ slot \in {"lazy", "fresh"} => keeper = NoGuard
  /\ keeper # NoGuard /\ slot = "open" => at[keeper] = "held"
  /\ slot # "sent" => chan = "empty" /\ ~data
  /\ slot = "sent" /\ ~childPanicked /\ chan # "value" => rx = "gone" /\ ~data
  /\ rx = "future" => at[Root] = "live"

IInv ==
  /\ TypeOK
  /\ Lives
  /\ RefsAreOwners
  /\ Unpromoted
  /\ OneReleaser
  /\ PayloadIsSomewhere
  /\ ValueIsCounted
  /\ OneFate
  /\ SlotIsSent
  /\ WaitedSlotIsIncluded

-----------------------------------------------------------------------------
(* Each action keeps the invariant. *)

(* flush_guard: a new owner, perhaps of a new switch. *)
LEMMA FlushGuardKeeps ==
  ASSUME IInv, NEW g \in Guards, FlushGuard(g)
  PROVE  IInv'
<1> USE DEF FlushGuard, Exclusive, Promote, NewParent, slots, outcome
<1>1. /\ Lives' /\ Unpromoted' /\ OneFate' /\ SlotIsSent' /\ WaitedSlotIsIncluded'
  BY DEF IInv, Lives, Unpromoted, OneFate, SlotIsSent, WaitedSlotIsIncluded, RootStates,
    GuardStates, ForceStates, Actors, RootDropped, Forced
<1>2. TypeOK'
  <2>1. TypeOK
    BY DEF IInv
  <2>2. /\ at' \in [Actors -> {"none", "held", "live", "shared", "dropping", "dropValue",
                              "letGo", "upgraded", "took", "release", "gone"}]
        /\ refs' \subseteq Actors
    BY <2>1 DEF TypeOK, Actors
  <2>3. promoted' \in BOOLEAN /\ parentRef' \in BOOLEAN /\ payload' \in {"slot", "taken", "gone"}
    BY <2>1, Zenon DEF TypeOK
  <2> QED BY <2>1, <2>2, <2>3 DEF TypeOK
<1>3. RefsAreOwners'
  BY ActorsAssumption DEF IInv, RefsAreOwners, TypeOK, Lives, Unpromoted, Actors,
    RootStates, GuardStates, ForceStates
<1>4. OneReleaser'
  BY ActorsAssumption DEF IInv, OneReleaser, TypeOK, Lives, RefsAreOwners, Unpromoted,
    Actors, RootStates, GuardStates, ForceStates
<1>5. PayloadIsSomewhere'
  BY ActorsAssumption DEF IInv, PayloadIsSomewhere, TypeOK, Lives, RefsAreOwners,
    Unpromoted, Forced, Actors, RootStates, GuardStates, ForceStates
<1>6. ValueIsCounted'
  BY ActorsAssumption DEF IInv, ValueIsCounted, TypeOK, Lives, RefsAreOwners, Unpromoted,
    Actors, RootStates, GuardStates, ForceStates
<1> QED
  BY <1>1, <1>2, <1>3, <1>4, <1>5, <1>6 DEF IInv

(* force_flush_guard: perhaps a new switch, no new owner. *)
LEMMA ForceFlushGuardKeeps ==
  ASSUME IInv, NEW f \in Forces, ForceFlushGuard(f)
  PROVE  IInv'
<1> USE DEF ForceFlushGuard, Exclusive, Promote, NewParent, slots, outcome
<1>1. /\ Lives' /\ Unpromoted' /\ OneReleaser' /\ OneFate' /\ SlotIsSent' /\
        WaitedSlotIsIncluded'
  BY DEF IInv, Lives, Unpromoted, OneReleaser, OneFate, SlotIsSent, WaitedSlotIsIncluded,
    RootStates, GuardStates, ForceStates, Actors, RootDropped, Forced
<1>2. TypeOK'
  <2>1. TypeOK
    BY DEF IInv
  <2>2. /\ at' \in [Actors -> {"none", "held", "live", "shared", "dropping", "dropValue",
                              "letGo", "upgraded", "took", "release", "gone"}]
        /\ refs' \subseteq Actors
    BY <2>1 DEF TypeOK, Actors
  <2>3. promoted' \in BOOLEAN /\ parentRef' \in BOOLEAN /\ payload' \in {"slot", "taken", "gone"}
    BY <2>1, Zenon DEF TypeOK
  <2> QED BY <2>1, <2>2, <2>3 DEF TypeOK
<1>3. RefsAreOwners'
  BY ActorsAssumption DEF IInv, RefsAreOwners, TypeOK, Lives, Unpromoted, Actors,
    RootStates, GuardStates, ForceStates
<1>4. PayloadIsSomewhere'
  BY ActorsAssumption DEF IInv, PayloadIsSomewhere, TypeOK, Lives, RefsAreOwners,
    Unpromoted, Forced, Actors, RootStates, GuardStates, ForceStates
<1>5. ValueIsCounted'
  BY ActorsAssumption DEF IInv, ValueIsCounted, TypeOK, Lives, RefsAreOwners, Unpromoted,
    Actors, RootStates, GuardStates, ForceStates
<1> QED
  BY <1>1, <1>2, <1>3, <1>4, <1>5 DEF IInv

(* handle: the root is shared. *)
LEMMA HandleKeeps ==
  ASSUME IInv, NEW h \in Handles, Handle(h)
  PROVE  IInv'
<1> USE DEF Handle, Exclusive, counts, slots, outcome
<1>1. /\ TypeOK' /\ RefsAreOwners' /\ Unpromoted' /\ OneReleaser' /\ PayloadIsSomewhere' /\
        ValueIsCounted' /\ OneFate' /\ SlotIsSent' /\ WaitedSlotIsIncluded'
  BY DEF IInv, TypeOK, RefsAreOwners, Unpromoted, OneReleaser, PayloadIsSomewhere,
    ValueIsCounted, OneFate, SlotIsSent, WaitedSlotIsIncluded, Actors, Forced, RootDropped
<1>2. Lives'
  BY ActorsAssumption DEF IInv, Lives, TypeOK, RootStates, GuardStates, ForceStates, Actors
<1> QED
  BY <1>1, <1>2 DEF IInv

(* A handle is cloned. *)
LEMMA CloneHandleKeeps ==
  ASSUME IInv, NEW h \in Handles, CloneHandle(h)
  PROVE  IInv'
<1> USE DEF CloneHandle, counts, slots, outcome
<1>1. /\ TypeOK' /\ Lives' /\ RefsAreOwners' /\ Unpromoted' /\ OneReleaser' /\
        PayloadIsSomewhere' /\ ValueIsCounted' /\ OneFate' /\ SlotIsSent' /\
        WaitedSlotIsIncluded'
  BY DEF IInv, TypeOK, Lives, RefsAreOwners, Unpromoted, OneReleaser, PayloadIsSomewhere,
    ValueIsCounted, OneFate, SlotIsSent, WaitedSlotIsIncluded, Actors, RootStates,
    GuardStates, ForceStates, Forced, RootDropped
<1> QED
  BY <1>1 DEF IInv

(* discard: the entry is gone before the root. *)
LEMMA DiscardKeeps ==
  ASSUME IInv, Discard
  PROVE  IInv'
<1> USE DEF Discard, Exclusive, counts, outcome
<1>1. /\ Lives' /\ RefsAreOwners' /\ Unpromoted' /\ OneReleaser' /\ PayloadIsSomewhere' /\
        ValueIsCounted' /\ SlotIsSent' /\ WaitedSlotIsIncluded'
  BY DEF IInv, Lives, RefsAreOwners, Unpromoted, OneReleaser, PayloadIsSomewhere,
    ValueIsCounted, SlotIsSent, WaitedSlotIsIncluded, RootStates, GuardStates, ForceStates,
    Actors, Forced
<1>2. TypeOK'
  <2>1. TypeOK
    BY DEF IInv
  <2>2. at' \in [Actors -> {"none", "held", "live", "shared", "dropping", "dropValue",
                           "letGo", "upgraded", "took", "release", "gone"}]
    BY <2>1 DEF TypeOK
  <2>3. inner' \in BOOLEAN /\ discarded' \in BOOLEAN /\ rx' \in {"slot", "future", "gone"}
    BY Zenon
  <2> QED BY <2>1, <2>2, <2>3 DEF TypeOK
<1>3. OneFate'
  BY ActorsAssumption DEF IInv, OneFate, TypeOK, Lives, RootDropped, Actors, RootStates,
    GuardStates, ForceStates
<1> QED
  BY <1>1, <1>2, <1>3 DEF IInv

(* The root is dropped: the entry moves to PendingEmit or to the sink. *)
LEMMA DropRootKeeps ==
  ASSUME IInv, DropRoot
  PROVE  IInv'
<1>1. TypeOK'
  <2>1. /\ withSlot' \in BOOLEAN /\ pending' \in BOOLEAN /\ panicked' \in BOOLEAN
        /\ data' \in BOOLEAN /\ inner' \in BOOLEAN /\ parentRef' \in BOOLEAN
    BY Zenon DEF IInv, TypeOK, DropRoot, Exclusive, AfterInner, DropInner, Defers,
      CloseAndAppend, Closable, counts, outcome
  <2>2. emitted' \in 0..1 /\ freed' \in 0..1
    BY DEF IInv, TypeOK, OneFate, ValueIsCounted, Unpromoted, PayloadIsSomewhere, Lives,
      RootDropped, DropRoot, Exclusive, AfterInner, DropInner, Defers, CloseAndAppend,
      Closable, counts, outcome
  <2>3. /\ at' \in [Actors -> {"none", "held", "live", "shared", "dropping", "dropValue", "letGo",
                             "upgraded", "took", "release", "gone"}]
        /\ handles' \subseteq Handles /\ refs' \subseteq Actors
        /\ payload' \in {"slot", "taken", "gone"} /\ rx' \in {"slot", "future", "gone"}
    BY DEF IInv, TypeOK, Actors, DropRoot, Exclusive, AfterInner, DropInner, Defers,
      CloseAndAppend, Closable, counts, outcome
  <2>4. /\ promoted' \in BOOLEAN /\ discarded' \in BOOLEAN /\ childPanicked' \in BOOLEAN
        /\ slot' \in {"lazy", "fresh", "open", "sent"} /\ keeper' \in Guards \cup {NoGuard}
        /\ chan' \in {"empty", "value", "closed"}
    BY Zenon DEF IInv, TypeOK, slots, DropRoot, Exclusive, AfterInner, DropInner, Defers,
      CloseAndAppend, Closable, counts, outcome
  <2>5. QED
    BY <2>1, <2>2, <2>3, <2>4 DEF TypeOK
<1> USE DEF DropRoot, Exclusive, AfterInner, DropInner, Defers, CloseAndAppend, Closable, counts, outcome
<1>2. /\ Lives' /\ RefsAreOwners' /\ OneReleaser' /\ ValueIsCounted' /\ SlotIsSent'
  BY DEF IInv, Lives, RefsAreOwners, OneReleaser, ValueIsCounted, SlotIsSent, RootStates,
    GuardStates, ForceStates, Actors
<1>3. Unpromoted'
  BY ActorsAssumption DEF IInv, Unpromoted, TypeOK, Lives, Actors, RootStates, GuardStates,
    ForceStates
<1>4. PayloadIsSomewhere'
  BY ActorsAssumption DEF IInv, PayloadIsSomewhere, TypeOK, Lives, Forced, Actors,
    RootStates, GuardStates, ForceStates
<1>5. OneFate'
  BY ActorsAssumption DEF IInv, OneFate, TypeOK, Lives, RefsAreOwners, Unpromoted,
    OneReleaser, PayloadIsSomewhere, ValueIsCounted, RootDropped, Actors, RootStates,
    GuardStates, ForceStates, Forced
<1>6. WaitedSlotIsIncluded'
  BY ActorsAssumption DEF IInv, WaitedSlotIsIncluded, TypeOK, Lives, RefsAreOwners,
    Unpromoted, OneReleaser, PayloadIsSomewhere, ValueIsCounted, OneFate, SlotIsSent,
    Forced, Actors, RootStates, GuardStates, ForceStates, RootDropped
<1> QED
  BY <1>1, <1>2, <1>3, <1>4, <1>5, <1>6 DEF IInv

(* A handle is dropped, and with the last one the root. *)
LEMMA DropHandleKeeps ==
  ASSUME IInv, NEW h \in Handles, DropHandle(h)
  PROVE  IInv'
<1>1. TypeOK'
  <2>1. /\ withSlot' \in BOOLEAN /\ pending' \in BOOLEAN /\ panicked' \in BOOLEAN
        /\ data' \in BOOLEAN /\ inner' \in BOOLEAN /\ parentRef' \in BOOLEAN
    BY Zenon DEF IInv, TypeOK, DropHandle, AfterInner, DropInner, Defers, CloseAndAppend,
      Closable, counts, slots, outcome
  <2>2. emitted' \in 0..1 /\ freed' \in 0..1
    BY DEF IInv, TypeOK, OneFate, ValueIsCounted, Unpromoted, PayloadIsSomewhere, Lives,
      RootDropped, DropHandle, AfterInner, DropInner, Defers, CloseAndAppend, Closable,
      counts, slots, outcome
  <2>3. /\ at' \in [Actors -> {"none", "held", "live", "shared", "dropping", "dropValue", "letGo",
                             "upgraded", "took", "release", "gone"}]
        /\ handles' \subseteq Handles /\ refs' \subseteq Actors
        /\ payload' \in {"slot", "taken", "gone"} /\ rx' \in {"slot", "future", "gone"}
    BY DEF IInv, TypeOK, Actors, DropHandle, AfterInner, DropInner, Defers, CloseAndAppend,
      Closable, counts, slots, outcome
  <2>4. /\ promoted' \in BOOLEAN /\ discarded' \in BOOLEAN /\ childPanicked' \in BOOLEAN
        /\ slot' \in {"lazy", "fresh", "open", "sent"} /\ keeper' \in Guards \cup {NoGuard}
        /\ chan' \in {"empty", "value", "closed"}
    BY Zenon DEF IInv, TypeOK, slots, DropHandle, AfterInner, DropInner, Defers,
      CloseAndAppend, Closable, counts, slots, outcome
  <2>5. QED
    BY <2>1, <2>2, <2>3, <2>4 DEF TypeOK
<1> USE DEF DropHandle, AfterInner, DropInner, Defers, CloseAndAppend, Closable, counts, slots, outcome
<1>2. Lives'
  BY ActorsAssumption DEF IInv, Lives, TypeOK, RootStates, GuardStates, ForceStates, Actors
<1>3. RefsAreOwners'
  BY ActorsAssumption DEF IInv, RefsAreOwners, TypeOK, Lives, Actors, RootStates,
    GuardStates, ForceStates
<1>4. Unpromoted'
  BY ActorsAssumption DEF IInv, Unpromoted, TypeOK, Lives, Actors, RootStates, GuardStates,
    ForceStates
<1>5. OneReleaser'
  BY ActorsAssumption DEF IInv, OneReleaser, TypeOK, Lives, Actors, RootStates,
    GuardStates, ForceStates
<1>6. PayloadIsSomewhere'
  BY ActorsAssumption DEF IInv, PayloadIsSomewhere, TypeOK, Lives, Forced, Actors,
    RootStates, GuardStates, ForceStates
<1>7. ValueIsCounted'
  BY ActorsAssumption DEF IInv, ValueIsCounted, TypeOK, Lives, Actors, RootStates,
    GuardStates, ForceStates
<1>8. OneFate'
  BY ActorsAssumption DEF IInv, OneFate, TypeOK, Lives, RefsAreOwners, Unpromoted,
    OneReleaser, PayloadIsSomewhere, ValueIsCounted, RootDropped, Actors, RootStates,
    GuardStates, ForceStates, Forced
<1>9. SlotIsSent'
  BY ActorsAssumption DEF IInv, SlotIsSent, TypeOK, Lives, Actors, RootStates, GuardStates,
    ForceStates
<1>10. WaitedSlotIsIncluded'
  BY ActorsAssumption DEF IInv, WaitedSlotIsIncluded, TypeOK, Lives, RefsAreOwners,
    Unpromoted, OneReleaser, PayloadIsSomewhere, ValueIsCounted, OneFate, SlotIsSent,
    Forced, Actors, RootStates, GuardStates, ForceStates, RootDropped
<1> QED
  BY <1>1, <1>2, <1>3, <1>4, <1>5, <1>6, <1>7, <1>8, <1>9, <1>10 DEF IInv

(* Parent drops its reference to the value. *)
LEMMA DropParentValueKeeps ==
  ASSUME IInv, DropParentValue
  PROVE  IInv'
<1>1. TypeOK'
  <2>1. /\ withSlot' \in BOOLEAN /\ pending' \in BOOLEAN /\ panicked' \in BOOLEAN
        /\ data' \in BOOLEAN /\ inner' \in BOOLEAN /\ parentRef' \in BOOLEAN
    BY Zenon DEF IInv, TypeOK, DropParentValue, FreeValue, KeepValue, CloseAndAppend,
      Closable, outcome
  <2>2. emitted' \in 0..1 /\ freed' \in 0..1
    BY DEF IInv, TypeOK, OneFate, ValueIsCounted, Unpromoted, PayloadIsSomewhere, Lives,
      RootDropped, DropParentValue, FreeValue, KeepValue, CloseAndAppend, Closable, outcome
  <2>3. /\ at' \in [Actors -> {"none", "held", "live", "shared", "dropping", "dropValue", "letGo",
                             "upgraded", "took", "release", "gone"}]
        /\ handles' \subseteq Handles /\ refs' \subseteq Actors
        /\ payload' \in {"slot", "taken", "gone"} /\ rx' \in {"slot", "future", "gone"}
    BY DEF IInv, TypeOK, Actors, DropParentValue, FreeValue, KeepValue, CloseAndAppend,
      Closable, outcome
  <2>4. /\ promoted' \in BOOLEAN /\ discarded' \in BOOLEAN /\ childPanicked' \in BOOLEAN
        /\ slot' \in {"lazy", "fresh", "open", "sent"} /\ keeper' \in Guards \cup {NoGuard}
        /\ chan' \in {"empty", "value", "closed"}
    BY Zenon DEF IInv, TypeOK, slots, DropParentValue, FreeValue, KeepValue,
      CloseAndAppend, Closable, outcome
  <2>5. QED
    BY <2>1, <2>2, <2>3, <2>4 DEF TypeOK
<1> USE DEF DropParentValue, FreeValue, KeepValue, CloseAndAppend, Closable, outcome
<1>2. /\ Lives' /\ Unpromoted' /\ OneReleaser' /\ SlotIsSent'
  BY DEF IInv, Lives, Unpromoted, OneReleaser, SlotIsSent, RootStates, GuardStates,
    ForceStates, Actors
<1>3. RefsAreOwners'
  BY ActorsAssumption DEF IInv, RefsAreOwners, TypeOK, Lives, Actors, RootStates,
    GuardStates, ForceStates
<1>4. PayloadIsSomewhere'
  BY ActorsAssumption DEF IInv, PayloadIsSomewhere, TypeOK, Lives, Forced, Actors,
    RootStates, GuardStates, ForceStates
<1>5. ValueIsCounted'
  BY ActorsAssumption DEF IInv, ValueIsCounted, TypeOK, Lives, Actors, RootStates,
    GuardStates, ForceStates
<1>6. OneFate'
  BY ActorsAssumption DEF IInv, OneFate, TypeOK, Lives, RefsAreOwners, Unpromoted,
    OneReleaser, PayloadIsSomewhere, ValueIsCounted, RootDropped, Actors, RootStates,
    GuardStates, ForceStates, Forced
<1>7. WaitedSlotIsIncluded'
  BY ActorsAssumption DEF IInv, WaitedSlotIsIncluded, TypeOK, Lives, RefsAreOwners,
    Unpromoted, OneReleaser, PayloadIsSomewhere, ValueIsCounted, Forced, Actors,
    RootStates, GuardStates, ForceStates
<1> QED
  BY <1>1, <1>2, <1>3, <1>4, <1>5, <1>6, <1>7 DEF IInv

(* Parent drops its reference to the switch. *)
LEMMA DropParentGuardKeeps ==
  ASSUME IInv, DropParentGuard
  PROVE  IInv'
<1> USE DEF DropParentGuard, LetGo, LastRef, slots, outcome
<1>1. /\ TypeOK' /\ Lives' /\ Unpromoted' /\ ValueIsCounted' /\ OneFate' /\ SlotIsSent' /\
        WaitedSlotIsIncluded'
  BY DEF IInv, TypeOK, Lives, Unpromoted, ValueIsCounted, OneFate, SlotIsSent,
    WaitedSlotIsIncluded, Actors, RootStates, GuardStates, ForceStates, RootDropped, Forced
<1>2. RefsAreOwners'
  BY ActorsAssumption DEF IInv, RefsAreOwners, TypeOK, Lives, Actors, RootStates,
    GuardStates, ForceStates
<1>3. OneReleaser'
  BY ActorsAssumption DEF IInv, OneReleaser, TypeOK, Lives, RefsAreOwners, Unpromoted,
    Actors, RootStates, GuardStates, ForceStates
<1>4. PayloadIsSomewhere'
  BY ActorsAssumption DEF IInv, PayloadIsSomewhere, TypeOK, Lives, Forced, Actors,
    RootStates, GuardStates, ForceStates
<1> QED
  BY <1>1, <1>2, <1>3, <1>4 DEF IInv

(* A FlushGuard is dropped. *)
LEMMA DropGuardKeeps ==
  ASSUME IInv, NEW g \in Guards, DropGuard(g)
  PROVE  IInv'
<1> USE DEF DropGuard, FreeToDrop, LetGo, LastRef, slots, outcome
<1>1. /\ TypeOK' /\ Lives' /\ Unpromoted' /\ ValueIsCounted' /\ OneFate' /\ SlotIsSent' /\
        WaitedSlotIsIncluded'
  BY DEF IInv, TypeOK, Lives, Unpromoted, ValueIsCounted, OneFate, SlotIsSent,
    WaitedSlotIsIncluded, Actors, RootStates, GuardStates, ForceStates, RootDropped, Forced
<1>2. RefsAreOwners'
  BY ActorsAssumption DEF IInv, RefsAreOwners, TypeOK, Lives, Actors, RootStates,
    GuardStates, ForceStates
<1>3. OneReleaser'
  BY ActorsAssumption DEF IInv, OneReleaser, TypeOK, Lives, RefsAreOwners, Unpromoted,
    Actors, RootStates, GuardStates, ForceStates
<1>4. PayloadIsSomewhere'
  BY ActorsAssumption DEF IInv, PayloadIsSomewhere, TypeOK, Lives, Forced, Actors,
    RootStates, GuardStates, ForceStates
<1> QED
  BY <1>1, <1>2, <1>3, <1>4 DEF IInv

(* A DropAll lets go of the switch. *)
LEMMA DropForceKeeps ==
  ASSUME IInv, NEW f \in Forces, DropForce(f)
  PROVE  IInv'
<1> USE DEF DropForce, LetGo, LastRef, slots, outcome
<1>1. /\ TypeOK' /\ Lives' /\ Unpromoted' /\ PayloadIsSomewhere' /\ ValueIsCounted' /\ OneFate'
        /\ SlotIsSent' /\ WaitedSlotIsIncluded'
  BY DEF IInv, TypeOK, Lives, Unpromoted, PayloadIsSomewhere, ValueIsCounted, OneFate,
    SlotIsSent, WaitedSlotIsIncluded, Actors, RootStates, GuardStates, ForceStates, Forced,
    RootDropped
<1>2. RefsAreOwners'
  BY ActorsAssumption DEF IInv, RefsAreOwners, TypeOK, Lives, Actors, RootStates,
    GuardStates, ForceStates
<1>3. OneReleaser'
  BY ActorsAssumption DEF IInv, OneReleaser, TypeOK, Lives, RefsAreOwners, Unpromoted,
    Actors, RootStates, GuardStates, ForceStates
<1> QED
  BY <1>1, <1>2, <1>3 DEF IInv

(* The last owner destroys the switch. *)
LEMMA ReleaseKeeps ==
  ASSUME IInv, NEW a \in Actors, Release(a)
  PROVE  IInv'
<1>1. TypeOK'
  <2>1. /\ withSlot' \in BOOLEAN /\ pending' \in BOOLEAN /\ panicked' \in BOOLEAN
        /\ data' \in BOOLEAN /\ inner' \in BOOLEAN /\ parentRef' \in BOOLEAN
    BY Zenon DEF IInv, TypeOK, Release, MayRelease, DropPayload, FreeValue, KeepValue, CloseAndAppend,
      Closable, outcome
  <2>2. emitted' \in 0..1 /\ freed' \in 0..1
    BY DEF IInv, TypeOK, OneFate, ValueIsCounted, Unpromoted, PayloadIsSomewhere, Lives,
      RootDropped, Release, MayRelease, DropPayload, FreeValue, KeepValue, CloseAndAppend, Closable,
      outcome
  <2>3. /\ at' \in [Actors -> {"none", "held", "live", "shared", "dropping", "dropValue", "letGo",
                             "upgraded", "took", "release", "gone"}]
        /\ handles' \subseteq Handles /\ refs' \subseteq Actors
        /\ payload' \in {"slot", "taken", "gone"} /\ rx' \in {"slot", "future", "gone"}
    BY DEF IInv, TypeOK, Actors, Release, MayRelease, DropPayload, FreeValue, KeepValue,
      CloseAndAppend, Closable, outcome
  <2>4. /\ promoted' \in BOOLEAN /\ discarded' \in BOOLEAN /\ childPanicked' \in BOOLEAN
        /\ slot' \in {"lazy", "fresh", "open", "sent"} /\ keeper' \in Guards \cup {NoGuard}
        /\ chan' \in {"empty", "value", "closed"}
    BY Zenon DEF IInv, TypeOK, slots, Release, MayRelease, DropPayload, FreeValue, KeepValue,
      CloseAndAppend, Closable, outcome
  <2>5. QED
    BY <2>1, <2>2, <2>3, <2>4 DEF TypeOK
<1> USE DEF Release, MayRelease, DropPayload, FreeValue, KeepValue, CloseAndAppend, Closable, outcome
<1>2. /\ Lives' /\ RefsAreOwners' /\ Unpromoted' /\ OneReleaser' /\ ValueIsCounted' /\
        SlotIsSent'
  BY DEF IInv, Lives, RefsAreOwners, Unpromoted, OneReleaser, ValueIsCounted, SlotIsSent,
    RootStates, GuardStates, ForceStates, Actors
<1>3. PayloadIsSomewhere'
  BY ActorsAssumption DEF IInv, PayloadIsSomewhere, TypeOK, Lives, RefsAreOwners,
    Unpromoted, OneReleaser, ValueIsCounted, Forced, Actors, RootStates, GuardStates,
    ForceStates
<1>4. OneFate'
  BY ActorsAssumption DEF IInv, OneFate, TypeOK, Lives, RefsAreOwners, Unpromoted,
    OneReleaser, PayloadIsSomewhere, ValueIsCounted, RootDropped, Actors, RootStates,
    GuardStates, ForceStates, Forced
<1>5. WaitedSlotIsIncluded'
  BY ActorsAssumption DEF IInv, WaitedSlotIsIncluded, TypeOK, Lives, RefsAreOwners,
    Unpromoted, OneReleaser, PayloadIsSomewhere, ValueIsCounted, OneFate, SlotIsSent,
    Forced, Actors, RootStates, GuardStates, ForceStates, RootDropped
<1> QED
  BY <1>1, <1>2, <1>3, <1>4, <1>5 DEF IInv

(* A DropAll is dropped and looks for the switch. *)
LEMMA UpgradeKeeps ==
  ASSUME IInv, NEW f \in Forces, Upgrade(f)
  PROVE  IInv'
<1> USE DEF Upgrade, slots, outcome
<1>1. /\ TypeOK' /\ Unpromoted'
  BY DEF IInv, TypeOK, Unpromoted, Actors
<1>2. Lives'
  BY ActorsAssumption DEF IInv, Lives, TypeOK, RootStates, GuardStates, ForceStates, Actors
<1>3. RefsAreOwners'
  BY ActorsAssumption DEF IInv, RefsAreOwners, TypeOK, Lives, Actors, RootStates,
    GuardStates, ForceStates
<1>4. OneReleaser'
  BY ActorsAssumption DEF IInv, OneReleaser, TypeOK, Lives, Actors, RootStates,
    GuardStates, ForceStates
<1>5. PayloadIsSomewhere'
  BY ActorsAssumption DEF IInv, PayloadIsSomewhere, TypeOK, Lives, Forced, Actors,
    RootStates, GuardStates, ForceStates
<1>6. ValueIsCounted'
  BY ActorsAssumption DEF IInv, ValueIsCounted, TypeOK, Lives, Actors, RootStates,
    GuardStates, ForceStates
<1>7. OneFate'
  BY ActorsAssumption DEF IInv, OneFate, TypeOK, Lives, RootDropped, Actors, RootStates,
    GuardStates, ForceStates
<1>8. SlotIsSent'
  BY ActorsAssumption DEF IInv, SlotIsSent, TypeOK, Lives, Actors, RootStates, GuardStates,
    ForceStates
<1>9. WaitedSlotIsIncluded'
  BY ActorsAssumption DEF IInv, WaitedSlotIsIncluded, TypeOK, Lives, Forced, Actors,
    RootStates, GuardStates, ForceStates
<1> QED
  BY <1>1, <1>2, <1>3, <1>4, <1>5, <1>6, <1>7, <1>8, <1>9 DEF IInv

(* A DropAll takes the payload. *)
LEMMA TakeKeeps ==
  ASSUME IInv, NEW f \in Forces, Take(f)
  PROVE  IInv'
<1> USE DEF Take, AfterTake, slots, outcome
<1>1. /\ TypeOK' /\ Unpromoted'
  BY DEF IInv, TypeOK, Unpromoted, Actors
<1>2. Lives'
  BY ActorsAssumption DEF IInv, Lives, TypeOK, RootStates, GuardStates, ForceStates, Actors
<1>3. RefsAreOwners'
  BY ActorsAssumption DEF IInv, RefsAreOwners, TypeOK, Lives, Actors, RootStates,
    GuardStates, ForceStates
<1>4. OneReleaser'
  BY ActorsAssumption DEF IInv, OneReleaser, TypeOK, Lives, Actors, RootStates,
    GuardStates, ForceStates
<1>5. PayloadIsSomewhere'
  BY ActorsAssumption DEF IInv, PayloadIsSomewhere, TypeOK, Lives, Forced, Actors,
    RootStates, GuardStates, ForceStates
<1>6. ValueIsCounted'
  BY ActorsAssumption DEF IInv, ValueIsCounted, TypeOK, Lives, Actors, RootStates,
    GuardStates, ForceStates
<1>7. OneFate'
  BY ActorsAssumption DEF IInv, OneFate, TypeOK, Lives, RootDropped, Actors, RootStates,
    GuardStates, ForceStates
<1>8. SlotIsSent'
  BY ActorsAssumption DEF IInv, SlotIsSent, TypeOK, Lives, Actors, RootStates, GuardStates,
    ForceStates
<1>9. WaitedSlotIsIncluded'
  BY ActorsAssumption DEF IInv, WaitedSlotIsIncluded, TypeOK, Lives, Forced, Actors,
    RootStates, GuardStates, ForceStates
<1> QED
  BY <1>1, <1>2, <1>3, <1>4, <1>5, <1>6, <1>7, <1>8, <1>9 DEF IInv

(* A DropAll calls the payload. *)
LEMMA CallKeeps ==
  ASSUME IInv, NEW f \in Forces, Call(f)
  PROVE  IInv'
<1>1. TypeOK'
  <2>1. /\ withSlot' \in BOOLEAN /\ pending' \in BOOLEAN /\ panicked' \in BOOLEAN
        /\ data' \in BOOLEAN /\ inner' \in BOOLEAN /\ parentRef' \in BOOLEAN
    BY Zenon DEF IInv, TypeOK, Call, DropPayload, FreeValue, KeepValue, CloseAndAppend,
      Closable, outcome
  <2>2. emitted' \in 0..1 /\ freed' \in 0..1
    BY DEF IInv, TypeOK, OneFate, ValueIsCounted, Unpromoted, PayloadIsSomewhere, Lives,
      RootDropped, Call, DropPayload, FreeValue, KeepValue, CloseAndAppend, Closable,
      outcome
  <2>3. /\ at' \in [Actors -> {"none", "held", "live", "shared", "dropping", "dropValue", "letGo",
                             "upgraded", "took", "release", "gone"}]
        /\ handles' \subseteq Handles /\ refs' \subseteq Actors
        /\ payload' \in {"slot", "taken", "gone"} /\ rx' \in {"slot", "future", "gone"}
    BY DEF IInv, TypeOK, Actors, Call, DropPayload, FreeValue, KeepValue, CloseAndAppend,
      Closable, outcome
  <2>4. /\ promoted' \in BOOLEAN /\ discarded' \in BOOLEAN /\ childPanicked' \in BOOLEAN
        /\ slot' \in {"lazy", "fresh", "open", "sent"} /\ keeper' \in Guards \cup {NoGuard}
        /\ chan' \in {"empty", "value", "closed"}
    BY Zenon DEF IInv, TypeOK, slots, Call, DropPayload, FreeValue, KeepValue,
      CloseAndAppend, Closable, outcome
  <2>5. QED
    BY <2>1, <2>2, <2>3, <2>4 DEF TypeOK
<1> USE DEF Call, DropPayload, FreeValue, KeepValue, CloseAndAppend, Closable, outcome
<1>2. /\ Lives' /\ RefsAreOwners' /\ Unpromoted' /\ OneReleaser' /\ SlotIsSent' /\
        WaitedSlotIsIncluded'
  BY DEF IInv, Lives, RefsAreOwners, Unpromoted, OneReleaser, SlotIsSent,
    WaitedSlotIsIncluded, RootStates, GuardStates, ForceStates, Actors, Forced
<1>3. PayloadIsSomewhere'
  BY ActorsAssumption DEF IInv, PayloadIsSomewhere, TypeOK, Lives, Forced, Actors,
    RootStates, GuardStates, ForceStates
<1>4. ValueIsCounted'
  BY ActorsAssumption DEF IInv, ValueIsCounted, TypeOK, Lives, RefsAreOwners, Unpromoted,
    OneReleaser, PayloadIsSomewhere, Actors, RootStates, GuardStates, ForceStates, Forced
<1>5. OneFate'
  BY ActorsAssumption DEF IInv, OneFate, TypeOK, Lives, RefsAreOwners, Unpromoted,
    OneReleaser, PayloadIsSomewhere, ValueIsCounted, RootDropped, Actors, RootStates,
    GuardStates, ForceStates, Forced
<1> QED
  BY <1>1, <1>2, <1>3, <1>4, <1>5 DEF IInv

(* The slot is opened. *)
LEMMA OpenKeeps ==
  ASSUME IInv, NEW m \in {NoGuard} \cup Loose, Open(m)
  PROVE  IInv'
<1> USE DEF Open, Exclusive, Loose, lives, counts, outcome
<1>1. /\ Lives' /\ RefsAreOwners' /\ Unpromoted' /\ OneReleaser' /\ PayloadIsSomewhere' /\
        ValueIsCounted' /\ OneFate' /\ SlotIsSent'
  BY DEF IInv, Lives, RefsAreOwners, Unpromoted, OneReleaser, PayloadIsSomewhere,
    ValueIsCounted, OneFate, SlotIsSent, RootStates, GuardStates, ForceStates, Actors,
    Forced, RootDropped
<1>2. TypeOK'
  BY ActorsAssumption DEF IInv, TypeOK, Lives, Actors, RootStates, GuardStates, ForceStates
<1>3. WaitedSlotIsIncluded'
  BY ActorsAssumption DEF IInv, WaitedSlotIsIncluded, TypeOK, Lives, RefsAreOwners,
    Unpromoted, OneReleaser, PayloadIsSomewhere, ValueIsCounted, OneFate, SlotIsSent,
    Forced, Actors, RootStates, GuardStates, ForceStates, RootDropped
<1> QED
  BY <1>1, <1>2, <1>3 DEF IInv

(* The SlotGuard is given a FlushGuard. *)
LEMMA DelayFlushKeeps ==
  ASSUME IInv, NEW g \in Loose, DelayFlush(g)
  PROVE  IInv'
<1> USE DEF DelayFlush, Loose, lives, counts, outcome
<1>1. /\ TypeOK' /\ Lives' /\ RefsAreOwners' /\ Unpromoted' /\ OneReleaser' /\
        PayloadIsSomewhere' /\ ValueIsCounted' /\ OneFate' /\ SlotIsSent'
  BY DEF IInv, TypeOK, Lives, RefsAreOwners, Unpromoted, OneReleaser, PayloadIsSomewhere,
    ValueIsCounted, OneFate, SlotIsSent, Actors, RootStates, GuardStates, ForceStates,
    Forced, RootDropped
<1>2. WaitedSlotIsIncluded'
  BY ActorsAssumption DEF IInv, WaitedSlotIsIncluded, TypeOK, Lives, RefsAreOwners,
    Unpromoted, OneReleaser, PayloadIsSomewhere, ValueIsCounted, OneFate, SlotIsSent,
    Forced, Actors, RootStates, GuardStates, ForceStates, RootDropped
<1> QED
  BY <1>1, <1>2 DEF IInv

(* The SlotGuard sends its value. *)
LEMMA DropSlotGuardKeeps ==
  ASSUME IInv, NEW closes \in BOOLEAN, DropSlotGuard(closes)
  PROVE  IInv'
<1>1. TypeOK'
  <2>1. childPanicked' \in BOOLEAN
    BY Zenon DEF DropSlotGuard
  <2>2. slot' \in {"lazy", "fresh", "open", "sent"} /\ chan' \in {"empty", "value", "closed"}
    BY Zenon DEF DropSlotGuard
  <2>3. UNCHANGED <<lives, inner, counts, pending, keeper, rx, data, outcome, discarded, freed>>
    BY DEF DropSlotGuard
  <2>4. QED
    BY <2>1, <2>2, <2>3 DEF IInv, TypeOK, lives, counts, outcome
<1> USE DEF DropSlotGuard, lives, counts, outcome
<1>2. /\ Lives' /\ RefsAreOwners' /\ Unpromoted' /\ OneReleaser' /\ PayloadIsSomewhere' /\
        ValueIsCounted' /\ OneFate'
  BY DEF IInv, Lives, RefsAreOwners, Unpromoted, OneReleaser, PayloadIsSomewhere,
    ValueIsCounted, OneFate, RootStates, GuardStates, ForceStates, Actors, Forced,
    RootDropped
<1>3. SlotIsSent'
  BY ActorsAssumption DEF IInv, SlotIsSent, TypeOK, Lives, Actors, RootStates, GuardStates,
    ForceStates
<1>4. WaitedSlotIsIncluded'
  BY ActorsAssumption DEF IInv, WaitedSlotIsIncluded, TypeOK, Lives, RefsAreOwners,
    Unpromoted, OneReleaser, PayloadIsSomewhere, ValueIsCounted, OneFate, SlotIsSent,
    Forced, Actors, RootStates, GuardStates, ForceStates, RootDropped
<1> QED
  BY <1>1, <1>2, <1>3, <1>4 DEF IInv

(* wait_for_data takes the receiver. *)
LEMMA WaitForDataKeeps ==
  ASSUME IInv, WaitForData
  PROVE  IInv'
<1> USE DEF WaitForData, Exclusive, lives, counts, outcome
<1>1. /\ TypeOK' /\ Lives' /\ RefsAreOwners' /\ Unpromoted' /\ OneReleaser' /\
        PayloadIsSomewhere' /\ ValueIsCounted' /\ OneFate' /\ SlotIsSent' /\
        WaitedSlotIsIncluded'
  BY DEF IInv, TypeOK, Lives, RefsAreOwners, Unpromoted, OneReleaser, PayloadIsSomewhere,
    ValueIsCounted, OneFate, SlotIsSent, WaitedSlotIsIncluded, Actors, RootStates,
    GuardStates, ForceStates, Forced, RootDropped
<1> QED
  BY <1>1 DEF IInv

(* wait_for_data stores what was sent. *)
LEMMA WaitEndsKeeps ==
  ASSUME IInv, WaitEnds
  PROVE  IInv'
<1> USE DEF WaitEnds, lives, counts, outcome
<1>1. /\ TypeOK' /\ Lives' /\ RefsAreOwners' /\ Unpromoted' /\ OneReleaser' /\
        PayloadIsSomewhere' /\ ValueIsCounted' /\ OneFate' /\ SlotIsSent' /\
        WaitedSlotIsIncluded'
  BY DEF IInv, TypeOK, Lives, RefsAreOwners, Unpromoted, OneReleaser, PayloadIsSomewhere,
    ValueIsCounted, OneFate, SlotIsSent, WaitedSlotIsIncluded, Actors, RootStates,
    GuardStates, ForceStates, Forced, RootDropped
<1> QED
  BY <1>1 DEF IInv

(* A wait_for_data future is dropped. *)
LEMMA WaitCancelledKeeps ==
  ASSUME IInv, WaitCancelled
  PROVE  IInv'
<1> USE DEF WaitCancelled, lives, counts, outcome
<1>1. /\ TypeOK' /\ Lives' /\ RefsAreOwners' /\ Unpromoted' /\ OneReleaser' /\
        PayloadIsSomewhere' /\ ValueIsCounted' /\ OneFate' /\ SlotIsSent' /\
        WaitedSlotIsIncluded'
  BY DEF IInv, TypeOK, Lives, RefsAreOwners, Unpromoted, OneReleaser, PayloadIsSomewhere,
    ValueIsCounted, OneFate, SlotIsSent, WaitedSlotIsIncluded, Actors, RootStates,
    GuardStates, ForceStates, Forced, RootDropped
<1> QED
  BY <1>1 DEF IInv

-----------------------------------------------------------------------------
(* A new entry satisfies the invariant. *)
LEMMA InitEstablishes == Init => IInv
<1> SUFFICES ASSUME Init
             PROVE  IInv
  OBVIOUS
<1>1. TypeOK
  <2>1. rx \in {"slot", "gone"} /\ slot \in {"lazy", "fresh", "open", "sent"}
    BY DEF Init
  <2>2. at \in [Actors -> {"none", "held", "live", "shared", "dropping", "dropValue", "letGo",
                           "upgraded", "took", "release", "gone"}]
    BY DEF Init
  <2>3. emitted \in 0..1 /\ freed \in 0..1
    BY DEF Init
  <2>4. /\ handles \subseteq Handles /\ refs \subseteq Actors /\ keeper \in Guards \cup {NoGuard}
        /\ payload \in {"slot", "taken", "gone"} /\ chan \in {"empty", "value", "closed"}
        /\ rx \in {"slot", "future", "gone"}
    BY <2>1 DEF Init
  <2>5. /\ inner \in BOOLEAN /\ promoted \in BOOLEAN /\ parentRef \in BOOLEAN /\ pending \in BOOLEAN
        /\ data \in BOOLEAN /\ withSlot \in BOOLEAN /\ panicked \in BOOLEAN
        /\ discarded \in BOOLEAN /\ childPanicked \in BOOLEAN
    BY Zenon DEF Init
  <2>6. QED
    BY <2>1, <2>2, <2>3, <2>4, <2>5 DEF TypeOK
<1>2. Lives
  BY ActorsAssumption DEF Init, Lives, RootStates, GuardStates, ForceStates, Actors
<1>3. RefsAreOwners /\ Unpromoted /\ OneReleaser
  BY ActorsAssumption DEF Init, RefsAreOwners, Unpromoted, OneReleaser, Actors
<1>4. PayloadIsSomewhere /\ ValueIsCounted
  BY ActorsAssumption DEF Init, PayloadIsSomewhere, ValueIsCounted, Actors
<1>5. OneFate /\ SlotIsSent /\ WaitedSlotIsIncluded
  BY DEF Init, OneFate, SlotIsSent, WaitedSlotIsIncluded, RootDropped, Actors
<1>6. QED
  BY <1>1, <1>2, <1>3, <1>4, <1>5 DEF IInv

(* Every step keeps it. *)
LEMMA StepKeeps == IInv /\ [Next]_vars => IInv'
<1> SUFFICES ASSUME IInv, [Next]_vars
             PROVE  IInv'
  OBVIOUS
<1>1. CASE Program
  BY <1>1, FlushGuardKeeps, DropGuardKeeps, ForceFlushGuardKeeps, UpgradeKeeps,
    HandleKeeps, CloneHandleKeeps, DropHandleKeeps, DiscardKeeps, DropRootKeeps, OpenKeeps,
    DelayFlushKeeps, DropSlotGuardKeeps, WaitForDataKeeps, WaitEndsKeeps,
    WaitCancelledKeeps DEF Program
<1>2. CASE Running
  BY <1>2, DropParentValueKeeps, DropParentGuardKeeps, TakeKeeps, CallKeeps,
    DropForceKeeps, ReleaseKeeps DEF Running
<1>3. CASE UNCHANGED vars
  <2>1. UNCHANGED <<lives, inner, counts, pending, slots, outcome, discarded, childPanicked, freed>>
    BY <1>3 DEF vars
  <2>2. TypeOK' /\ Lives' /\ RefsAreOwners' /\ Unpromoted' /\ OneReleaser'
    BY <2>1 DEF IInv, TypeOK, Lives, RefsAreOwners, Unpromoted, OneReleaser, lives, counts,
       slots, outcome
  <2>3. PayloadIsSomewhere' /\ ValueIsCounted' /\ OneFate' /\ SlotIsSent' /\ WaitedSlotIsIncluded'
    BY <2>1 DEF IInv, PayloadIsSomewhere, ValueIsCounted, OneFate, SlotIsSent,
       WaitedSlotIsIncluded, Forced, RootDropped, lives, counts, slots, outcome
  <2>4. QED
    BY <2>2, <2>3 DEF IInv
<1> QED
  BY <1>1, <1>2, <1>3 DEF Next

(* The invariant gives the two properties that are not part of it. *)
LEMMA DueFromInvariant == IInv => ClosedOnlyWhenDue
BY ActorsAssumption DEF IInv, ClosedOnlyWhenDue, GuardsHeld, Forced, RootDropped, TypeOK,
   RefsAreOwners, Unpromoted, PayloadIsSomewhere, ValueIsCounted, OneFate, Actors

LEMMA SettledFromInvariant == IInv => Settles
<1> SUFFICES ASSUME IInv, RootDropped, ~MidDrop, GuardsHeld => Forced
             PROVE  /\ emitted = (IF discarded \/ panicked THEN 0 ELSE 1)
                    /\ ~(discarded /\ panicked)
                    /\ freed = (IF promoted THEN 1 ELSE 0)
  BY DEF Settles
<1>1. at[Root] = "gone"
  BY DEF IInv, Lives, RootStates, RootDropped, MidDrop, Actors
<1>2. payload # "taken"
  BY DEF IInv, PayloadIsSomewhere, MidDrop, Actors
<1>3. ASSUME promoted, payload = "slot"
      PROVE  FALSE
  <2>1. refs # {} /\ \A a \in Actors : at[a] # "release"
    BY <1>3 DEF IInv, PayloadIsSomewhere, MidDrop
  <2>2. GuardsHeld
    BY <1>1, <2>1 DEF IInv, TypeOK, RefsAreOwners, GuardsHeld, MidDrop, Actors
  <2>3. PICK f \in Forces : at[f] \notin {"none", "held"}
    BY <2>2 DEF Forced
  <2>4. at[f] = "gone"
    BY <2>3 DEF IInv, Lives, ForceStates, MidDrop, Actors
  <2>5. QED
    BY <1>3, <2>1, <2>4 DEF IInv, PayloadIsSomewhere
<1>4. freed = (IF promoted THEN 1 ELSE 0)
  BY <1>1, <1>2, <1>3 DEF IInv, TypeOK, ValueIsCounted, Unpromoted
<1>5. QED
  BY <1>1, <1>4 DEF IInv, OneFate, TypeOK, Unpromoted, RootDropped

(* The invariant holds in every reachable state. *)
LEMMA InvariantHolds == Spec => []IInv
BY InitEstablishes, StepKeeps, PTL DEF Spec

(* For any number of guards, force-flush guards and handles, and however their *)
(* drops race: when nothing delays the entry any more, it has met exactly one  *)
(* fate, and the value the guards share was freed exactly once.                *)
THEOREM EntryIsClosedOnce == Spec => [](TypeOK /\ Settles)
<1>1. IInv => TypeOK /\ Settles
  BY SettledFromInvariant DEF IInv
<1> QED BY <1>1, InvariantHolds, PTL

(* No entry is closed early: the root (or its last handle) is dropped, and no  *)
(* FlushGuard is held, unless a ForceFlushGuard was dropped.                   *)
THEOREM EntryIsClosedWhenDue == Spec => []ClosedOnlyWhenDue
BY DueFromInvariant, InvariantHolds, PTL

(* The value of a slot opened with OnParentDrop::Wait, or that delays the      *)
(* flush, is in the entry that is emitted, unless a ForceFlushGuard overrode   *)
(* it or closing the value panicked.                                          *)
THEOREM WaitedSlotIsInEntry == Spec => []WaitedSlotIsIncluded
<1>1. IInv => WaitedSlotIsIncluded
  BY DEF IInv
<1> QED BY <1>1, InvariantHolds, PTL
=============================================================================
