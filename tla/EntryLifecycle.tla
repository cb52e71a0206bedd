--------------------------- MODULE EntryLifecycle ---------------------------
(***************************************************************************)
(* From append_on_drop to the sink: one metric entry of the metrique crate.  *)
(*                                                                         *)
(* lib.rs         AppendAndCloseOnDrop, its handle, discard and the deferred *)
(*                emission (PendingEmit) the first guard promotes it to      *)
(* keep_alive.rs  Parent, Guard and DropAll: two reference counts, one on    *)
(*                the value and one on the switch that holds the guards'     *)
(*                reference to it                                           *)
(* slot.rs        one Slot (or LazySlot) of the entry and its SlotGuard      *)
(*                                                                         *)
(* A reference count is the set of its owners.  Dropping a reference and     *)
(* what the last one frees are separate steps: other threads run between.    *)
(***************************************************************************)
EXTENDS Integers, FiniteSets

CONSTANTS
  Guards,        (* FlushGuards the program may create                      *)
  Forces,        (* ForceFlushGuards the program may create                 *)
  Handles,       (* AppendAndCloseOnDropHandles the program may create      *)
  Root,          (* the AppendAndCloseOnDrop itself                         *)
  NoGuard        (* OnParentDrop::Discard                                   *)

Actors == {Root} \cup Guards \cup Forces

ASSUME ActorsAssumption ==
  /\ Root \notin Guards \cup Forces
  /\ Guards \cap Forces = {}
  /\ NoGuard \notin Actors

VARIABLES
  at,            (* at[a]: how far the life of an actor has got             *)
  handles,       (* live handles                                           *)
  inner,         (* the root still owns entry and sink                      *)
  promoted,      (* the LazyPromotionSlot is filled                         *)
  parentRef,     (* Parent's own reference to the value                     *)
  payload,       (* the guards' reference: "slot", "taken", "gone"          *)
  refs,          (* owners of the switch                                   *)
  pending,       (* PendingEmit holds entry and sink                        *)
  (* the slot *)
  slot,          (* "lazy", "fresh", "open" or "sent"                       *)
  keeper,        (* the FlushGuard inside the SlotGuard                     *)
  chan,          (* the oneshot channel: "empty", "value" or "closed"       *)
  rx,            (* its receiver: in the "slot", in a "future" or "gone"    *)
  data,          (* wait_for_data has stored a value                        *)
  (* history *)
  emitted,       (* entries appended to the sink                            *)
  withSlot,      (* the appended entry had the slot's fields                *)
  panicked,      (* closing the entry panicked                              *)
  discarded,
  childPanicked, (* closing the slot's value panicked                       *)
  freed          (* times the value was destroyed                           *)

lives == <<at, handles>>
counts == <<promoted, parentRef, payload, refs>>
slots == <<slot, keeper, chan, rx, data>>
outcome == <<emitted, withSlot, panicked>>
vars == <<lives, inner, counts, pending, slots, outcome, discarded, childPanicked, freed>>

(* append_and_close; the entry has a Slot or a LazySlot. *)
Init ==
  /\ at = [a \in Actors |-> IF a = Root THEN "live" ELSE "none"]
  /\ handles = {}
  /\ inner = TRUE
  /\ promoted = FALSE /\ parentRef = FALSE /\ payload = "gone" /\ refs = {}
  /\ pending = FALSE
  /\ slot \in {"lazy", "fresh"}
  /\ rx = IF slot = "fresh" THEN "slot" ELSE "gone"
  /\ keeper = NoGuard /\ chan = "empty" /\ data = FALSE
  /\ emitted = 0 /\ withSlot = FALSE /\ panicked = FALSE /\ discarded = FALSE
  /\ childPanicked = FALSE /\ freed = 0

-----------------------------------------------------------------------------
(* Closing and appending the entry. *)

(* Slot::close has a value to return, or the channel to ask; LazySlot::close  *)
(* need not have a Slot at all.                                              *)
Closable == data \/ rx = "slot" \/ slot = "lazy"

(* sink.append(RootEntry::new(entry.close())): the receiver goes with the     *)
(* slot, and a slot with neither value nor channel panics.                    *)
CloseAndAppend ==
  /\ IF Closable
     THEN /\ emitted' = emitted + 1
          /\ withSlot' = (data \/ (rx = "slot" /\ chan = "value"))
          /\ UNCHANGED panicked
     ELSE /\ panicked' = TRUE
          /\ UNCHANGED <<emitted, withSlot>>
  /\ rx' = "gone"
  /\ data' = FALSE

(* The last reference to the value is gone: PendingEmit::drop. *)
FreeValue ==
  /\ freed' = freed + 1
  /\ pending' = FALSE
  /\ IF pending THEN CloseAndAppend ELSE UNCHANGED <<outcome, rx, data>>

KeepValue == UNCHANGED <<freed, pending, outcome, rx, data>>

-----------------------------------------------------------------------------
(* What the owner of the root does while it has it to itself. *)

(* No wait_for_data future borrows the entry. *)
Exclusive == at[Root] = "live" /\ rx # "future"

(* Parent::new, and a reference for each of newRefs. *)
NewParent(newRefs) ==
  /\ refs' = {Root} \cup newRefs
  /\ parentRef' = TRUE
  /\ payload' = "slot"

(* LazyPromotionSlot::with_init. *)
Promote(newRefs) ==
  /\ promoted' = TRUE
  /\ IF promoted
     THEN /\ refs' = refs \cup newRefs
          /\ UNCHANGED <<parentRef, payload>>
     ELSE NewParent(newRefs)

(* flush_guard *)
FlushGuard(g) ==
  /\ Exclusive
  /\ at[g] = "none"
  /\ at' = [at EXCEPT ![g] = "held"]
  /\ Promote({g})
  /\ UNCHANGED <<handles, inner, pending, slots, outcome, discarded, childPanicked, freed>>

(* force_flush_guard holds a weak reference to the switch. *)
ForceFlushGuard(f) ==
  /\ Exclusive
  /\ at[f] = "none"
  /\ at' = [at EXCEPT ![f] = "held"]
  /\ Promote({})
  /\ UNCHANGED <<handles, inner, pending, slots, outcome, discarded, childPanicked, freed>>

(* handle consumes the root; from now on clones share it. *)
Handle(h) ==
  /\ Exclusive
  /\ at' = [at EXCEPT ![Root] = "shared"]
  /\ handles' = {h}
  /\ UNCHANGED <<inner, counts, pending, slots, outcome, discarded, childPanicked, freed>>

CloneHandle(h) ==
  /\ handles # {}
  /\ h \notin handles
  /\ handles' = handles \cup {h}
  /\ UNCHANGED <<at, inner, counts, pending, slots, outcome, discarded, childPanicked, freed>>

(* discard drops entry and sink; the drop of the root follows at once. *)
Discard ==
  /\ Exclusive
  /\ inner
  /\ inner' = FALSE
  /\ discarded' = TRUE
  /\ rx' = "gone"
  /\ at' = [at EXCEPT ![Root] = "dropping"]
  /\ UNCHANGED <<handles, counts, pending, slot, keeper, chan, data, outcome, childPanicked, freed>>

-----------------------------------------------------------------------------
(* Dropping the root. *)

(* Mutation: the entry is appended although there are guards. *)
NeverDefers == FALSE

(* Drop: hand the entry to PendingEmit or append it. *)
Defers == promoted

DropInner ==
  /\ inner' = FALSE
  /\ pending' = (inner /\ Defers)
  /\ IF inner /\ ~Defers THEN CloseAndAppend ELSE UNCHANGED <<outcome, rx, data>>
  /\ UNCHANGED <<counts, slot, keeper, chan, discarded, childPanicked, freed>>

AfterInner == IF promoted THEN "dropValue" ELSE "gone"

(* The owner drops the root, or discard has consumed it. *)
DropRoot ==
  /\ Exclusive \/ at[Root] = "dropping"
  /\ at' = [at EXCEPT ![Root] = AfterInner]
  /\ DropInner
  /\ UNCHANGED handles

(* A handle is dropped; the last one drops the root. *)
DropHandle(h) ==
  /\ h \in handles
  /\ handles' = handles \ {h}
  /\ IF handles = {h}
     THEN at' = [at EXCEPT ![Root] = AfterInner] /\ DropInner
     ELSE UNCHANGED <<at, inner, counts, pending, slots, outcome, discarded, childPanicked, freed>>

(* The fields of Parent are dropped in order: the value ... *)
DropParentValue ==
  /\ at[Root] = "dropValue"
  /\ parentRef' = FALSE
  /\ IF payload = "gone" THEN FreeValue ELSE KeepValue
  /\ at' = [at EXCEPT ![Root] = "letGo"]
  /\ UNCHANGED <<handles, inner, promoted, payload, refs, slot, keeper, chan, discarded,
                 childPanicked>>

-----------------------------------------------------------------------------
(* The switch. *)

(* The decrement that finds no other owner frees what is in the switch. *)
LastRef(a) == refs = {a}

(* An owner lets go of its reference to the switch: a guard that is dropped,  *)
(* the guard field of Parent, the reference a DropAll upgraded to.            *)
LetGo(a) ==
  /\ refs' = refs \ {a}
  /\ at' = [at EXCEPT ![a] = IF LastRef(a) THEN "release" ELSE "gone"]
  /\ UNCHANGED <<handles, inner, promoted, parentRef, payload, pending, slots, outcome,
                 discarded, childPanicked, freed>>

(* Mutation: nobody looks whether Parent was the last owner. *)
LeakValue == payload' = "gone" /\ KeepValue

(* The payload's reference to the value is dropped, and perhaps the value. *)
DropPayload ==
  /\ payload' = "gone"
  /\ IF parentRef THEN KeepValue ELSE FreeValue

(* Mutation: the destructor waits for a Parent that is gone. *)
ReleaseWaits(a) == at[a] = "release" /\ parentRef

(* A destructor is due, and nothing holds it up. *)
MayRelease(a) == at[a] = "release"

(* The switch is destroyed, with the payload if it is still in there. *)
Release(a) ==
  /\ MayRelease(a)
  /\ at' = [at EXCEPT ![a] = "gone"]
  /\ IF payload = "slot" THEN DropPayload ELSE KeepValue /\ UNCHANGED payload
  /\ UNCHANGED <<handles, inner, promoted, parentRef, refs, slot, keeper, chan, discarded,
                 childPanicked>>

DropParentGuard == at[Root] = "letGo" /\ LetGo(Root)

(* Mutation: the SlotGuard's fields are dropped before its value is sent. *)
FreeAnyTime(g) == TRUE

(* A FlushGuard inside a SlotGuard is dropped after SlotGuard::drop has run. *)
FreeToDrop(g) == keeper = g => slot = "sent"

DropGuard(g) == at[g] = "held" /\ FreeToDrop(g) /\ LetGo(g)

(* DropAll::drop: upgrade the weak reference, if there is an owner left; ...  *)
Upgrade(f) ==
  /\ at[f] = "held"
  /\ \/ /\ refs = {}
        /\ at' = [at EXCEPT ![f] = "gone"]
        /\ UNCHANGED refs
     \/ /\ refs # {}
        /\ at' = [at EXCEPT ![f] = "upgraded"]
        /\ refs' = refs \cup {f}
  /\ UNCHANGED <<handles, inner, promoted, parentRef, payload, pending, slots, outcome,
                 discarded, childPanicked, freed>>

(* What take leaves behind. *)
AfterTake == "taken"

(* ... take the payload, unless somebody has; ... *)
Take(f) ==
  /\ at[f] = "upgraded"
  /\ \/ /\ payload = "slot"
        /\ payload' = AfterTake
        /\ at' = [at EXCEPT ![f] = "took"]
     \/ /\ payload # "slot"
        /\ at' = [at EXCEPT ![f] = "letGo"]
        /\ UNCHANGED payload
  /\ UNCHANGED <<handles, inner, promoted, parentRef, refs, pending, slots, outcome,
                 discarded, childPanicked, freed>>

(* ... call it, which drops its reference to the value; ... *)
Call(f) ==
  /\ at[f] = "took"
  /\ at' = [at EXCEPT ![f] = "letGo"]
  /\ DropPayload
  /\ UNCHANGED <<handles, inner, promoted, parentRef, refs, slot, keeper, chan, discarded,
                 childPanicked>>

(* ... and let go. *)
DropForce(f) == at[f] = "letGo" /\ LetGo(f)

-----------------------------------------------------------------------------
(* The slot. *)

(* Guards that nobody has moved into the SlotGuard. *)
Loose == {g \in Guards : at[g] = "held" /\ keeper # g}

(* Slot::open, and LazySlot::open, which makes the channel. *)
Open(mode) ==
  /\ Exclusive
  /\ slot \in {"lazy", "fresh"}
  /\ slot' = "open"
  /\ keeper' = mode
  /\ rx' = "slot"
  /\ UNCHANGED <<lives, inner, counts, pending, chan, data, outcome, discarded, childPanicked, freed>>

(* delay_flush: a guard it replaces is dropped like any other. *)
DelayFlush(g) ==
  /\ slot = "open"
  /\ keeper' = g
  /\ UNCHANGED <<lives, inner, counts, pending, slot, chan, rx, data, outcome, discarded,
                 childPanicked, freed>>

(* SlotGuard::drop sends the closed value, if somebody still listens; when    *)
(* closing it panics the sender is dropped instead.                           *)
DropSlotGuard(closes) ==
  /\ slot = "open"
  /\ slot' = "sent"
  /\ chan' = IF closes /\ rx # "gone" THEN "value" ELSE "closed"
  /\ childPanicked' = ~closes
  /\ UNCHANGED <<lives, inner, counts, pending, keeper, rx, data, outcome, discarded, freed>>

(* wait_for_data: the receiver moves into the future, ... *)
WaitForData ==
  /\ Exclusive
  /\ slot # "lazy"
  /\ rx = "slot"
  /\ rx' = "future"
  /\ UNCHANGED <<lives, inner, counts, pending, slot, keeper, chan, data, outcome, discarded,
                 childPanicked, freed>>

(* ... which ends when the sender has sent or is gone, ... *)
WaitEnds ==
  /\ rx = "future"
  /\ chan # "empty"
  /\ data' = (chan = "value")
  /\ rx' = "gone"
  /\ UNCHANGED <<lives, inner, counts, pending, slot, keeper, chan, outcome, discarded,
                 childPanicked, freed>>

(* ... or is dropped while it waits (a timeout, a select!). *)
WaitCancelled ==
  /\ rx = "future"
  /\ rx' = "gone"
  /\ UNCHANGED <<lives, inner, counts, pending, slot, keeper, chan, data, outcome, discarded,
                 childPanicked, freed>>

-----------------------------------------------------------------------------
Program ==
  \/ \E g \in Guards : FlushGuard(g) \/ DropGuard(g)
  \/ \E f \in Forces : ForceFlushGuard(f) \/ Upgrade(f)
  \/ \E h \in Handles : Handle(h) \/ CloneHandle(h) \/ DropHandle(h)
  \/ Discard \/ DropRoot
  \/ \E m \in {NoGuard} \cup Loose : Open(m)
  \/ \E g \in Loose : DelayFlush(g)
  \/ \E closes \in BOOLEAN : DropSlotGuard(closes)
  \/ WaitForData \/ WaitEnds \/ WaitCancelled

(* What a drop does after it has begun. *)
Running ==
  \/ DropParentValue \/ DropParentGuard
  \/ \E f \in Forces : Take(f) \/ Call(f) \/ DropForce(f)
  \/ \E a \in Actors : Release(a)

Next == Program \/ Running

Spec == Init /\ [][Next]_vars

(* A drop that has begun is finished. *)
FairSpec == Spec /\ WF_vars(Running)

-----------------------------------------------------------------------------
(* Properties. *)

TypeOK ==
  /\ at \in [Actors -> {"none", "held", "live", "shared", "dropping", "dropValue", "letGo",
                        "upgraded", "took", "release", "gone"}]
  /\ handles \subseteq Handles
  /\ inner \in BOOLEAN /\ promoted \in BOOLEAN /\ parentRef \in BOOLEAN /\ pending \in BOOLEAN
  /\ payload \in {"slot", "taken", "gone"}
  /\ refs \subseteq Actors
  /\ slot \in {"lazy", "fresh", "open", "sent"}
  /\ keeper \in Guards \cup {NoGuard}
  /\ chan \in {"empty", "value", "closed"}
  /\ rx \in {"slot", "future", "gone"}
  /\ data \in BOOLEAN
  /\ emitted \in 0..1 /\ freed \in 0..1
  /\ withSlot \in BOOLEAN /\ panicked \in BOOLEAN /\ discarded \in BOOLEAN
  /\ childPanicked \in BOOLEAN

(* Some ForceFlushGuard has been dropped, or is being. *)
Forced == \E f \in Forces : at[f] \notin {"none", "held"}

GuardsHeld == \E g \in Guards : at[g] = "held"

RootDropped == at[Root] \notin {"live", "shared"}

MidDrop == \E a \in Actors : at[a] \in {"dropping", "dropValue", "letGo", "upgraded", "took", "release"}

(* The entry is closed only when it is due: the root (or its last handle) is  *)
(* dropped, and no FlushGuard is held unless a ForceFlushGuard was dropped.    *)
ClosedOnlyWhenDue ==
  emitted = 1 \/ panicked => RootDropped /\ (GuardsHeld => Forced)

(* When all that delays the entry is gone and no drop is under way, it has    *)
(* met exactly one fate, appended, discarded or lost to a panic in its close, *)
(* and the value the guards shared was freed exactly once, however drops of   *)
(* guards, of DropAlls and of the root raced.                                 *)
Settles ==
  RootDropped /\ ~MidDrop /\ (GuardsHeld => Forced) =>
    /\ emitted = (IF discarded \/ panicked THEN 0 ELSE 1)
    /\ ~(discarded /\ panicked)
    /\ freed = (IF promoted THEN 1 ELSE 0)

(* A slot opened with OnParentDrop::Wait, or told to delay the flush, is part *)
(* of the entry, unless a ForceFlushGuard overrode it or its value could not  *)
(* be closed.                                                                 *)
WaitedSlotIsIncluded ==
  emitted = 1 /\ keeper # NoGuard /\ ~Forced /\ ~childPanicked => withSlot

(* Once everything that delays it is dropped, the entry is closed. *)
DueIsClosed ==
  RootDropped /\ (GuardsHeld => Forced) ~> (emitted = 1 \/ panicked \/ discarded)

(* The unreachable! arm of Slot::close. *)
CloseIsTotal == ~panicked
=============================================================================
