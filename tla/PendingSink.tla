----------------------------- MODULE PendingSink -----------------------------
(***************************************************************************)
(* The pending sink of metrique-util (pending_sink.rs): a sink that buffers  *)
(* entries in a bounded ring until a resolver hands it the real sink, then   *)
(* forwards.  append and resolve agree through a set-once slot and a counter *)
(* of the appends that may still write to the ring; there is no lock.        *)
(*                                                                         *)
(* An entry is the number of its append call.  Every step is one access to   *)
(* the shared state.  Atomics are sequentially consistent, as they are under *)
(* the repository's shuttle tests.                                          *)
(***************************************************************************)
EXTENDS Integers, Sequences, FiniteSets, Functions

CONSTANTS
  Threads,      (* callers of append and flush_async                        *)
  Capacity,     (* pending_sink::new's argument                             *)
  MaxEntries,   (* bound on append calls                                    *)
  MaxFlushes    (* bound on flush_async calls                               *)

ASSUME ThreadsAssumption == IsFiniteSet(Threads)
ASSUME CapacityAssumption == Capacity \in Nat \ {0}
ASSUME BoundsAssumption == MaxEntries \in Nat /\ MaxFlushes \in Nat

Entries == 1..MaxEntries

VARIABLES
  buffer,      (* Inner::buffer, oldest entry first                          *)
  sink_set,    (* Inner::sink holds the real sink                            *)
  cancelled,   (* Inner::cancelled                                           *)
  buffering,   (* Inner::buffering                                           *)
  at,          (* at[t]: where thread t is in append                         *)
  holds,       (* holds[t]: the entry it carries, 0 for none                 *)
  resolver,    (* where the PendingSinkResolver is                           *)
  in_hand,     (* entry popped by resolve and not yet appended, 0 for none   *)
  delivered,   (* what the real sink was given, in order                     *)
  (* history *)
  appended,    (* number of append calls begun                               *)
  flushes,     (* number of flush_async calls                                *)
  evicted,     (* entries force_push threw out                               *)
  discarded,   (* entries append dropped because the sink was cancelled      *)
  missed       (* entries appended before a forwarded flush, not covered by it *)

shared == <<buffer, sink_set, cancelled, buffering>>
fates == <<delivered, evicted, discarded>>
vars == <<shared, at, holds, resolver, in_hand, fates, appended, flushes, missed>>

Labels == {"idle", "forward", "cancel_check", "enter", "recheck", "leave", "push", "exit"}
ResolverStates == {"held", "spin", "drain", "resolved", "dropped"}

(* pending_sink::new *)
Init ==
  /\ buffer = <<>>
  /\ sink_set = FALSE
  /\ cancelled = FALSE
  /\ buffering = 0
  /\ at = [t \in Threads |-> "idle"]
  /\ holds = [t \in Threads |-> 0]
  /\ resolver = "held"
  /\ in_hand = 0
  /\ delivered = <<>>
  /\ appended = 0
  /\ flushes = 0
  /\ evicted = {}
  /\ discarded = {}
  /\ missed = {}

-----------------------------------------------------------------------------
(* append *)

Goto(t, label) == at' = [at EXCEPT ![t] = label]
LetsGo(t) == holds' = [holds EXCEPT ![t] = 0]

(* forward_or_return's look at the slot. *)
Begin(t) ==
  /\ at[t] = "idle"
  /\ appended < MaxEntries
  /\ appended' = appended + 1
  /\ holds' = [holds EXCEPT ![t] = appended + 1]
  /\ Goto(t, IF sink_set THEN "forward" ELSE "cancel_check")
  /\ UNCHANGED <<shared, resolver, in_hand, fates, flushes, missed>>

(* sink.append(entry): append returns. *)
Forward(t) ==
  /\ at[t] = "forward"
  /\ delivered' = Append(delivered, holds[t])
  /\ LetsGo(t)
  /\ Goto(t, "idle")
  /\ UNCHANGED <<shared, resolver, in_hand, evicted, discarded, appended, flushes, missed>>

CancelCheck(t) ==
  /\ at[t] = "cancel_check"
  /\ \/ /\ cancelled
        /\ discarded' = discarded \cup {holds[t]}
        /\ LetsGo(t)
        /\ Goto(t, "idle")
     \/ /\ ~cancelled
        /\ Goto(t, "enter")
        /\ UNCHANGED <<discarded, holds>>
  /\ UNCHANGED <<shared, resolver, in_hand, delivered, evicted, appended, flushes, missed>>

(* Mutation: straight to the ring, without the second look at the slot. *)
AfterEnterUnchecked == "push"

AfterEnter == "recheck"

CountUp == buffering + 1

(* buffering.fetch_add(1) *)
Enter(t) ==
  /\ at[t] = "enter"
  /\ buffering' = CountUp
  /\ Goto(t, AfterEnter)
  /\ UNCHANGED <<buffer, sink_set, cancelled, holds, resolver, in_hand, fates,
                 appended, flushes, missed>>

(* The second look at the slot. *)
Recheck(t) ==
  /\ at[t] = "recheck"
  /\ Goto(t, IF sink_set THEN "leave" ELSE "push")
  /\ UNCHANGED <<shared, holds, resolver, in_hand, fates, appended, flushes, missed>>

(* Mutation: the count is not given back. *)
CountKept == buffering

(* buffering.fetch_sub(1), wherever it happens. *)
CountDown == buffering - 1

(* The sink is there after all: fetch_sub, then forward. *)
Leave(t) ==
  /\ at[t] = "leave"
  /\ buffering' = CountDown
  /\ Goto(t, "forward")
  /\ UNCHANGED <<buffer, sink_set, cancelled, holds, resolver, in_hand, fates,
                 appended, flushes, missed>>

(* How many entries force_push throws out. *)
Displaced(b) == IF Len(b) < Capacity THEN 0 ELSE 1

(* buffer.force_push(entry) *)
Push(t) ==
  LET n == Displaced(buffer) IN
  /\ at[t] = "push"
  /\ buffer' = Append(SubSeq(buffer, n + 1, Len(buffer)), holds[t])
  /\ evicted' = evicted \cup {buffer[i] : i \in 1..n}
  /\ LetsGo(t)
  /\ Goto(t, "exit")
  /\ UNCHANGED <<sink_set, cancelled, buffering, resolver, in_hand, delivered, discarded,
                 appended, flushes, missed>>

(* buffering.fetch_sub(1): append returns. *)
Exit(t) ==
  /\ at[t] = "exit"
  /\ buffering' = CountDown
  /\ Goto(t, "idle")
  /\ UNCHANGED <<buffer, sink_set, cancelled, holds, resolver, in_hand, fates,
                 appended, flushes, missed>>

(* The entries whose append has returned, less those that were thrown away. *)
Accepted == (1..appended) \ (Range(holds) \cup evicted \cup discarded)

(* flush_async: forwarded to the real sink, which covers what it was given   *)
(* so far, or ready at once.                                                 *)
FlushAsync(t) ==
  /\ at[t] = "idle"
  /\ flushes < MaxFlushes
  /\ flushes' = flushes + 1
  /\ missed' = IF sink_set THEN missed \cup (Accepted \ Range(delivered)) ELSE missed
  /\ UNCHANGED <<shared, at, holds, resolver, in_hand, fates, appended>>

-----------------------------------------------------------------------------
(* The resolver. *)

(* resolve: sink.set(sink).  The resolver is consumed: set cannot fail. *)
ResolveSet ==
  /\ resolver = "held"
  /\ sink_set' = TRUE
  /\ resolver' = "spin"
  /\ UNCHANGED <<buffer, cancelled, buffering, at, holds, in_hand, fates, appended,
                 flushes, missed>>

(* The condition the spin loop waits for. *)
Quiescent == buffering = 0

(* The spin loop ends; while it does not, it changes nothing. *)
ResolveSpin ==
  /\ resolver = "spin"
  /\ Quiescent
  /\ resolver' = "drain"
  /\ UNCHANGED <<shared, at, holds, in_hand, fates, appended, flushes, missed>>

(* Mutation: the entry is read and left in the ring. *)
Peeked(b) == b

(* What pop leaves of a ring. *)
Popped(b) == Tail(b)

(* buffer.pop(): an entry, or None and resolve returns. *)
ResolvePop ==
  /\ resolver = "drain"
  /\ in_hand = 0
  /\ \/ /\ buffer # <<>>
        /\ in_hand' = Head(buffer)
        /\ buffer' = Popped(buffer)
        /\ UNCHANGED resolver
     \/ /\ buffer = <<>>
        /\ resolver' = "resolved"
        /\ UNCHANGED <<in_hand, buffer>>
  /\ UNCHANGED <<sink_set, cancelled, buffering, at, holds, fates, appended, flushes, missed>>

(* sink.append(entry) inside the drain. *)
ResolveAppend ==
  /\ resolver = "drain"
  /\ in_hand # 0
  /\ delivered' = Append(delivered, in_hand)
  /\ in_hand' = 0
  /\ UNCHANGED <<shared, at, holds, resolver, evicted, discarded, appended, flushes, missed>>

(* Drop without resolve: cancelled.store(true). *)
ResolverDrop ==
  /\ resolver = "held"
  /\ resolver' = "dropped"
  /\ cancelled' = TRUE
  /\ UNCHANGED <<buffer, sink_set, buffering, at, holds, in_hand, fates, appended,
                 flushes, missed>>

-----------------------------------------------------------------------------
InAppend(t) ==
  Forward(t) \/ CancelCheck(t) \/ Enter(t) \/ Recheck(t) \/ Leave(t) \/ Push(t) \/ Exit(t)

InResolve == ResolveSpin \/ ResolvePop \/ ResolveAppend

Next ==
  \/ \E t \in Threads : Begin(t) \/ InAppend(t) \/ FlushAsync(t)
  \/ ResolveSet \/ ResolverDrop \/ InResolve

Spec == Init /\ [][Next]_vars

(* An append that has begun and a resolve that has begun keep running.       *)
(* Nobody has to append or to resolve.                                       *)
FairSpec ==
  /\ Spec
  /\ WF_vars(InResolve)
  /\ \A t \in Threads : WF_vars(InAppend(t))

-----------------------------------------------------------------------------
(* Properties. *)

TypeOK ==
  /\ buffer \in Seq(Entries)
  /\ sink_set \in BOOLEAN
  /\ cancelled \in BOOLEAN
  /\ buffering \in Nat
  /\ at \in [Threads -> Labels]
  /\ holds \in [Threads -> 0..MaxEntries]
  /\ resolver \in ResolverStates
  /\ in_hand \in 0..MaxEntries
  /\ delivered \in Seq(Entries)
  /\ appended \in 0..MaxEntries
  /\ flushes \in 0..MaxFlushes
  /\ evicted \subseteq Entries
  /\ discarded \subseteq Entries
  /\ missed \subseteq Entries

(* Once resolve has returned nothing is left in the ring, and no append that *)
(* is still running will write to it: the promise the buffering counter is   *)
(* there for.                                                                *)
NothingStranded ==
  resolver = "resolved" => buffer = <<>> /\ \A t \in Threads : at[t] # "push"

(* The places an entry can be in. *)
Held == Range(holds) \ {0}
Places == <<Held, Range(buffer), {in_hand} \ {0}, Range(delivered), evicted, discarded>>

(* Every entry is in exactly one place and no place holds it twice: the real *)
(* sink gets it at most once, and it goes missing only by eviction from a    *)
(* full ring or by cancellation.                                             *)
ExactlyOneFate ==
  /\ UNION {Places[i] : i \in 1..6} = 1..appended
  /\ \A i, j \in 1..6 : i # j => Places[i] \cap Places[j] = {}
  /\ \A i, j \in 1..Len(buffer) : i # j => buffer[i] # buffer[j]
  /\ \A i, j \in 1..Len(delivered) : i # j => delivered[i] # delivered[j]
  /\ \A t, u \in Threads : t # u /\ holds[t] # 0 => holds[t] # holds[u]

(* resolve returns: the appends it waits for cannot keep it spinning. *)
ResolveReturns == (resolver = "spin") ~> (resolver = "resolved")

(* AnyEntrySink::flush_async covers the contents of the sink once resolve has  *)
(* returned: only a flush that is forwarded while resolve still drains the    *)
(* ring may complete without entries that were appended before it.           *)
FlushCoversContents == [][resolver = "resolved" => missed' = missed]_vars

-----------------------------------------------------------------------------
(* The inductive invariants behind NothingStranded and ExactlyOneFate. *)

(* The appends that may still write to the ring. *)
Inside == {t \in Threads : at[t] \in {"recheck", "leave", "push", "exit"}}

QuiescenceInv ==
  /\ TypeOK
  /\ buffering = Cardinality(Inside)
  /\ sink_set <=> resolver \in {"spin", "drain", "resolved"}
  /\ resolver \in {"drain", "resolved"} =>
       \A t \in Threads : at[t] \notin {"push", "exit"}
  /\ resolver = "resolved" => buffer = <<>>
  /\ \A t \in Threads : at[t] \in {"idle", "exit"} <=> holds[t] = 0

(* ExactlyOneFate with its places written out. *)
OneFate ==
  LET B == Range(buffer)
      I == {in_hand} \ {0}
      D == Range(delivered)
  IN
  /\ Held \cup B \cup I \cup D \cup evicted \cup discarded = 1..appended
  /\ Held \cap (B \cup I \cup D \cup evicted \cup discarded) = {}
  /\ B \cap (I \cup D \cup evicted \cup discarded) = {}
  /\ I \cap (D \cup evicted \cup discarded) = {}
  /\ D \cap (evicted \cup discarded) = {}
  /\ evicted \cap discarded = {}
  /\ \A i, j \in 1..Len(buffer) : i # j => buffer[i] # buffer[j]
  /\ \A i, j \in 1..Len(delivered) : i # j => delivered[i] # delivered[j]
  /\ \A t, u \in Threads : t # u /\ holds[t] # 0 => holds[t] # holds[u]
  /\ resolver # "drain" => in_hand = 0
=============================================================================
