------------------------------ MODULE EntrySink ------------------------------
(***************************************************************************)
(* What the EntrySink trait (metrique-writer-core/src/sink.rs) promises of a *)
(* sink with a bounded buffer: append always succeeds and drops the oldest   *)
(* buffered entry when the buffer is full; entries reach the stream in the   *)
(* order they were appended; a FlushWait resolves once everything appended   *)
(* before the request is flushed or dropped; and a sink that is shut down    *)
(* stops when what was appended before the shutdown is flushed or dropped.   *)
(* A sink may be cut short, by a shutdown deadline or a panic of its stream: *)
(* it then only promises that nobody is left waiting.                       *)
(*                                                                         *)
(* The k-th entry appended is the number k.                                *)
(***************************************************************************)
EXTENDS Integers, Sequences

CONSTANTS Capacity,   (* entries the buffer holds *)
          Flushes     (* names of flush requests  *)

VARIABLES
  appended,   (* number of entries appended                              *)
  buffer,     (* the ones in the buffer, oldest first                    *)
  writing,    (* the one being handed to the stream, 0 for none          *)
  written,    (* the ones the stream was given                           *)
  durable,    (* the ones it was given before its last flush             *)
  dropped,    (* the ones thrown out of a full buffer                    *)
  wait,       (* wait[f]: the FlushWait of f                             *)
  owed,       (* owed[f]: number of entries appended before f            *)
  asked,      (* the sink was asked to shut down ...                     *)
  due,        (* ... when this many entries had been appended            *)
  life        (* life of the sink                                        *)

contents == <<appended, buffer, writing, written, durable, dropped>>
requests == <<wait, owed>>
shutdown == <<asked, due>>
vars == <<contents, requests, shutdown, life>>

Init ==
  /\ appended = 0
  /\ buffer = <<>>
  /\ writing = 0
  /\ written = {}
  /\ durable = {}
  /\ dropped = {}
  /\ wait = [f \in Flushes |-> "none"]
  /\ owed = [f \in Flushes |-> 0]
  /\ asked = FALSE
  /\ due = 0
  /\ life = "open"

Settled(n) == 1..n \subseteq durable \cup dropped

Pending == {f \in Flushes : wait[f] \in {"waiting", "late"}}

(* A request made of an open sink may only resolve once it is settled. *)
MayResolve(f) == wait[f] = "waiting" => Settled(owed[f])

AppendEntry ==
  /\ appended' = appended + 1
  /\ \/ /\ Len(buffer) < Capacity
        /\ buffer' = Append(buffer, appended + 1)
        /\ UNCHANGED dropped
     \/ /\ Len(buffer) = Capacity
        /\ buffer' = Append(Tail(buffer), appended + 1)
        /\ dropped' = dropped \cup {Head(buffer)}
  /\ UNCHANGED <<writing, written, durable, requests, shutdown, life>>

Take ==
  /\ writing = 0
  /\ buffer # <<>>
  /\ writing' = Head(buffer)
  /\ buffer' = Tail(buffer)
  /\ UNCHANGED <<appended, written, durable, dropped, requests, shutdown, life>>

(* The write may be the last one the sink gets to make. *)
Write ==
  /\ writing # 0
  /\ written' = written \cup {writing}
  /\ writing' = 0
  /\ life' \in {life, "cut"}
  /\ UNCHANGED <<appended, buffer, durable, dropped, requests, shutdown>>

CutShort ==
  /\ life # "stopped"
  /\ life' = "cut"
  /\ UNCHANGED <<contents, requests, shutdown>>

Persist ==
  /\ writing = 0
  /\ durable' = written
  /\ UNCHANGED <<appended, buffer, writing, written, dropped, requests, shutdown, life>>

Request(f) ==
  /\ wait[f] = "none"
  /\ wait' = [wait EXCEPT ![f] = IF life = "open" THEN "waiting"
                                 ELSE IF life = "stopped" THEN "resolved"
                                 ELSE "late"]
  /\ owed' = [owed EXCEPT ![f] = appended]
  /\ UNCHANGED <<contents, shutdown, life>>

(* A sink that was cut short may also turn a request away at once. *)
Refuse(f) ==
  /\ life = "cut"
  /\ wait[f] = "none"
  /\ wait' = [wait EXCEPT ![f] = "resolved"]
  /\ owed' = [owed EXCEPT ![f] = appended]
  /\ UNCHANGED <<contents, shutdown, life>>

Resolved(F) == wait' = [f \in Flushes |-> IF f \in F THEN "resolved" ELSE wait[f]]

Resolve(F) ==
  /\ F \subseteq Pending
  /\ life # "cut" => \A f \in F : MayResolve(f)
  /\ Resolved(F)
  /\ UNCHANGED <<contents, owed, shutdown, life>>

Ask ==
  /\ ~asked
  /\ asked' = TRUE
  /\ due' = appended
  /\ UNCHANGED <<contents, requests, life>>

Close ==
  /\ life = "open"
  /\ life' = "closing"
  /\ UNCHANGED <<contents, requests, shutdown>>

(* Stopping settles the entries and answers every pending request. *)
Stop ==
  /\ life = "closing"
  /\ Settled(IF asked THEN due ELSE appended)
  /\ \A f \in Pending : MayResolve(f)
  /\ Resolved(Pending)
  /\ life' = "stopped"
  /\ UNCHANGED <<contents, owed, shutdown>>

Next ==
  \/ AppendEntry \/ Take \/ Write \/ Persist
  \/ Ask \/ Close \/ Stop \/ CutShort
  \/ \E f \in Flushes : Request(f) \/ Refuse(f)
  \/ \E F \in SUBSET Flushes : Resolve(F)

Spec == Init /\ [][Next]_vars
=============================================================================
