-------------------------- MODULE EntryFormatProofs --------------------------
(***************************************************************************)
(* Proofs about EntryFormat, for every set of builder options, of default    *)
(* dimensions and of calls, and entries of any length.                       *)
(***************************************************************************)
EXTENDS EntryFormat, SequenceTheorems, FiniteSetTheorems, WellFoundedInduction, TLAPS

USE FormatAssumption

IInv == Shapes /\ NothingYet /\ ReportIsLast /\ AllIsNoted /\ LinesAreWellFormed

-----------------------------------------------------------------------------
(* Sequences, whatever is in them. *)

LEMMA NoFields ==
  /\ IsSeq(<<>>) /\ Range(<<>>) = {} /\ IsInjective(<<>>)
  /\ Range(NamesIn(<<>>)) = {} /\ IsInjective(NamesIn(<<>>))
<1>1. DOMAIN <<>> = {} /\ <<>> \in Seq({})
  OBVIOUS
<1>2. Range(<<>>) = {} /\ IsInjective(<<>>)
  BY <1>1 DEF Range, IsInjective
<1>3. DOMAIN NamesIn(<<>>) = {}
  BY <1>1 DEF NamesIn
<1>4. Range(NamesIn(<<>>)) = {} /\ IsInjective(NamesIn(<<>>))
  BY <1>3 DEF Range, IsInjective
<1> QED BY <1>1, <1>2, <1>4 DEF IsSeq

LEMMA SeqDomain ==
  ASSUME NEW s, IsSeq(s)
  PROVE  Len(s) \in Nat /\ DOMAIN s = 1..Len(s) /\ \A i \in DOMAIN s : s[i] \in Range(s)
BY DEF IsSeq, Range

LEMMA AppendSeq ==
  ASSUME NEW s, IsSeq(s), NEW x
  PROVE  /\ IsSeq(Append(s, x))
         /\ Range(Append(s, x)) = Range(s) \cup {x}
         /\ DOMAIN Append(s, x) = 1..(Len(s) + 1)
         /\ \A i \in DOMAIN s : Append(s, x)[i] = s[i]
         /\ Append(s, x)[Len(s) + 1] = x
<1> DEFINE S == Range(s) \cup {x}
<1>1. s \in Seq(S) /\ x \in S /\ Len(s) \in Nat /\ DOMAIN s = 1..Len(s)
  <2>1. s \in Seq(Range(s)) /\ Range(s) \subseteq S
    BY DEF IsSeq
  <2>2. s \in Seq(S)
    BY <2>1, SeqDomain
  <2> QED BY <2>2, SeqDomain
<1>2. /\ Append(s, x) \in Seq(S) /\ Len(Append(s, x)) = Len(s) + 1
      /\ DOMAIN Append(s, x) = 1..(Len(s) + 1)
      /\ \A i \in 1..Len(s) : Append(s, x)[i] = s[i]
      /\ Append(s, x)[Len(s) + 1] = x
  BY <1>1
<1>3. Range(Append(s, x)) = S
  <2>1. \A i \in 1..(Len(s) + 1) : i \in 1..Len(s) \/ i = Len(s) + 1
    BY <1>1
  <2>2. Len(s) + 1 \in 1..(Len(s) + 1) /\ 1..Len(s) \subseteq 1..(Len(s) + 1)
    BY <1>1
  <2> QED BY <1>1, <1>2, <2>1, <2>2 DEF Range
<1>4. IsSeq(Append(s, x))
  BY <1>2, <1>3 DEF IsSeq
<1> QED BY <1>1, <1>2, <1>3, <1>4

LEMMA AppendNew ==
  ASSUME NEW s, IsSeq(s), NEW x, IsInjective(s), x \notin Range(s)
  PROVE  IsInjective(Append(s, x))
<1>1. DOMAIN s = 1..Len(s) /\ Len(s) \in Nat /\ \A i \in DOMAIN s : s[i] # x
  BY SeqDomain
<1>2. \A i \in 1..(Len(s) + 1) : i \in 1..Len(s) \/ i = Len(s) + 1
  BY <1>1
<1>3. /\ DOMAIN Append(s, x) = 1..(Len(s) + 1) /\ Append(s, x)[Len(s) + 1] = x
      /\ \A i \in 1..Len(s) : Append(s, x)[i] = s[i]
  BY <1>1, AppendSeq
<1>4. \A i, j \in 1..Len(s) : s[i] = s[j] => i = j
  BY <1>1 DEF IsInjective
<1>5. \A i, j \in 1..(Len(s) + 1) : Append(s, x)[i] = Append(s, x)[j] => i = j
  BY <1>1, <1>2, <1>3, <1>4
<1> QED BY <1>3, <1>5 DEF IsInjective

(* A field more is a name more. *)
LEMMA AppendField ==
  ASSUME NEW s, IsSeq(s), NEW f
  PROVE  /\ IsSeq(NamesIn(s)) /\ DOMAIN NamesIn(s) = DOMAIN s
         /\ Range(NamesIn(Append(s, f))) = Range(NamesIn(s)) \cup {f.name}
         /\ IsInjective(NamesIn(s)) /\ f.name \notin Range(NamesIn(s)) =>
              IsInjective(NamesIn(Append(s, f)))
<1>1. Len(s) \in Nat /\ DOMAIN s = 1..Len(s) /\ DOMAIN NamesIn(s) = 1..Len(s)
  BY SeqDomain DEF NamesIn
<1>2. IsSeq(NamesIn(s))
  <2>1. \A i \in 1..Len(s) : NamesIn(s)[i] \in Range(NamesIn(s))
    BY <1>1 DEF Range
  <2>2. NamesIn(s) = [i \in 1..Len(s) |-> s[i].name]
    BY <1>1 DEF NamesIn
  <2>3. NamesIn(s) \in [1..Len(s) -> Range(NamesIn(s))]
    BY <2>1, <2>2
  <2> QED BY <1>1, <2>3 DEF IsSeq
<1>3. NamesIn(Append(s, f)) = Append(NamesIn(s), f.name)
  <2>1. Len(NamesIn(s)) = Len(s)
    BY <1>1, <1>2, SeqDomain
  <2>2. /\ DOMAIN Append(NamesIn(s), f.name) = 1..(Len(s) + 1)
        /\ \A i \in 1..Len(s) : Append(NamesIn(s), f.name)[i] = s[i].name
        /\ Append(NamesIn(s), f.name)[Len(s) + 1] = f.name
        /\ IsSeq(Append(NamesIn(s), f.name))
    BY <1>1, <1>2, <2>1, AppendSeq DEF NamesIn
  <2>3. /\ DOMAIN Append(s, f) = 1..(Len(s) + 1)
        /\ \A i \in 1..Len(s) : Append(s, f)[i] = s[i]
        /\ Append(s, f)[Len(s) + 1] = f
    BY <1>1, AppendSeq
  <2>4. NamesIn(Append(s, f)) = [i \in 1..(Len(s) + 1) |-> Append(s, f)[i].name]
    BY <2>3 DEF NamesIn
  <2>5. \A i \in 1..(Len(s) + 1) : i \in 1..Len(s) \/ i = Len(s) + 1
    BY <1>1
  <2>6. \A i \in 1..(Len(s) + 1) : Append(s, f)[i].name = Append(NamesIn(s), f.name)[i]
    BY <2>2, <2>3, <2>5
  <2>7. Append(NamesIn(s), f.name) = [i \in 1..(Len(s) + 1) |-> Append(NamesIn(s), f.name)[i]]
    BY <2>2 DEF IsSeq
  <2> QED BY <2>4, <2>6, <2>7
<1> QED BY <1>1, <1>2, <1>3, AppendSeq, AppendNew

-----------------------------------------------------------------------------
(* The parts of AllIsNoted, with the buffers and the map as parameters. *)

Kind(vm, n) == IF n \in DOMAIN vm THEN vm[n] ELSE Unfound

StringsNoted(sf, vm) ==
  /\ IsSeq(sf) /\ IsInjective(sf)
  /\ \A n \in Range(sf) : Kind(vm, n).kind = "string"
  /\ \A n \in DOMAIN vm : Kind(vm, n).kind \in {"unfound", "metric"} \/ n \in Range(sf)

MetricsNoted(buf, index, vm) ==
  /\ IsSeq(buf.fields) /\ IsSeq(buf.metrics)
  /\ IsInjective(NamesIn(buf.fields))
  /\ Range(buf.metrics) \subseteq Range(NamesIn(buf.fields))
  /\ \A n \in Range(NamesIn(buf.fields)) :
       Kind(vm, n).kind = "metric" /\ index \in Kind(vm, n).indexes

DimensionsNoted(base, vm) ==
  \A d \in base : d \in DOMAIN vm /\ Kind(vm, d).kind # "metric"

Noted(s, base, vm) ==
  /\ StringsNoted(s.string_fields, vm)
  /\ MetricsNoted(s.global, 0, vm)
  /\ \A k \in DOMAIN s.sets : MetricsNoted(s.sets[k], s.sets[k].index, vm)
  /\ DimensionsNoted(base, vm)
  /\ \A k \in DOMAIN s.sets : UNION s.sets[k].dimensions \subseteq base \cup DimensionNames(k)

Base(w) == UNION BaseDimensions(w)

LEMMA NotedInParts ==
  /\ AllIsNoted <=> (phase = "writing" /\ Strict /\ ~writer.error =>
                       Noted(state, Base(writer), writer.validation_map))
  /\ AllIsNoted' <=> (phase' = "writing" /\ Strict' /\ ~writer'.error =>
                        Noted(state', Base(writer'), writer'.validation_map))
<1>1. AllIsNoted <=> (phase = "writing" /\ Strict /\ ~writer.error =>
                       Noted(state, Base(writer), writer.validation_map))
  BY DEF AllIsNoted, Noted, StringsAreNoted, StringsNoted, MetricsAreNoted, MetricsNoted,
         DimensionsAreNoted, DimensionsNoted, KindOf, Kind, Base
<1>2. AllIsNoted' <=> (phase' = "writing" /\ Strict' /\ ~writer'.error =>
                        Noted(state', Base(writer'), writer'.validation_map))
  BY DEF AllIsNoted, Noted, StringsAreNoted, StringsNoted, MetricsAreNoted, MetricsNoted,
         DimensionsAreNoted, DimensionsNoted, KindOf, Kind, Base
<1> QED BY <1>1, <1>2

LEMMA Kinds ==
  /\ Unfound.kind = "unfound" /\ StringLine.kind = "string"
  /\ \A is : MetricLine(is).kind = "metric" /\ MetricLine(is).indexes = is
  /\ "unfound" # "string" /\ "unfound" # "metric" /\ "string" # "metric"
BY DEF Unfound, StringLine, MetricLine

(* validate_string notes a string that was written. *)
LEMMA StringIsNoted ==
  ASSUME NEW s, NEW base, NEW vm, Noted(s, base, vm), NEW n, Kind(vm, n).kind = "unfound",
         "string_fields" \in DOMAIN s
  PROVE  Noted([s EXCEPT !.string_fields = Append(@, n)], base, Put(vm, n, StringLine))
<1> DEFINE vm2 == Put(vm, n, StringLine)
           s2 == [s EXCEPT !.string_fields = Append(@, n)]
<1>1. /\ DOMAIN vm2 = DOMAIN vm \cup {n} /\ Kind(vm2, n).kind = "string"
      /\ \A m : m # n => Kind(vm2, m) = Kind(vm, m)
  <2>1. /\ DOMAIN vm2 = DOMAIN vm \cup {n} /\ Kind(vm2, n) = StringLine
        /\ \A m : m # n => Kind(vm2, m) = Kind(vm, m)
    BY DEF Put, Kind
  <2> QED BY <2>1, Kinds, Zenon
<1>2. s2.string_fields = Append(s.string_fields, n) /\ s2.global = s.global /\ s2.sets = s.sets
  OBVIOUS
<1> HIDE DEF vm2, s2
<1>3. StringsNoted(s2.string_fields, vm2)
  <2>1. IsSeq(s.string_fields) /\ IsInjective(s.string_fields) /\ n \notin Range(s.string_fields)
    BY Kinds DEF Noted, StringsNoted
  <2>2. /\ IsSeq(s2.string_fields) /\ IsInjective(s2.string_fields)
        /\ Range(s2.string_fields) = Range(s.string_fields) \cup {n}
    BY <1>2, <2>1, AppendSeq, AppendNew
  <2> QED BY <1>1, <2>2 DEF Noted, StringsNoted
<1>4. ASSUME NEW buf, NEW index, MetricsNoted(buf, index, vm) PROVE MetricsNoted(buf, index, vm2)
  <2>1. n \notin Range(NamesIn(buf.fields))
    BY <1>4, Kinds DEF MetricsNoted
  <2> QED BY <1>1, <1>4, <2>1 DEF MetricsNoted
<1>5. DimensionsNoted(base, vm2)
  BY <1>1 DEF Noted, DimensionsNoted
<1>6. Noted(s2, base, vm2)
  BY <1>2, <1>3, <1>4, <1>5 DEF Noted
<1> QED BY <1>6 DEF s2, vm2

(* What write_metric leaves in the buffers of a line. *)
LEMMA WriteMetricAdds ==
  ASSUME NEW buf, NEW c, NEW m, {"fields", "metrics"} \subseteq DOMAIN buf
  PROVE  LET new == WriteMetric(buf, c, m)
         IN  /\ DOMAIN new = DOMAIN buf
             /\ \A f \in DOMAIN buf \ {"fields", "metrics"} : new[f] = buf[f]
             /\ \/ new = buf
                \/ /\ new.fields = Append(buf.fields, EmfField(c, m))
                   /\ new.metrics \in {buf.metrics, Append(buf.metrics, c.name)}
BY DEF WriteMetric

LEMMA MetricIsNoted ==
  ASSUME NEW buf, NEW c, NEW m, {"fields", "metrics"} \subseteq DOMAIN buf,
         NEW index, NEW vm, NEW vm2, MetricsNoted(buf, index, vm),
         c.name \notin Range(NamesIn(buf.fields)),
         Kind(vm2, c.name).kind = "metric" /\ index \in Kind(vm2, c.name).indexes,
         \A n : n # c.name => Kind(vm2, n) = Kind(vm, n)
  PROVE  MetricsNoted(WriteMetric(buf, c, m), index, vm2)
<1> DEFINE new == WriteMetric(buf, c, m)
<1>1. CASE new = buf
  BY <1>1 DEF MetricsNoted
<1>2. CASE /\ new.fields = Append(buf.fields, EmfField(c, m))
           /\ new.metrics \in {buf.metrics, Append(buf.metrics, c.name)}
  <2> HIDE DEF new
  <2>1. EmfField(c, m).name = c.name
    BY DEF EmfField
  <2>2. /\ IsSeq(new.fields) /\ IsInjective(NamesIn(new.fields))
        /\ Range(NamesIn(new.fields)) = Range(NamesIn(buf.fields)) \cup {c.name}
    <3>1. PICK f : f = EmfField(c, m) /\ f.name = c.name
      BY <2>1
    <3>2. PICK fs : fs = buf.fields /\ IsSeq(fs) /\ IsInjective(NamesIn(fs))
      BY DEF MetricsNoted
    <3>3. IsSeq(Append(fs, f))
      BY <3>2, AppendSeq
    <3>4. f.name \notin Range(NamesIn(fs))
      BY <3>1, <3>2
    <3>5. /\ IsInjective(NamesIn(Append(fs, f)))
          /\ Range(NamesIn(Append(fs, f))) = Range(NamesIn(fs)) \cup {f.name}
      BY <3>2, <3>4, AppendField
    <3> QED BY <1>2, <3>1, <3>2, <3>3, <3>5
  <2>3. IsSeq(new.metrics) /\ Range(new.metrics) \subseteq Range(buf.metrics) \cup {c.name}
    <3>1. PICK ms : ms = buf.metrics /\ IsSeq(ms)
      BY DEF MetricsNoted
    <3>2. PICK n : n = c.name
      OBVIOUS
    <3>3. IsSeq(Append(ms, n)) /\ Range(Append(ms, n)) = Range(ms) \cup {n}
      BY <3>1, AppendSeq
    <3> QED BY <1>2, <3>1, <3>2, <3>3
  <2>4. MetricsNoted(new, index, vm2)
    BY <2>2, <2>3 DEF MetricsNoted
  <2> QED BY <2>4 DEF new
<1> QED BY <1>1, <1>2, WriteMetricAdds

(* vm2 is vm after the check of ValueWriter::metric has noted name n for the   *)
(* line with that index.                                                      *)
NotesLine(vm, vm2, n, index) ==
  /\ Kind(vm2, n).kind = "metric" /\ index \in Kind(vm2, n).indexes
  /\ \A m : m # n => Kind(vm2, m) = Kind(vm, m)
  /\ \A sf : StringsNoted(sf, vm) => StringsNoted(sf, vm2)
  /\ \A base : DimensionsNoted(base, vm) => DimensionsNoted(base, vm2)
  /\ \A buf, j : MetricsNoted(buf, j, vm) => MetricsNoted(buf, j, vm2)
  /\ \A buf : MetricsNoted(buf, index, vm) => n \notin Range(NamesIn(buf.fields))

LEMMA LineIsNoted ==
  ASSUME NEW vm, NEW n, NEW is, NEW index, index \notin is,
         \/ n \notin DOMAIN vm /\ is = {}
         \/ n \in DOMAIN vm /\ vm[n].kind = "metric" /\ vm[n].indexes = is,
         NEW vm2, vm2 = Put(vm, n, MetricLine(is \cup {index}))
  PROVE  NotesLine(vm, vm2, n, index)
<1>1. /\ DOMAIN vm2 = DOMAIN vm \cup {n} /\ Kind(vm2, n) = MetricLine(is \cup {index})
      /\ \A m : m # n => Kind(vm2, m) = Kind(vm, m)
  BY DEF Put, Kind
<1>2. Kind(vm2, n).kind = "metric" /\ Kind(vm2, n).indexes = is \cup {index}
  BY <1>1, Kinds
<1>3. \/ n \notin DOMAIN vm /\ Kind(vm, n).kind = "unfound"
      \/ Kind(vm, n).kind = "metric" /\ Kind(vm, n).indexes = is
  BY Kinds DEF Kind
<1>4. ASSUME NEW sf, StringsNoted(sf, vm) PROVE StringsNoted(sf, vm2)
  <2>1. n \notin Range(sf)
    BY <1>3, <1>4, Kinds DEF StringsNoted
  <2> QED BY <1>1, <1>2, <1>4, <2>1, Kinds DEF StringsNoted
<1>5. ASSUME NEW base, DimensionsNoted(base, vm) PROVE DimensionsNoted(base, vm2)
  <2>1. n \notin base
    BY <1>3, <1>5, Kinds DEF DimensionsNoted
  <2> QED BY <1>1, <1>5, <2>1 DEF DimensionsNoted
<1>6. ASSUME NEW buf, NEW j, MetricsNoted(buf, j, vm) PROVE MetricsNoted(buf, j, vm2)
  <2>1. \A x \in Range(NamesIn(buf.fields)) :
          Kind(vm2, x).kind = "metric" /\ j \in Kind(vm2, x).indexes
    <3> TAKE x \in Range(NamesIn(buf.fields))
    <3>1. Kind(vm, x).kind = "metric" /\ j \in Kind(vm, x).indexes
      BY <1>6 DEF MetricsNoted
    <3>2. CASE x = n
      BY <3>1, <3>2, <1>2, <1>3, Kinds
    <3>3. CASE x # n
      BY <3>1, <3>3, <1>1
    <3> QED BY <3>2, <3>3
  <2> QED BY <1>6, <2>1 DEF MetricsNoted
<1>7. ASSUME NEW buf, MetricsNoted(buf, index, vm) PROVE n \notin Range(NamesIn(buf.fields))
  BY <1>3, <1>7, Kinds DEF MetricsNoted
<1> QED BY <1>1, <1>2, <1>4, <1>5, <1>6, <1>7 DEF NotesLine

HasShape(s) ==
  /\ DOMAIN s = {"string_fields", "global", "sets"}
  /\ {"fields", "metrics"} \subseteq DOMAIN s.global
  /\ \A k \in DOMAIN s.sets :
       {"index", "dimensions", "fields", "metrics"} \subseteq DOMAIN s.sets[k]

(* A metric in the global buffers. *)
LEMMA GlobalIsNoted ==
  ASSUME NEW s, HasShape(s), NEW base, NEW vm, Noted(s, base, vm), NEW c, NEW m,
         NEW is, 0 \notin is,
         \/ c.name \notin DOMAIN vm /\ is = {}
         \/ c.name \in DOMAIN vm /\ vm[c.name].kind = "metric" /\ vm[c.name].indexes = is
  PROVE  Noted([s EXCEPT !.global = WriteMetric(@, c, m)], base,
               Put(vm, c.name, MetricLine(is \cup {0})))
<1>1. PICK n : n = c.name
  OBVIOUS
<1>2. PICK vm2 : vm2 = Put(vm, n, MetricLine(is \cup {0}))
  OBVIOUS
<1>3. NotesLine(vm, vm2, n, 0)
  BY <1>1, <1>2, LineIsNoted, Zenon
<1>4. PICK s2 : s2 = [s EXCEPT !.global = WriteMetric(@, c, m)]
  OBVIOUS
<1>5. /\ s2.string_fields = s.string_fields /\ s2.sets = s.sets
      /\ s2.global = WriteMetric(s.global, c, m)
  BY <1>4 DEF HasShape
<1>6. MetricsNoted(s2.global, 0, vm2)
  BY <1>1, <1>3, <1>5, MetricIsNoted DEF HasShape, Noted, NotesLine
<1>7. Noted(s2, base, vm2)
  BY <1>3, <1>5, <1>6 DEF Noted, NotesLine
<1> QED BY <1>1, <1>2, <1>4, <1>7

(* A metric in the buffers of a dimension set, new or not. *)
LEMMA SetIsNoted ==
  ASSUME NEW s, HasShape(s), NEW base, NEW vm, Noted(s, base, vm), NEW c, NEW m, NEW key,
         NEW set, {"index", "dimensions", "fields", "metrics"} \subseteq DOMAIN set,
         \/ key \in DOMAIN s.sets /\ set = s.sets[key]
         \/ /\ set.fields = <<>> /\ set.metrics = <<>>
            /\ UNION set.dimensions \subseteq base \cup DimensionNames(key),
         NEW is, set.index \notin is,
         \/ c.name \notin DOMAIN vm /\ is = {}
         \/ c.name \in DOMAIN vm /\ vm[c.name].kind = "metric" /\ vm[c.name].indexes = is
  PROVE  Noted([s EXCEPT !.sets = Put(@, key, WriteMetric(set, c, m))], base,
               Put(vm, c.name, MetricLine(is \cup {set.index})))
<1>1. PICK n : n = c.name
  OBVIOUS
<1>2. PICK vm2 : vm2 = Put(vm, n, MetricLine(is \cup {set.index}))
  OBVIOUS
<1> DEFINE index == set.index
<1>3. NotesLine(vm, vm2, n, index)
  BY <1>1, <1>2, LineIsNoted, Zenon
<1>4. PICK new : new = WriteMetric(set, c, m)
  OBVIOUS
<1>5. PICK s2 : s2 = [s EXCEPT !.sets = Put(@, key, new)]
  OBVIOUS
<1>6. /\ s2.string_fields = s.string_fields /\ s2.global = s.global
      /\ DOMAIN s2.sets = DOMAIN s.sets \cup {key} /\ s2.sets[key] = new
      /\ \A k \in DOMAIN s.sets \ {key} : s2.sets[k] = s.sets[k]
  BY <1>5 DEF HasShape, Put
<1>7. MetricsNoted(set, index, vm) /\ UNION set.dimensions \subseteq base \cup DimensionNames(key)
  <2>1. CASE key \in DOMAIN s.sets /\ set = s.sets[key]
    BY <2>1 DEF Noted
  <2>2. CASE /\ set.fields = <<>> /\ set.metrics = <<>>
             /\ UNION set.dimensions \subseteq base \cup DimensionNames(key)
    BY <2>2, NoFields DEF MetricsNoted
  <2> QED BY <2>1, <2>2
<1>8. new.index = index /\ new.dimensions = set.dimensions
  BY <1>4, WriteMetricAdds
<1>9. MetricsNoted(new, index, vm2)
  BY <1>1, <1>3, <1>4, <1>7, MetricIsNoted DEF NotesLine
<1>10. \A k \in DOMAIN s2.sets : MetricsNoted(s2.sets[k], s2.sets[k].index, vm2)
  BY <1>3, <1>6, <1>8, <1>9 DEF Noted, NotesLine
<1>11. \A k \in DOMAIN s2.sets : UNION s2.sets[k].dimensions \subseteq base \cup DimensionNames(k)
  BY <1>6, <1>7, <1>8 DEF Noted
<1>12. Noted(s2, base, vm2)
  BY <1>3, <1>6, <1>10, <1>11 DEF Noted, NotesLine
<1> QED BY <1>1, <1>2, <1>4, <1>5, <1>12

-----------------------------------------------------------------------------
(* The calls of an entry. *)

WriterShape(w) ==
  /\ DOMAIN w = {"validation_map", "has_dimensions", "entry_dimensions", "timestamp",
                 "error", "split", "unroutable"}
  /\ \A f \in {"has_dimensions", "timestamp", "error", "split", "unroutable"} : w[f] \in BOOLEAN

LEMMA ShapesInParts ==
  /\ Shapes <=> /\ options \in Options /\ calls \in Seq(Calls)
                /\ WriterShape(writer) /\ HasShape(state)
  /\ Shapes' <=> /\ options' \in Options /\ calls' \in Seq(Calls)
                 /\ WriterShape(writer') /\ HasShape(state')
BY DEF Shapes, WriterShape, HasShape

(* Until finish there are no lines. *)
LEMMA NoLinesYet ==
  ASSUME emf = Nothing
  PROVE  LinesAreWellFormed
<1>1. emf.lines = {}
  BY DEF Nothing
<1> QED BY <1>1 DEF LinesAreWellFormed

LEMMA CallIsMade ==
  ASSUME IInv, NEW c \in Calls, NEW op, Writes(c, op)
  PROVE  /\ phase = "writing" /\ phase' = "writing" /\ c.op = op
         /\ options' = options /\ (Strict <=> Strict')
         /\ calls' \in Seq(Calls) /\ calls' = Append(calls, c)
         /\ NothingYet' /\ LinesAreWellFormed'
<1>1. /\ phase = "writing" /\ phase' = "writing" /\ c.op = op /\ options' = options
      /\ calls' = Append(calls, c) /\ emf' = emf
  BY DEF Writes
<1>2. calls' \in Seq(Calls)
  BY <1>1 DEF IInv, Shapes
<1>3. emf' = Nothing /\ emf = Nothing
  BY <1>1 DEF IInv, NothingYet
<1>4. NothingYet'
  BY <1>3 DEF NothingYet, Nothing
<1>5. LinesAreWellFormed'
  <2>1. (emf = Nothing)' => LinesAreWellFormed'
    BY NoLinesYet, PTL
  <2> QED BY <1>3, <2>1 DEF Nothing
<1> QED BY <1>1, <1>2, <1>4, <1>5 DEF Strict

(* Only a string, the report's, follows AllowUnroutableEntries. *)
LEMMA ReportStaysLast ==
  ASSUME IInv, NEW c \in Calls, NEW op, Writes(c, op),
         writer'.unroutable => writer.unroutable \/ op = "unroutable"
  PROVE  ReportIsLast' /\ (writer.unroutable => op = "string")
<1>1. /\ calls \in Seq(Calls) /\ calls' = Append(calls, c) /\ MayFollow(c) /\ c.op = op
  BY DEF IInv, Shapes, Writes
<1>2. /\ Len(calls') = Len(calls) + 1 /\ calls'[Len(calls) + 1] = c /\ Len(calls) \in Nat
      /\ DOMAIN calls' = 1..(Len(calls) + 1) /\ DOMAIN calls = 1..Len(calls)
      /\ \A i \in 1..Len(calls) : calls'[i] = calls[i]
  BY <1>1
<1>3. Last(calls)' = c
  BY <1>2 DEF Last
<1>4. ASSUME writer.unroutable PROVE op = "string" /\ c.name = Report /\ IsReport'
  <2>1. IsReport /\ calls # <<>>
    <3>1. IsReport
      BY <1>4 DEF IInv, ReportIsLast
    <3> QED BY <3>1 DEF IsReport
  <2>2. Last(calls).op = "unroutable" \/ (Last(calls).op = "string" /\ Last(calls).name = Report)
    BY <1>4 DEF IInv, ReportIsLast
  <2>3. Last(calls).op = "unroutable" /\ c.op = "string" /\ c.name = Report
    BY <1>1, <2>1, <2>2 DEF MayFollow
  <2>4. IsReport'
    <3>1. PICK i \in DOMAIN calls : calls[i].op = "unroutable"
      BY <2>1 DEF IsReport
    <3>2. i \in DOMAIN calls' /\ calls'[i].op = "unroutable"
      BY <3>1, <1>2
    <3> QED BY <3>2 DEF IsReport
  <2> QED BY <1>1, <2>3, <2>4
<1>5. ASSUME op = "unroutable" PROVE IsReport'
  <2>1. Len(calls) + 1 \in DOMAIN calls' /\ calls'[Len(calls) + 1].op = "unroutable"
    BY <1>1, <1>2, <1>5
  <2> QED BY <2>1 DEF IsReport
<1> QED BY <1>1, <1>3, <1>4, <1>5 DEF ReportIsLast

(* A call that leaves the buffers and the map alone. *)
LEMMA QuietCallKeeps ==
  ASSUME IInv, NEW c \in Calls, NEW op, Writes(c, op), UNCHANGED state, WriterShape(writer'),
         \A f \in {"validation_map", "has_dimensions", "entry_dimensions"} : writer'[f] = writer[f],
         writer.error => writer'.error,
         writer'.unroutable => writer.unroutable \/ op = "unroutable"
  PROVE  IInv'
<1>1. Shapes'
  <2>1. options' = options /\ calls' \in Seq(Calls)
    BY CallIsMade
  <2> QED BY <2>1, ShapesInParts DEF IInv
<1>2. AllIsNoted'
  <2>1. Base(writer') = Base(writer)
    BY DEF Base, BaseDimensions
  <2>2. phase = "writing" /\ (Strict' => Strict)
    BY CallIsMade
  <2> QED BY <2>1, <2>2, NotedInParts DEF IInv
<1> QED BY <1>1, <1>2, CallIsMade, ReportStaysLast DEF IInv

LEMMA QuietCallsKeep ==
  ASSUME IInv, NEW c \in Calls,
         \/ Timestamp(c) \/ InvalidName(c) \/ ValueError(c)
         \/ AllowSplitEntries(c) \/ AllowUnroutableEntries(c)
  PROVE  IInv'
<1>1. WriterShape(writer)
  BY ShapesInParts DEF IInv
<1>2. CASE Timestamp(c)
  <2>1. Writes(c, "timestamp") /\ UNCHANGED state
    BY <1>2 DEF Timestamp
  <2>2. writer' = [writer EXCEPT !.timestamp = TRUE, !.error = @ \/ writer.timestamp]
    BY <1>2 DEF Timestamp
  <2>3. /\ WriterShape(writer') /\ writer'.unroutable = writer.unroutable
        /\ \A f \in {"validation_map", "has_dimensions", "entry_dimensions"} : writer'[f] = writer[f]
        /\ writer.error => writer'.error
    BY <1>1, <2>2 DEF WriterShape
  <2> QED BY <2>1, <2>3, QuietCallKeeps
<1>3. CASE InvalidName(c) \/ ValueError(c)
  <2>1. PICK op : Writes(c, op) /\ UNCHANGED state
    BY <1>3 DEF InvalidName, ValueError
  <2>2. writer' = [writer EXCEPT !.error = TRUE]
    BY <1>3 DEF InvalidName, ValueError, Fail
  <2>3. /\ WriterShape(writer') /\ writer'.unroutable = writer.unroutable
        /\ \A f \in {"validation_map", "has_dimensions", "entry_dimensions"} : writer'[f] = writer[f]
        /\ writer.error => writer'.error
    BY <1>1, <2>2 DEF WriterShape
  <2> QED BY <2>1, <2>3, QuietCallKeeps
<1>4. CASE AllowSplitEntries(c)
  <2>1. Writes(c, "split") /\ UNCHANGED state /\ writer' = [writer EXCEPT !.split = TRUE]
    BY <1>4 DEF AllowSplitEntries
  <2>3. /\ WriterShape(writer') /\ writer'.unroutable = writer.unroutable
        /\ \A f \in {"validation_map", "has_dimensions", "entry_dimensions"} : writer'[f] = writer[f]
        /\ writer.error => writer'.error
    BY <1>1, <2>1 DEF WriterShape
  <2> QED BY <2>1, <2>3, QuietCallKeeps
<1>5. CASE AllowUnroutableEntries(c)
  <2>1. /\ Writes(c, "unroutable") /\ UNCHANGED state
        /\ writer' = [writer EXCEPT !.unroutable = TRUE]
    BY <1>5 DEF AllowUnroutableEntries
  <2>3. /\ WriterShape(writer')
        /\ \A f \in {"validation_map", "has_dimensions", "entry_dimensions"} : writer'[f] = writer[f]
        /\ writer.error => writer'.error
    BY <1>1, <2>1 DEF WriterShape
  <2> QED BY <2>1, <2>3, QuietCallKeeps
<1> QED BY <1>2, <1>3, <1>4, <1>5

LEMMA StringKeeps ==
  ASSUME IInv, NEW c \in Calls, String(c)
  PROVE  IInv'
<1>1. PICK n : n = c.name
  OBVIOUS
<1>2. /\ Writes(c, "string")
      /\ state' = [state EXCEPT !.string_fields = Append(@, n)]
      /\ writer' = IF options.skip_unique THEN writer ELSE ValidateString(n)
  BY <1>1 DEF String
<1>3. WriterShape(writer) /\ HasShape(state)
  BY ShapesInParts DEF IInv
<1>4. /\ \A f \in DOMAIN writer \ {"validation_map", "error"} : writer'[f] = writer[f]
      /\ DOMAIN writer' = DOMAIN writer /\ writer'.error \in {TRUE, writer.error}
      /\ ~options.skip_unique /\ ~writer'.error =>
           /\ KindOf(n).kind = "unfound"
           /\ writer'.validation_map = Put(writer.validation_map, n, StringLine)
  BY <1>2, <1>3 DEF ValidateString, WriterShape
<1>5. WriterShape(writer') /\ HasShape(state')
  <2>1. WriterShape(writer')
    BY <1>3, <1>4 DEF WriterShape
  <2> QED BY <1>2, <1>3, <2>1 DEF HasShape
<1>6. Shapes'
  <2>1. options' = options /\ calls' \in Seq(Calls)
    BY <1>2, CallIsMade
  <2> QED BY <1>5, <2>1, ShapesInParts DEF IInv
<1>7. AllIsNoted'
  <2> SUFFICES ASSUME Strict', ~writer'.error
               PROVE  Noted(state', Base(writer'), writer'.validation_map)
    BY NotedInParts
  <2>1. phase = "writing" /\ Strict /\ ~writer.error
    BY <1>2, <1>3, <1>4, CallIsMade DEF WriterShape
  <2>2. Noted(state, Base(writer), writer.validation_map)
    BY <2>1, NotedInParts DEF IInv
  <2>3. Base(writer') = Base(writer)
    BY <1>3, <1>4 DEF Base, BaseDimensions, WriterShape
  <2>4. Kind(writer.validation_map, n).kind = "unfound"
    BY <1>4, <2>1 DEF Kind, KindOf, Strict
  <2>5. Noted(state', Base(writer), Put(writer.validation_map, n, StringLine))
    BY <1>2, <1>3, <2>2, <2>4, StringIsNoted DEF HasShape
  <2> QED BY <1>4, <2>1, <2>3, <2>5 DEF Strict
<1>8. writer'.unroutable = writer.unroutable
  BY <1>3, <1>4 DEF WriterShape
<1> QED BY <1>2, <1>6, <1>7, <1>8, CallIsMade, ReportStaysLast DEF IInv

LEMMA ExtendedDimensions ==
  ASSUME NEW D, NEW E
  PROVE  UNION Extended(D, E) \subseteq (UNION D) \cup (UNION E)
BY DEF Extended

NameIsNoted(w, w2, n, index) ==
  \E is : /\ index \notin is
         /\ \/ n \notin DOMAIN w.validation_map /\ is = {}
            \/ /\ n \in DOMAIN w.validation_map
               /\ w.validation_map[n].kind = "metric"
               /\ w.validation_map[n].indexes = is
         /\ w2.validation_map = Put(w.validation_map, n, MetricLine(is \cup {index}))

(* What the check of ValueWriter::metric does to the writer. *)
LEMMA ValidateMetricNotes ==
  ASSUME NEW w, WriterShape(w), NEW n, NEW index, NEW w2, w2 = ValidateMetric(w, n, index)
  PROVE  /\ WriterShape(w2) /\ (w.error => w2.error)
         /\ \A f \in {"has_dimensions", "entry_dimensions", "unroutable"} : w2[f] = w[f]
         /\ ~w2.error => NameIsNoted(w, w2, n, index)
<1> DEFINE vm == w.validation_map
           line == IF n \in DOMAIN vm THEN vm[n] ELSE MetricLine({})
<1>1. w2 = IF line.kind = "metric" /\ index \notin line.indexes
           THEN [w EXCEPT !.validation_map = Put(vm, n, MetricLine(line.indexes \cup {index}))]
           ELSE [w EXCEPT !.error = TRUE]
  BY DEF ValidateMetric
<1> HIDE DEF line
<1>2. CASE line.kind = "metric" /\ index \notin line.indexes
  <2>1. w2 = [w EXCEPT !.validation_map = Put(vm, n, MetricLine(line.indexes \cup {index}))]
    BY <1>1, <1>2
  <2>2. /\ WriterShape(w2) /\ (w.error => w2.error)
        /\ \A f \in {"has_dimensions", "entry_dimensions", "unroutable"} : w2[f] = w[f]
        /\ w2.validation_map = Put(vm, n, MetricLine(line.indexes \cup {index}))
    BY <2>1 DEF WriterShape
  <2>3. \/ n \notin DOMAIN vm /\ line.indexes = {}
        \/ n \in DOMAIN vm /\ vm[n].kind = "metric" /\ vm[n].indexes = line.indexes
    BY <1>2, Kinds DEF line
  <2> QED BY <1>2, <2>2, <2>3 DEF NameIsNoted
<1>3. CASE ~(line.kind = "metric" /\ index \notin line.indexes)
  <2>1. w2 = [w EXCEPT !.error = TRUE]
    BY <1>1, <1>3
  <2> QED BY <2>1 DEF WriterShape
<1> QED BY <1>2, <1>3

LEMMA MetricKeeps ==
  ASSUME IInv, NEW c \in Calls, Metric(c)
  PROVE  IInv'
<1>1. PICK n, key : n = c.name /\ key = Key(c)
  OBVIOUS
<1>2. PICK set : set = IF key \in DOMAIN state.sets THEN state.sets[key] ELSE NewSet(key)
  OBVIOUS
<1>3. PICK index : index = IF IsGlobal(c) THEN 0 ELSE set.index
  OBVIOUS
<1>4. PICK routed : routed = [writer EXCEPT !.error = @ \/ (~IsGlobal(c) /\ ~writer.split)]
  OBVIOUS
<1>5. /\ Writes(c, "metric")
      /\ state' = IF IsGlobal(c)
                  THEN [state EXCEPT !.global = WriteMetric(@, c, multiplicity)]
                  ELSE [state EXCEPT !.sets = Put(@, key, WriteMetric(set, c, multiplicity))]
      /\ writer' = IF options.skip_unique \/ writer.unroutable THEN routed
                   ELSE ValidateMetric(routed, n, index)
  BY <1>1, <1>2, <1>3, <1>4 DEF Metric
<1>6. WriterShape(writer) /\ HasShape(state)
  BY ShapesInParts DEF IInv
<1>7. /\ WriterShape(routed) /\ (writer.error => routed.error)
      /\ routed.validation_map = writer.validation_map
      /\ \A f \in {"has_dimensions", "entry_dimensions", "unroutable"} : routed[f] = writer[f]
  BY <1>4, <1>6 DEF WriterShape
<1>8. /\ WriterShape(writer') /\ (writer.error => writer'.error)
      /\ \A f \in {"has_dimensions", "entry_dimensions", "unroutable"} : writer'[f] = writer[f]
  <2>1. CASE writer' = routed
    BY <1>7, <2>1
  <2>2. CASE writer' = ValidateMetric(routed, n, index)
    <3>1. PICK w2 : w2 = ValidateMetric(routed, n, index)
      OBVIOUS
    <3>2. /\ WriterShape(w2) /\ (routed.error => w2.error)
          /\ \A f \in {"has_dimensions", "entry_dimensions", "unroutable"} : w2[f] = routed[f]
      BY <1>7, <3>1, ValidateMetricNotes
    <3> QED BY <1>7, <2>2, <3>1, <3>2
  <2> QED BY <1>5, <2>1, <2>2
<1>9. {"index", "dimensions", "fields", "metrics"} \subseteq DOMAIN set
  <2>1. CASE key \in DOMAIN state.sets
    BY <1>2, <1>6, <2>1 DEF HasShape
  <2>2. CASE key \notin DOMAIN state.sets
    BY <1>2, <2>2 DEF NewSet
  <2> QED BY <2>1, <2>2
<1>10. HasShape(state')
  <2>1. CASE IsGlobal(c)
    <3>1. PICK new : new = WriteMetric(state.global, c, multiplicity)
      OBVIOUS
    <3>2. DOMAIN new = DOMAIN state.global
      BY <1>6, <3>1, WriteMetricAdds DEF HasShape
    <3>3. state' = [state EXCEPT !.global = new]
      BY <1>5, <2>1, <3>1
    <3> QED BY <1>6, <3>2, <3>3 DEF HasShape
  <2>2. CASE ~IsGlobal(c)
    <3>1. PICK new : new = WriteMetric(set, c, multiplicity)
      OBVIOUS
    <3>2. DOMAIN new = DOMAIN set
      BY <1>9, <3>1, WriteMetricAdds
    <3>3. state' = [state EXCEPT !.sets = Put(@, key, new)]
      BY <1>5, <2>2, <3>1
    <3> QED BY <1>6, <1>9, <3>2, <3>3 DEF HasShape, Put
  <2> QED BY <2>1, <2>2
<1>11. Shapes'
  <2>1. options' = options /\ calls' \in Seq(Calls)
    BY <1>5, CallIsMade
  <2> QED BY <1>8, <1>10, <2>1, ShapesInParts DEF IInv
<1>12. writer'.unroutable = writer.unroutable /\ ~writer.unroutable
  <2>1. writer'.unroutable = writer.unroutable
    BY <1>8
  <2>2. writer.unroutable => "metric" = "string"
    BY <1>5, <2>1, ReportStaysLast
  <2> QED BY <2>1, <2>2
<1>13. AllIsNoted'
  <2> SUFFICES ASSUME Strict', ~writer'.error
               PROVE  Noted(state', Base(writer'), writer'.validation_map)
    BY NotedInParts
  <2>1. phase = "writing" /\ Strict /\ ~writer.error
    BY <1>5, <1>8, CallIsMade
  <2>2. PICK base, vm : base = Base(writer) /\ vm = writer.validation_map
    OBVIOUS
  <2>3. Noted(state, base, vm) /\ Base(writer') = base
    <3>1. Base(writer') = base
      BY <1>8, <2>2 DEF Base, BaseDimensions
    <3> QED BY <2>1, <2>2, <3>1, NotedInParts DEF IInv
  <2>4. PICK w2 : w2 = ValidateMetric(routed, n, index) /\ writer' = w2
    BY <1>5, <1>12, <2>1 DEF Strict
  <2>5. PICK is : /\ index \notin is
                  /\ \/ n \notin DOMAIN vm /\ is = {}
                     \/ n \in DOMAIN vm /\ vm[n].kind = "metric" /\ vm[n].indexes = is
                  /\ writer'.validation_map = Put(vm, n, MetricLine(is \cup {index}))
    <3>1. vm = routed.validation_map /\ ~w2.error
      BY <1>7, <2>2, <2>4
    <3>2. NameIsNoted(routed, w2, n, index)
      BY <1>7, <2>4, <3>1, ValidateMetricNotes
    <3> QED BY <2>4, <3>1, <3>2 DEF NameIsNoted
  <2>6. CASE IsGlobal(c)
    <3>1. index = 0 /\ state' = [state EXCEPT !.global = WriteMetric(@, c, multiplicity)]
      BY <1>3, <1>5, <2>6
    <3>2. Noted(state', base, Put(vm, c.name, MetricLine(is \cup {0})))
      BY <1>1, <1>6, <2>3, <2>5, <3>1, GlobalIsNoted
    <3> QED BY <1>1, <2>3, <2>5, <3>1, <3>2
  <2>7. CASE ~IsGlobal(c)
    <3>1. /\ index = set.index
          /\ state' = [state EXCEPT !.sets = Put(@, key, WriteMetric(set, c, multiplicity))]
      BY <1>3, <1>5, <2>7
    <3>2. \/ key \in DOMAIN state.sets /\ set = state.sets[key]
          \/ /\ set.fields = <<>> /\ set.metrics = <<>>
             /\ UNION set.dimensions \subseteq base \cup DimensionNames(key)
      <4>1. CASE key \in DOMAIN state.sets
        BY <1>2, <4>1
      <4>2. CASE key \notin DOMAIN state.sets
        <5>1. /\ set.fields = <<>> /\ set.metrics = <<>>
              /\ set.dimensions = Extended(BaseDimensions(writer), {DimensionNames(key)})
          BY <1>2, <4>2 DEF NewSet
        <5>2. UNION {DimensionNames(key)} = DimensionNames(key)
          OBVIOUS
        <5> QED BY <2>2, <5>1, <5>2, ExtendedDimensions DEF Base
      <4> QED BY <4>1, <4>2
    <3>3. Noted(state', base, Put(vm, c.name, MetricLine(is \cup {set.index})))
      BY <1>1, <1>6, <1>9, <2>3, <2>5, <3>1, <3>2, SetIsNoted
    <3> QED BY <1>1, <2>3, <2>5, <3>1, <3>3
  <2> QED BY <2>6, <2>7
<1> QED BY <1>5, <1>11, <1>12, <1>13, CallIsMade, ReportStaysLast DEF IInv

(* Declaring dimensions changes the kind of no name. *)
LEMMA DeclaredIsNoted ==
  ASSUME NEW s, NEW base, NEW vm, Noted(s, base, vm), DOMAIN s.sets = {}, NEW dims,
         NEW vm2, vm2 = [d \in DOMAIN vm \cup dims |-> Kind(vm, d)],
         \A d \in dims : Kind(vm, d).kind # "metric",
         NEW base2, base2 \subseteq base \cup dims
  PROVE  Noted(s, base2, vm2)
<1>1. DOMAIN vm2 = DOMAIN vm \cup dims /\ \A n : Kind(vm2, n) = Kind(vm, n)
  BY DEF Kind
<1>2. StringsNoted(s.string_fields, vm2)
  <2>1. \A n \in DOMAIN vm2 : n \in DOMAIN vm \/ Kind(vm2, n).kind = "unfound"
    BY <1>1, Kinds DEF Kind
  <2> QED BY <1>1, <2>1 DEF Noted, StringsNoted
<1>3. MetricsNoted(s.global, 0, vm2)
  BY <1>1 DEF Noted, MetricsNoted
<1>4. DimensionsNoted(base2, vm2)
  BY <1>1 DEF Noted, DimensionsNoted
<1> QED BY <1>2, <1>3, <1>4 DEF Noted

LEMMA EntryDimensionsKeeps ==
  ASSUME IInv, NEW c \in Calls, EntryDimensions(c)
  PROVE  IInv'
<1>1. Writes(c, "dimensions") /\ UNCHANGED state
  BY DEF EntryDimensions
<1>2. WriterShape(writer) /\ HasShape(state)
  BY ShapesInParts DEF IInv
<1>3. CASE DOMAIN state.sets # {} \/ writer.has_dimensions \/ c.dim_sets = {}
  <2>1. writer' = [writer EXCEPT !.error = TRUE]
    BY <1>3 DEF EntryDimensions, Fail
  <2>2. /\ WriterShape(writer') /\ writer'.unroutable = writer.unroutable
        /\ \A f \in {"validation_map", "has_dimensions", "entry_dimensions"} : writer'[f] = writer[f]
        /\ writer.error => writer'.error
    BY <1>2, <2>1 DEF WriterShape
  <2> QED BY <1>1, <2>2, QuietCallKeeps
<1>4. CASE ~(DOMAIN state.sets # {} \/ writer.has_dimensions \/ c.dim_sets = {})
  <2>1. PICK dims, vm : dims = UNION c.dim_sets /\ vm = writer.validation_map
    OBVIOUS
  <2>2. PICK declared :
          /\ declared = IF options.skip_unique /\ options.skip_dimensions_exist THEN writer
                        ELSE DeclareDimensions(writer, dims)
          /\ writer' = [declared EXCEPT
                          !.has_dimensions = TRUE,
                          !.entry_dimensions = Extended(DefaultDimensions, c.dim_sets)]
    BY <1>4, <2>1 DEF EntryDimensions
  <2>3. /\ WriterShape(declared) /\ (writer.error => declared.error)
        /\ declared.unroutable = writer.unroutable
    BY <1>2, <2>2 DEF WriterShape, DeclareDimensions
  <2>4. /\ WriterShape(writer') /\ writer'.error = declared.error
        /\ writer'.unroutable = writer.unroutable /\ writer'.has_dimensions
        /\ writer'.validation_map = declared.validation_map
        /\ writer'.entry_dimensions = Extended(DefaultDimensions, c.dim_sets)
    BY <2>2, <2>3 DEF WriterShape
  <2>5. Shapes'
    <3>1. options' = options /\ calls' \in Seq(Calls)
      BY <1>1, CallIsMade
    <3> QED BY <1>1, <1>2, <2>4, <3>1, ShapesInParts DEF IInv
  <2>6. AllIsNoted'
    <3> SUFFICES ASSUME Strict', ~writer'.error
                 PROVE  Noted(state', Base(writer'), writer'.validation_map)
      BY NotedInParts
    <3>1. phase = "writing" /\ Strict /\ ~writer.error
      BY <1>1, <2>3, <2>4, CallIsMade
    <3>2. Noted(state, Base(writer), vm)
      BY <2>1, <3>1, NotedInParts DEF IInv
    <3>3. declared = DeclareDimensions(writer, dims)
      BY <2>2, <3>1 DEF Strict
    <3>4. /\ declared.validation_map = [d \in DOMAIN vm \cup dims |-> Kind(vm, d)]
          /\ declared.error =
               (writer.error \/ (~options.skip_unique /\ \E d \in dims : Kind(vm, d).kind = "metric"))
      BY <1>2, <2>1, <3>3 DEF DeclareDimensions, WriterShape, Kind, KindOf
    <3>5. \A d \in dims : Kind(vm, d).kind # "metric"
      BY <2>4, <3>1, <3>4 DEF Strict
    <3>6. Base(writer) = UNION DefaultDimensions
      BY <1>4 DEF Base, BaseDimensions
    <3>7. Base(writer') = UNION Extended(DefaultDimensions, c.dim_sets)
      BY <2>4 DEF Base, BaseDimensions
    <3>8. Base(writer') \subseteq Base(writer) \cup dims
      BY <2>1, <3>6, <3>7, ExtendedDimensions
    <3>9. PICK vm2, base2 : vm2 = writer'.validation_map /\ base2 = Base(writer')
      OBVIOUS
    <3>10. Noted(state, base2, vm2)
      BY <1>4, <2>4, <3>2, <3>4, <3>5, <3>8, <3>9, DeclaredIsNoted
    <3> QED BY <1>1, <3>9, <3>10
  <2> QED BY <1>1, <2>4, <2>5, <2>6, CallIsMade, ReportStaysLast DEF IInv
<1> QED BY <1>3, <1>4

-----------------------------------------------------------------------------
(* The entry's beginning and its end. *)

LEMMA BeginKeeps ==
  ASSUME IInv, NEW m, Begin(m)
  PROVE  IInv'
<1>1. /\ phase' = "writing" /\ calls' = <<>> /\ state' = Cleared /\ options' = options
      /\ writer' = [validation_map |-> ValidationMapBase, has_dimensions |-> FALSE,
                    entry_dimensions |-> {}, timestamp |-> FALSE, error |-> FALSE,
                    split |-> FALSE, unroutable |-> FALSE]
      /\ emf' = Nothing
  BY DEF Begin
<1>2. /\ state'.string_fields = <<>> /\ state'.global = NoBuffers /\ DOMAIN state'.sets = {}
      /\ DOMAIN state' = {"string_fields", "global", "sets"}
      /\ NoBuffers.fields = <<>> /\ NoBuffers.metrics = <<>>
      /\ DOMAIN NoBuffers = {"fields", "metrics"}
  BY <1>1 DEF Cleared, NoMap, NoBuffers
<1>3. Shapes'
  <2>1. WriterShape(writer') /\ calls' \in Seq(Calls)
    BY <1>1 DEF WriterShape
  <2>2. HasShape(state')
    BY <1>2 DEF HasShape
  <2> QED BY <1>1, <2>1, <2>2, ShapesInParts DEF IInv
<1>4. AllIsNoted'
  <2> SUFFICES ASSUME Strict' PROVE Noted(state', Base(writer'), writer'.validation_map)
    BY NotedInParts
  <2>1. PICK vm : vm = writer'.validation_map
    OBVIOUS
  <2>2. vm = [d \in UNION DefaultDimensions |-> Unfound] /\ Base(writer') = UNION DefaultDimensions
    BY <1>1, <2>1 DEF ValidationMapBase, Strict, Base, BaseDimensions
  <2>3. \A n : Kind(vm, n).kind = "unfound"
    BY <2>2, Kinds DEF Kind
  <2>4. StringsNoted(<<>>, vm)
    BY <2>3, NoFields DEF StringsNoted
  <2>5. MetricsNoted(NoBuffers, 0, vm)
    BY <1>2, NoFields DEF MetricsNoted
  <2>6. DimensionsNoted(UNION DefaultDimensions, vm)
    BY <2>2, <2>3 DEF DimensionsNoted
  <2> QED BY <1>2, <2>1, <2>2, <2>4, <2>5, <2>6 DEF Noted
<1>5. ReportIsLast' /\ NothingYet'
  BY <1>1 DEF ReportIsLast, NothingYet, Nothing
<1>6. LinesAreWellFormed'
  <2>1. (emf = Nothing)' => LinesAreWellFormed'
    BY NoLinesYet, PTL
  <2> QED BY <1>1, <2>1 DEF Nothing
<1> QED BY <1>3, <1>4, <1>5, <1>6 DEF IInv

LEMMA JoinNames ==
  ASSUME NEW s, NEW t, IsSeq(s), IsSeq(t), IsInjective(s), IsInjective(t),
         Range(s) \cap Range(t) = {}
  PROVE  IsInjective(s \o t)
<1>1. /\ Len(s) \in Nat /\ Len(t) \in Nat /\ DOMAIN s = 1..Len(s) /\ DOMAIN t = 1..Len(t)
      /\ s \in Seq(Range(s)) /\ t \in Seq(Range(t))
  BY SeqDomain DEF IsSeq
<1>2. /\ DOMAIN (s \o t) = 1..(Len(s) + Len(t))
      /\ \A i \in 1..(Len(s) + Len(t)) :
           (s \o t)[i] = IF i <= Len(s) THEN s[i] ELSE t[i - Len(s)]
  BY <1>1
<1>3. \A i \in 1..Len(s), j \in 1..Len(t) : s[i] # t[j]
  BY <1>1 DEF Range
<1>4. \A i \in 1..(Len(s) + Len(t)) :
        \/ i \in 1..Len(s) /\ (s \o t)[i] = s[i]
        \/ i - Len(s) \in 1..Len(t) /\ (s \o t)[i] = t[i - Len(s)]
  BY <1>1, <1>2
<1>5. ASSUME NEW i \in 1..(Len(s) + Len(t)), NEW j \in 1..(Len(s) + Len(t)),
             (s \o t)[i] = (s \o t)[j]
      PROVE  i = j
  <2>1. CASE i \in 1..Len(s) /\ (s \o t)[i] = s[i]
    BY <2>1, <1>1, <1>3, <1>4, <1>5 DEF IsInjective
  <2>2. CASE i - Len(s) \in 1..Len(t) /\ (s \o t)[i] = t[i - Len(s)]
    <3>1. j - Len(s) \in 1..Len(t) /\ t[i - Len(s)] = t[j - Len(s)]
      BY <2>2, <1>3, <1>4, <1>5
    <3>2. i - Len(s) = j - Len(s)
      BY <2>2, <3>1, <1>1 DEF IsInjective
    <3> QED BY <3>2, <1>1
  <2> QED BY <2>1, <2>2, <1>4
<1> QED BY <1>2, <1>5 DEF IsInjective

(* Only a dimension of the line's own can have a name that is written twice.     *)
LEMMA OnlyOwnNamesTwice ==
  ASSUME NEW l, IsInjective(FieldNames(l))
  PROVE  WrittenTwice(l) \subseteq DimensionNames(l.own)
<1>1. PICK names : names = FieldNames(l)
  OBVIOUS
<1>2. ASSUME NEW n \in WrittenTwice(l), n \notin DimensionNames(l.own)
      PROVE  FALSE
  <2>1. ~(\E i, j \in DOMAIN names : i # j /\ names[i] = n /\ names[j] = n)
    BY <1>1 DEF IsInjective
  <2>2. ~(\E d \in DOMAIN l.own : d[1] = n)
    BY <1>2 DEF DimensionNames
  <2> QED BY <1>1, <1>2, <2>1, <2>2 DEF WrittenTwice
<1> QED BY <1>2

WellFormed(l, report) ==
  /\ IsInjective(FieldNames(l))
  /\ WrittenTwice(l) \subseteq DimensionNames(l.own)
  /\ Range(l.metrics) \subseteq Range(NamesIn(l.fields))
  /\ ~report => UNION l.dimensions \subseteq Range(l.strings) \cup DimensionNames(l.own)

LEMMA WellFormedInParts ==
  /\ LinesAreWellFormed <=> (Strict => \A l \in emf.lines : WellFormed(l, IsReport))
  /\ LinesAreWellFormed' <=> (Strict' => \A l \in emf'.lines : WellFormed(l, IsReport'))
BY DEF LinesAreWellFormed, Strict, WellFormed

(* The lines that finish may write. *)
LEMMA LinesOfEntry ==
  ASSUME IInv, phase = "writing", Strict, ~writer.error, ~MissingDimension,
         NEW l \in SetLines \cup GlobalLines
  PROVE  WellFormed(l, IsReport)
<1>1. PICK base, vm : base = Base(writer) /\ vm = writer.validation_map
  OBVIOUS
<1>2. Noted(state, base, vm)
  BY <1>1, NotedInParts DEF IInv
<1>3. PICK key, dimensions, buf, index :
        /\ l = Line(key, dimensions, buf) /\ MetricsNoted(buf, index, vm)
        /\ UNION dimensions \subseteq base \cup DimensionNames(key)
  <2>1. CASE l \in SetLines
    <3>1. PICK k \in DOMAIN state.sets : l = Line(k, state.sets[k].dimensions, state.sets[k])
      BY <2>1 DEF SetLines
    <3> QED BY <1>2, <3>1 DEF Noted
  <2>2. CASE l \in GlobalLines
    <3>1. l = Line(EmptyBag, BaseDimensions(writer), state.global)
      BY <2>2 DEF GlobalLines
    <3> QED BY <1>1, <1>2, <3>1 DEF Noted, Base
  <2> QED BY <2>1, <2>2
<1>4. /\ l.own = key /\ l.dimensions = dimensions /\ l.fields = buf.fields
      /\ l.metrics = buf.metrics /\ l.strings = state.string_fields
  BY <1>3 DEF Line
<1>5. PICK sf, fs : sf = state.string_fields /\ fs = NamesIn(buf.fields)
  OBVIOUS
<1>6. /\ IsSeq(sf) /\ IsInjective(sf) /\ IsSeq(fs) /\ IsInjective(fs)
      /\ \A n \in Range(sf) : Kind(vm, n).kind = "string"
      /\ \A n \in Range(fs) : Kind(vm, n).kind = "metric"
  BY <1>2, <1>3, <1>5, AppendField DEF Noted, StringsNoted, MetricsNoted
<1>7. IsInjective(sf \o fs)
  <2>1. Range(sf) \cap Range(fs) = {}
    BY <1>6, Kinds
  <2> QED BY <1>6, <2>1, JoinNames
<1>8. ASSUME ~IsReport PROVE base \subseteq Range(sf)
  <2>1. ~writer.unroutable /\ ~options.skip_dimensions_exist
    BY <1>8 DEF IInv, ReportIsLast, Strict
  <2>2. \A d \in DOMAIN vm : Kind(vm, d).kind # "unfound"
    BY <1>1, <2>1 DEF MissingDimension, KindOf, Kind
  <2> QED BY <1>2, <1>5, <2>2 DEF Noted, StringsNoted, DimensionsNoted
<1>9. IsInjective(FieldNames(l)) /\ WrittenTwice(l) \subseteq DimensionNames(l.own)
  <2>1. FieldNames(l) = sf \o fs
    BY <1>4, <1>5 DEF FieldNames
  <2> QED BY <1>7, <2>1, OnlyOwnNamesTwice
<1> QED BY <1>3, <1>4, <1>5, <1>8, <1>9 DEF WellFormed, MetricsNoted

LEMMA FinishKeeps ==
  ASSUME IInv, Finish
  PROVE  IInv'
<1>1. /\ phase = "writing" /\ phase' = "json"
      /\ UNCHANGED <<options, calls, multiplicity, writer, state, json, flushed>>
  BY DEF Finish
<1>2. \/ emf'.lines = {}
      \/ ~writer.error /\ ~MissingDimension /\ emf'.lines \subseteq SetLines \cup GlobalLines
  BY DEF Finish
<1>3. LinesAreWellFormed'
  <2> SUFFICES ASSUME Strict', NEW l \in emf'.lines PROVE WellFormed(l, IsReport')
    BY WellFormedInParts
  <2>1. Strict /\ (IsReport' <=> IsReport)
    BY <1>1 DEF Strict, IsReport
  <2>2. WellFormed(l, IsReport)
    BY <1>1, <1>2, <2>1, LinesOfEntry
  <2> QED BY <2>1, <2>2 DEF WellFormed
<1>4. Shapes' /\ ReportIsLast'
  BY <1>1 DEF IInv, Shapes, ReportIsLast, IsReport
<1>5. NothingYet' /\ AllIsNoted'
  BY <1>1 DEF NothingYet, AllIsNoted
<1> QED BY <1>3, <1>4, <1>5 DEF IInv

LEMMA LinesStay ==
  ASSUME LinesAreWellFormed, UNCHANGED <<options, calls, emf>>
  PROVE  LinesAreWellFormed'
<1>1. (Strict' <=> Strict) /\ (IsReport' <=> IsReport) /\ emf' = emf
  BY DEF Strict, IsReport
<1>2. ASSUME Strict', NEW l \in emf'.lines PROVE WellFormed(l, IsReport')
  <2>1. WellFormed(l, IsReport)
    BY <1>1, <1>2, WellFormedInParts
  <2> QED BY <1>1, <2>1 DEF WellFormed
<1> QED BY <1>2, WellFormedInParts

LEMMA TeeAndFlushKeep ==
  ASSUME IInv, TeeNext \/ Flush
  PROVE  IInv'
<1>1. phase' # "writing" /\ UNCHANGED <<options, calls, multiplicity, writer, state, emf>>
  BY DEF TeeNext, Flush
<1>2. Shapes' /\ ReportIsLast' /\ LinesAreWellFormed'
  <2>1. Shapes' /\ ReportIsLast'
    BY <1>1 DEF IInv, Shapes, ReportIsLast, IsReport
  <2> QED BY <1>1, <2>1, LinesStay DEF IInv
<1>3. NothingYet' /\ AllIsNoted'
  BY <1>1 DEF NothingYet, AllIsNoted
<1> QED BY <1>2, <1>3 DEF IInv

LEMMA InitHolds ==
  ASSUME Init
  PROVE  IInv
<1>1. Shapes
  BY DEF Init, Shapes, NoBuffers, NoMap
<1>2. NothingYet /\ AllIsNoted /\ ReportIsLast
  BY DEF Init, NothingYet, AllIsNoted, ReportIsLast
<1>3. LinesAreWellFormed
  BY NoLinesYet DEF Init
<1> QED BY <1>1, <1>2, <1>3 DEF IInv

-----------------------------------------------------------------------------
LEMMA AllIsNotedAlways == Spec => []IInv
<1>1. Init => IInv
  BY InitHolds
<1>2. IInv /\ [Next]_vars => IInv'
  <2> SUFFICES ASSUME IInv, [Next]_vars PROVE IInv'
    OBVIOUS
  <2>1. CASE \E m \in Multiplicities : Begin(m)
    BY <2>1, BeginKeeps
  <2>2. ASSUME NEW c \in Calls,
               \/ Timestamp(c) \/ InvalidName(c) \/ String(c) \/ Metric(c) \/ ValueError(c)
               \/ EntryDimensions(c) \/ AllowSplitEntries(c) \/ AllowUnroutableEntries(c)
        PROVE  IInv'
    BY <2>2, QuietCallsKeep, StringKeeps, MetricKeeps, EntryDimensionsKeeps
  <2>3. CASE Finish \/ TeeNext \/ Flush
    BY <2>3, FinishKeeps, TeeAndFlushKeep
  <2>4. CASE UNCHANGED vars
    <3>1. UNCHANGED <<options, phase, calls, multiplicity, writer, state, emf>>
      BY <2>4 DEF vars
    <3>2. Shapes' /\ NothingYet' /\ ReportIsLast'
      BY <3>1 DEF IInv, Shapes, NothingYet, ReportIsLast, IsReport, Nothing
    <3>3. LinesAreWellFormed'
      BY <3>1, LinesStay DEF IInv
    <3>4. AllIsNoted'
      <4>1. Strict' => Strict
        BY <3>1 DEF Strict
      <4> QED BY <3>1, <4>1, NotedInParts DEF IInv
    <3> QED BY <3>2, <3>3, <3>4 DEF IInv
  <2> QED BY <2>1, <2>2, <2>3, <2>4 DEF Next
<1> QED BY <1>1, <1>2, PTL DEF Spec

(* With all validations on, Emf gives CloudWatch only well-formed lines,        *)
(* whatever calls an entry makes, in which order and how many: the validation   *)
(* map lets no two strings or metrics of a line have one name, no metric be     *)
(* defined that is not a field, and no line be published under a dimension it   *)
(* has no value for. Only a dimension of the line's own, which the map does not *)
(* know, can have a name that the line has twice.                             *)
THEOREM EmfLinesAreWellFormed == Spec => []LinesAreWellFormed
<1>1. IInv => LinesAreWellFormed
  BY DEF IInv
<1> QED BY <1>1, AllIsNotedAlways, PTL

-----------------------------------------------------------------------------
(* Listing the values of a function on positions. *)

LEMMA ListsNothing ==
  ASSUME NEW f, DOMAIN f = {}
  PROVE  Lists(<<>>, f)
<1>1. Cardinality(DOMAIN f) = 0
  BY FS_EmptySet
<1>2. 1..0 = {} /\ <<>> \in [1..0 -> Range(f)]
  OBVIOUS
<1> QED BY <1>1, <1>2 DEF Lists

LEMMA ListsIsSeq ==
  ASSUME NEW f, NEW s, NEW n \in Nat, DOMAIN f \subseteq 1..n, Lists(s, f)
  PROVE  /\ IsFiniteSet(DOMAIN f) /\ Cardinality(DOMAIN f) \in Nat
         /\ IsSeq(s) /\ Len(s) = Cardinality(DOMAIN f)
         /\ \A i \in DOMAIN f : Cardinality({j \in DOMAIN f : j <= i}) \in DOMAIN s
<1>1. IsFiniteSet(DOMAIN f) /\ Cardinality(DOMAIN f) \in Nat
  <2>1. IsFiniteSet(1..n)
    BY FS_Interval
  <2>2. IsFiniteSet(DOMAIN f)
    BY <2>1, FS_Subset
  <2> QED BY <2>2, FS_CardinalityType
<1>2. IsSeq(s) /\ Len(s) = Cardinality(DOMAIN f) /\ DOMAIN s = 1..Cardinality(DOMAIN f)
  <2>1. s \in Seq(Range(f)) /\ Len(s) = Cardinality(DOMAIN f)
    BY <1>1 DEF Lists
  <2>2. s \in [1..Cardinality(DOMAIN f) -> Range(s)]
    BY DEF Lists, Range
  <2> QED BY <1>1, <2>1, <2>2 DEF IsSeq
<1>3. ASSUME NEW i \in DOMAIN f
      PROVE  Cardinality({j \in DOMAIN f : j <= i}) \in 1..Cardinality(DOMAIN f)
  <2> DEFINE B == {j \in DOMAIN f : j <= i}
  <2>1. IsFiniteSet(B) /\ Cardinality(B) \in Nat /\ Cardinality(B) <= Cardinality(DOMAIN f)
    BY <1>1, FS_Subset, FS_CardinalityType
  <2>2. i \in B
    BY <1>3
  <2>3. Cardinality(B) # 0
    BY <2>1, <2>2, FS_EmptySet
  <2> QED BY <1>1, <2>1, <2>3
<1> QED BY <1>1, <1>2, <1>3

(* A later position is listed last. *)
LEMMA ListsMore ==
  ASSUME NEW f, NEW s, NEW n \in Nat, DOMAIN f \subseteq 1..n, Lists(s, f), NEW g,
         DOMAIN g = DOMAIN f \cup {n + 1}, \A i \in DOMAIN f : g[i] = f[i]
  PROVE  Lists(Append(s, g[n + 1]), g)
<1> DEFINE x == g[n + 1]
           D == DOMAIN f
           t == Append(s, x)
<1>1. /\ IsFiniteSet(D) /\ Cardinality(D) \in Nat /\ IsSeq(s) /\ Len(s) = Cardinality(D)
      /\ \A i \in D : Cardinality({j \in D : j <= i}) \in DOMAIN s
      /\ DOMAIN s = 1..Len(s)
  BY ListsIsSeq, SeqDomain
<1>2. n + 1 \notin D
  OBVIOUS
<1>3. Cardinality(D \cup {n + 1}) = Cardinality(D) + 1
  BY <1>1, <1>2, FS_AddElement
<1>4. /\ IsSeq(t) /\ DOMAIN t = 1..(Len(s) + 1) /\ t[Len(s) + 1] = x
      /\ \A i \in DOMAIN s : t[i] = s[i]
      /\ Range(t) = Range(s) \cup {x}
  BY <1>1, AppendSeq
<1>5. Range(s) \cup {x} \subseteq Range(g)
  BY DEF Lists, Range
<1>6. t \in [1..Cardinality(DOMAIN g) -> Range(g)]
  <2>1. PICK u : u = t
    OBVIOUS
  <2>2. \A i \in DOMAIN t : t[i] \in Range(g)
    BY <1>4, <1>5, SeqDomain
  <2>3. u \in [DOMAIN u -> Range(u)]
    <3>1. u \in Seq(Range(u)) /\ DOMAIN u = 1..Len(u)
      BY <1>4, <2>1, SeqDomain DEF IsSeq
    <3> QED BY <3>1
  <2> QED BY <1>1, <1>3, <1>4, <2>1, <2>2, <2>3
<1>7. ASSUME NEW i \in DOMAIN g
      PROVE  t[Cardinality({j \in DOMAIN g : j <= i})] = g[i]
  <2>1. CASE i = n + 1
    <3>1. {j \in DOMAIN g : j <= i} = D \cup {n + 1}
      BY <2>1
    <3> QED BY <1>1, <1>3, <1>4, <2>1, <3>1
  <2>2. CASE i \in D
    <3>1. {j \in DOMAIN g : j <= i} = {j \in D : j <= i}
      BY <2>2
    <3> QED BY <1>1, <1>4, <2>2, <3>1 DEF Lists
  <2> QED BY <2>1, <2>2
<1> QED BY <1>6, <1>7 DEF Lists

(* g is f with, if there is more, x at the next position. *)
Follows(g, f, n, more, x) ==
  /\ DOMAIN f \subseteq 1..n
  /\ DOMAIN g = DOMAIN f \cup (IF more THEN {n + 1} ELSE {})
  /\ \A i \in DOMAIN f : g[i] = f[i]
  /\ more => g[n + 1] = x

LEMMA ListsFollow ==
  ASSUME NEW f, NEW s, NEW n \in Nat, NEW g, NEW more \in BOOLEAN, NEW x,
         Lists(s, f), Follows(g, f, n, more, x)
  PROVE  Lists(IF more THEN Append(s, x) ELSE s, g)
<1>1. CASE more
  BY <1>1, ListsMore DEF Follows
<1>2. CASE ~more
  <2>1. DOMAIN g = DOMAIN f /\ Range(g) = Range(f) /\ \A i \in DOMAIN f : g[i] = f[i]
    BY <1>2 DEF Follows, Range
  <2> QED BY <1>2, <2>1 DEF Lists
<1> QED BY <1>1, <1>2

LEMMA OneMoreCall ==
  ASSUME calls \in Seq(Calls), NEW c \in Calls, calls' = Append(calls, c)
  PROVE  /\ Len(calls) \in Nat /\ DOMAIN calls = 1..Len(calls)
         /\ DOMAIN calls' = DOMAIN calls \cup {Len(calls) + 1}
         /\ calls'[Len(calls) + 1] = c /\ \A i \in DOMAIN calls : calls'[i] = calls[i]
         /\ Len(calls) + 1 \notin DOMAIN calls
<1>1. Len(calls) \in Nat /\ DOMAIN calls = 1..Len(calls) /\ DOMAIN calls' = 1..(Len(calls) + 1)
  OBVIOUS
<1>2. 1..(Len(calls) + 1) = 1..Len(calls) \cup {Len(calls) + 1}
  BY <1>1
<1> QED BY <1>1, <1>2

(* What the lists of an entry gain by one more call. *)
LEMMA ListsGain ==
  ASSUME calls \in Seq(Calls), NEW c \in Calls, calls' = Append(calls, c),
         UNCHANGED <<options, multiplicity>>
  PROVE  /\ Follows(StringNames', StringNames, Len(calls),
                    c.op = "string" /\ ValidName(c.name), c.name)
         /\ \A key : /\ Follows(FieldsFor(key)', FieldsFor(key), Len(calls),
                                BelongsTo(c, key), EmfField(c, multiplicity))
                     /\ Follows(DefinedFor(key)', DefinedFor(key), Len(calls),
                                BelongsTo(c, key) /\ Defined(c), c.name)
<1> DEFINE n == Len(calls)
<1>1. /\ n \in Nat /\ DOMAIN calls = 1..n /\ DOMAIN calls' = 1..n \cup {n + 1}
      /\ calls'[n + 1] = c /\ \A i \in 1..n : calls'[i] = calls[i]
      /\ n + 1 \notin 1..n
  BY OneMoreCall
<1>2. \A x : ValidName(x)' <=> ValidName(x)
  BY DEF ValidName
<1>3. \A x, key : BelongsTo(x, key)' <=> BelongsTo(x, key)
  BY <1>2 DEF BelongsTo, IsGlobal, Key
<1>4. Follows(StringNames', StringNames, n, c.op = "string" /\ ValidName(c.name), c.name)
  <2>1. StringNames' = [i \in {i \in DOMAIN calls' : calls'[i].op = "string"
                                 /\ ValidName(calls'[i].name)} |-> calls'[i].name]
    BY <1>2 DEF StringNames
  <2> DEFINE more == c.op = "string" /\ ValidName(c.name)
             D == {i \in 1..n : calls[i].op = "string" /\ ValidName(calls[i].name)}
  <2>2. StringNames = [i \in D |-> calls[i].name]
    BY <1>1 DEF StringNames
  <2>3. PICK g : g = StringNames'
    OBVIOUS
  <2>4. g = [i \in D \cup (IF more THEN {n + 1} ELSE {}) |-> calls'[i].name]
    BY <1>1, <2>1, <2>3
  <2>5. DOMAIN g = D \cup (IF more THEN {n + 1} ELSE {}) /\ \A i \in D : g[i] = calls[i].name
    BY <1>1, <2>4
  <2>6. more => g[n + 1] = c.name
    BY <1>1, <2>4
  <2> QED BY <2>2, <2>3, <2>5, <2>6 DEF Follows
<1>5. ASSUME NEW key
      PROVE  /\ Follows(FieldsFor(key)', FieldsFor(key), n,
                        BelongsTo(c, key), EmfField(c, multiplicity))
             /\ Follows(DefinedFor(key)', DefinedFor(key), n,
                        BelongsTo(c, key) /\ Defined(c), c.name)
  <2>1. FieldsFor(key)' = [i \in {i \in DOMAIN calls' : BelongsTo(calls'[i], key)} |->
                             EmfField(calls'[i], multiplicity)]
    BY <1>3 DEF FieldsFor
  <2>2. DefinedFor(key)' = [i \in {i \in DOMAIN calls' : BelongsTo(calls'[i], key)
                                     /\ Defined(calls'[i])} |-> calls'[i].name]
    BY <1>3 DEF DefinedFor
  <2>3. Follows(FieldsFor(key)', FieldsFor(key), n, BelongsTo(c, key), EmfField(c, multiplicity))
    <3> DEFINE more == BelongsTo(c, key)
               D == {i \in 1..n : BelongsTo(calls[i], key)}
    <3>1. FieldsFor(key) = [i \in D |-> EmfField(calls[i], multiplicity)]
      BY <1>1 DEF FieldsFor
    <3>2. PICK g : g = FieldsFor(key)'
      OBVIOUS
    <3>3. g = [i \in D \cup (IF more THEN {n + 1} ELSE {}) |-> EmfField(calls'[i], multiplicity)]
      BY <1>1, <2>1, <3>2
    <3>4. /\ DOMAIN g = D \cup (IF more THEN {n + 1} ELSE {})
          /\ \A i \in D : g[i] = EmfField(calls[i], multiplicity)
      BY <1>1, <3>3
    <3>5. more => g[n + 1] = EmfField(c, multiplicity)
      BY <1>1, <3>3
    <3> QED BY <3>1, <3>2, <3>4, <3>5 DEF Follows
  <2>4. Follows(DefinedFor(key)', DefinedFor(key), n, BelongsTo(c, key) /\ Defined(c), c.name)
    <3> DEFINE more == BelongsTo(c, key) /\ Defined(c)
               D == {i \in 1..n : BelongsTo(calls[i], key) /\ Defined(calls[i])}
    <3>1. DefinedFor(key) = [i \in D |-> calls[i].name]
      BY <1>1 DEF DefinedFor
    <3>2. PICK g : g = DefinedFor(key)'
      OBVIOUS
    <3>3. g = [i \in D \cup (IF more THEN {n + 1} ELSE {}) |-> calls'[i].name]
      BY <1>1, <2>2, <3>2
    <3>4. DOMAIN g = D \cup (IF more THEN {n + 1} ELSE {}) /\ \A i \in D : g[i] = calls[i].name
      BY <1>1, <3>3
    <3>5. more => g[n + 1] = c.name
      BY <1>1, <3>3
    <3> QED BY <3>1, <3>2, <3>4, <3>5 DEF Follows
  <2> QED BY <2>3, <2>4
<1> QED BY <1>4, <1>5

-----------------------------------------------------------------------------
(* LinesAreExplained. *)

(* What a call does to the buffers of the line of key. *)
Gains(new, old, c, key) ==
  /\ new.fields = IF BelongsTo(c, key) THEN Append(old.fields, EmfField(c, multiplicity))
                  ELSE old.fields
  /\ new.metrics = IF BelongsTo(c, key) /\ Defined(c) THEN Append(old.metrics, c.name)
                   ELSE old.metrics

LEMMA BufferGains ==
  ASSUME calls \in Seq(Calls), NEW c \in Calls, calls' = Append(calls, c),
         UNCHANGED <<options, multiplicity>>, NEW key, NEW old, NEW new,
         Gains(new, old, c, key), BufferIsExplained(old, key)
  PROVE  Lists(new.fields, FieldsFor(key)') /\ Lists(new.metrics, DefinedFor(key)')
<1>1. BelongsTo(c, key) \in BOOLEAN /\ Defined(c) \in BOOLEAN /\ Len(calls) \in Nat
  BY DEF BelongsTo, Defined
<1>2. PICK ff, gg, fd, gd : /\ ff = FieldsFor(key) /\ gg = FieldsFor(key)'
                            /\ fd = DefinedFor(key) /\ gd = DefinedFor(key)'
  OBVIOUS
<1>3. /\ Follows(gg, ff, Len(calls), BelongsTo(c, key), EmfField(c, multiplicity))
      /\ Follows(gd, fd, Len(calls), BelongsTo(c, key) /\ Defined(c), c.name)
  BY <1>2, ListsGain
<1>4. Lists(old.fields, ff) /\ Lists(old.metrics, fd)
  BY <1>2 DEF BufferIsExplained
<1>5. Lists(new.fields, gg)
  BY <1>1, <1>3, <1>4, ListsFollow DEF Gains
<1>6. Lists(new.metrics, gd)
  <2>1. (BelongsTo(c, key) /\ Defined(c)) \in BOOLEAN
    BY <1>1
  <2> QED BY <1>1, <2>1, <1>3, <1>4, ListsFollow DEF Gains
<1> QED BY <1>2, <1>5, <1>6

LEMMA CallIsExplained ==
  ASSUME Shapes, BuffersAreExplained, NEW c \in Calls, NEW op, Writes(c, op),
         state'.string_fields = IF c.op = "string" /\ ValidName(c.name)
                                THEN Append(state.string_fields, c.name)
                                ELSE state.string_fields,
         Gains(state'.global, state.global, c, EmptyBag),
         \A k \in DOMAIN state'.sets :
           /\ k # EmptyBag
           /\ \E old : Gains(state'.sets[k], old, c, k) /\ BufferIsExplained(old, k),
         DOMAIN state.sets \subseteq DOMAIN state'.sets,
         c.op = "metric" /\ ValidName(c.name) /\ ~IsGlobal(c) => Key(c) \in DOMAIN state'.sets
  PROVE  BuffersAreExplained'
<1>1. /\ phase = "writing" /\ calls \in Seq(Calls) /\ calls' = Append(calls, c)
      /\ UNCHANGED <<options, multiplicity>>
  BY DEF Writes, Shapes
<1>2. /\ Lists(state.string_fields, StringNames) /\ BufferIsExplained(state.global, EmptyBag)
      /\ \A i \in DOMAIN calls :
           calls[i].op = "metric" /\ ValidName(calls[i].name) /\ ~IsGlobal(calls[i]) =>
             Key(calls[i]) \in DOMAIN state.sets
  BY <1>1 DEF BuffersAreExplained
<1>3. Lists(state'.string_fields, StringNames')
  <2>1. (c.op = "string" /\ ValidName(c.name)) \in BOOLEAN /\ Len(calls) \in Nat
    BY <1>1
  <2>2. PICK f, g : f = StringNames /\ g = StringNames'
    OBVIOUS
  <2>3. Follows(g, f, Len(calls), c.op = "string" /\ ValidName(c.name), c.name)
    BY <1>1, <2>2, ListsGain
  <2> QED BY <1>2, <2>1, <2>2, <2>3, ListsFollow
<1>4. Lists(state'.global.fields, FieldsFor(EmptyBag)') /\ Lists(state'.global.metrics, DefinedFor(EmptyBag)')
  <2>1. PICK key : key = EmptyBag
    OBVIOUS
  <2>2. Lists(state'.global.fields, FieldsFor(key)') /\ Lists(state'.global.metrics, DefinedFor(key)')
    BY <1>1, <1>2, <2>1, BufferGains
  <2> QED BY <2>1, <2>2
<1>5. ASSUME NEW k \in DOMAIN state'.sets
      PROVE  /\ Lists(state'.sets[k].fields, FieldsFor(k)')
             /\ Lists(state'.sets[k].metrics, DefinedFor(k)')
  <2>1. PICK old : Gains(state'.sets[k], old, c, k) /\ BufferIsExplained(old, k)
    OBVIOUS
  <2>2. PICK key : key = k
    OBVIOUS
  <2>3. Lists(state'.sets[k].fields, FieldsFor(key)') /\ Lists(state'.sets[k].metrics, DefinedFor(key)')
    BY <1>1, <2>1, <2>2, BufferGains
  <2> QED BY <2>2, <2>3
<1>6. ASSUME NEW i \in DOMAIN calls', calls'[i].op = "metric", ValidName(calls'[i].name),
             ~IsGlobal(calls'[i])
      PROVE  Key(calls'[i]) \in DOMAIN state'.sets
  BY <1>1, <1>2, <1>6, OneMoreCall
<1>7. \A x : (ValidName(x)' <=> ValidName(x)) /\ (IsGlobal(x)' <=> IsGlobal(x)) /\ Key(x)' = Key(x)
  BY <1>1 DEF ValidName, IsGlobal, Key
<1> QED BY <1>3, <1>4, <1>5, <1>6, <1>7 DEF BuffersAreExplained, BufferIsExplained

LEMMA NothingGained ==
  ASSUME NEW buf, NEW c, NEW key, ~BelongsTo(c, key)
  PROVE  Gains(buf, buf, c, key)
BY DEF Gains

LEMMA OtherCallsAreExplained ==
  ASSUME Shapes, BuffersAreExplained, NEW c \in Calls,
         \/ Timestamp(c) \/ InvalidName(c) \/ String(c) \/ ValueError(c)
         \/ EntryDimensions(c) \/ AllowSplitEntries(c) \/ AllowUnroutableEntries(c)
  PROVE  BuffersAreExplained'
<1>1. PICK op : Writes(c, op) /\ op \in {"timestamp", "string", "metric", "error", "dimensions", "split", "unroutable"}
  BY DEF Timestamp, InvalidName, String, ValueError, EntryDimensions, AllowSplitEntries,
         AllowUnroutableEntries
<1>2. c.op = op /\ phase = "writing"
  BY <1>1 DEF Writes
<1>3. /\ state'.string_fields = IF c.op = "string" /\ ValidName(c.name)
                                THEN Append(state.string_fields, c.name)
                                ELSE state.string_fields
      /\ state'.global = state.global /\ state'.sets = state.sets
      /\ c.op = "metric" => ~ValidName(c.name)
  <2>1. CASE String(c)
    BY <2>1 DEF String, Writes, Shapes
  <2>2. CASE InvalidName(c)
    BY <2>2 DEF InvalidName, Writes
  <2>3. CASE \/ Timestamp(c) \/ ValueError(c)
             \/ EntryDimensions(c) \/ AllowSplitEntries(c) \/ AllowUnroutableEntries(c)
    BY <2>3 DEF Timestamp, ValueError, EntryDimensions, AllowSplitEntries,
                AllowUnroutableEntries, Writes
  <2> QED BY <2>1, <2>2, <2>3
<1>4. \A key : ~BelongsTo(c, key)
  BY <1>3 DEF BelongsTo
<1>5. Gains(state'.global, state.global, c, EmptyBag)
  BY <1>3, <1>4, NothingGained
<1>6. \A k \in DOMAIN state'.sets :
        k # EmptyBag /\ Gains(state'.sets[k], state.sets[k], c, k) /\ BufferIsExplained(state.sets[k], k)
  BY <1>2, <1>3, <1>4, NothingGained DEF BuffersAreExplained
<1> QED BY <1>1, <1>3, <1>5, <1>6, CallIsExplained

LEMMA MetricIsExplained ==
  ASSUME Shapes, BuffersAreExplained, NEW c \in Calls, Metric(c)
  PROVE  BuffersAreExplained'
<1> DEFINE set == IF Key(c) \in DOMAIN state.sets THEN state.sets[Key(c)] ELSE NewSet(Key(c))
<1>1. /\ Writes(c, "metric") /\ c.op = "metric" /\ ValidName(c.name) /\ phase = "writing"
      /\ state' = IF IsGlobal(c)
                  THEN [state EXCEPT !.global = WriteMetric(@, c, multiplicity)]
                  ELSE [state EXCEPT !.sets = Put(@, Key(c), WriteMetric(set, c, multiplicity))]
  BY DEF Metric, Writes
<1>2. ASSUME NEW buf, {"fields", "metrics"} \subseteq DOMAIN buf, NEW key,
             IF IsGlobal(c) THEN key = EmptyBag ELSE key = Key(c)
      PROVE  Gains(WriteMetric(buf, c, multiplicity), buf, c, key)
  <2>1. BelongsTo(c, key) <=> Kept(c) # <<>>
    BY <1>1, <1>2 DEF BelongsTo
  <2> QED BY <1>2, <2>1 DEF Gains, WriteMetric
<1>3. HasShape(state)
  BY ShapesInParts
<1>4. /\ BufferIsExplained(state.global, EmptyBag)
      /\ \A k \in DOMAIN state.sets : k # EmptyBag /\ BufferIsExplained(state.sets[k], k)
      /\ \A i \in DOMAIN calls :
           calls[i].op = "metric" /\ ValidName(calls[i].name) /\ ~IsGlobal(calls[i]) =>
             Key(calls[i]) \in DOMAIN state.sets
  BY <1>1 DEF BuffersAreExplained
<1>5. CASE IsGlobal(c)
  <2>1. /\ state'.global = WriteMetric(state.global, c, multiplicity)
        /\ state'.sets = state.sets /\ state'.string_fields = state.string_fields
    BY <1>1, <1>3, <1>5 DEF HasShape
  <2>2. Gains(state'.global, state.global, c, EmptyBag)
    BY <1>2, <1>3, <1>5, <2>1 DEF HasShape
  <2>3. \A k \in DOMAIN state.sets : ~BelongsTo(c, k)
    BY <1>4, <1>5 DEF BelongsTo
  <2>4. \A k \in DOMAIN state'.sets :
          k # EmptyBag /\ Gains(state'.sets[k], state.sets[k], c, k) /\ BufferIsExplained(state.sets[k], k)
    BY <1>4, <2>1, <2>3, NothingGained
  <2> QED BY <1>1, <1>5, <2>1, <2>2, <2>4, CallIsExplained
<1>6. CASE ~IsGlobal(c)
  <2>1. /\ state'.global = state.global /\ state'.string_fields = state.string_fields
        /\ state'.sets = Put(state.sets, Key(c), WriteMetric(set, c, multiplicity))
    BY <1>1, <1>3, <1>6 DEF HasShape
  <2>2. Key(c) # EmptyBag
    BY <1>6 DEF IsGlobal
  <2>3. ~BelongsTo(c, EmptyBag)
    BY <1>6, <2>2 DEF BelongsTo
  <2>4. Gains(state'.global, state.global, c, EmptyBag)
    BY <2>1, <2>3, NothingGained
  <2>5. {"fields", "metrics"} \subseteq DOMAIN set /\ BufferIsExplained(set, Key(c))
    <3>1. CASE Key(c) \in DOMAIN state.sets
      BY <1>3, <1>4, <3>1 DEF HasShape
    <3>2. CASE Key(c) \notin DOMAIN state.sets
      <4>1. set = NewSet(Key(c)) /\ set.fields = <<>> /\ set.metrics = <<>>
            /\ {"fields", "metrics"} \subseteq DOMAIN set
        BY <3>2 DEF NewSet
      <4>2. \A i \in DOMAIN calls : ~BelongsTo(calls[i], Key(c))
        BY <1>4, <2>2, <3>2 DEF BelongsTo
      <4>3. DOMAIN FieldsFor(Key(c)) = {} /\ DOMAIN DefinedFor(Key(c)) = {}
        BY <4>2 DEF FieldsFor, DefinedFor
      <4> QED BY <4>1, <4>3, ListsNothing DEF BufferIsExplained
    <3> QED BY <3>1, <3>2
  <2>6. ASSUME NEW k \in DOMAIN state'.sets
        PROVE  k # EmptyBag /\ \E old : Gains(state'.sets[k], old, c, k) /\ BufferIsExplained(old, k)
    <3>1. CASE k = Key(c)
      <4>1. state'.sets[k] = WriteMetric(set, c, multiplicity)
        BY <2>1, <3>1 DEF Put
      <4>2. Gains(WriteMetric(set, c, multiplicity), set, c, k)
        BY <1>2, <1>6, <2>5, <3>1
      <4> QED BY <2>2, <2>5, <3>1, <4>1, <4>2
    <3>2. CASE k # Key(c)
      <4>1. k \in DOMAIN state.sets /\ state'.sets[k] = state.sets[k]
        BY <2>1, <2>6, <3>2 DEF Put
      <4>2. ~BelongsTo(c, k)
        BY <1>6, <3>2 DEF BelongsTo
      <4> QED BY <1>4, <4>1, <4>2, NothingGained
    <3> QED BY <3>1, <3>2
  <2>7. DOMAIN state'.sets = DOMAIN state.sets \cup {Key(c)}
    BY <2>1 DEF Put
  <2> QED BY <1>1, <2>1, <2>4, <2>6, <2>7, CallIsExplained
<1> QED BY <1>5, <1>6

Explained(l) ==
  /\ Lists(l.strings, StringNames)
  /\ Lists(l.fields, FieldsFor(l.own))
  /\ Lists(l.metrics, DefinedFor(l.own))

Accounted(c, lines) ==
  c.op = "metric" /\ ValidName(c.name) /\ Kept(c) # <<>> =>
    \E l \in lines : \E f \in Range(l.fields) : f.name = c.name

LEMMA ExplainedInParts ==
  LinesAreExplained <=>
    /\ \A l \in emf.lines : Explained(l)
    /\ emf.result = "ok" => emf.lines # {} /\ \A i \in DOMAIN calls : Accounted(calls[i], emf.lines)
    /\ emf.result \in {"validation", "none"} => emf.lines = {}
BY DEF LinesAreExplained, Explained, Accounted

(* The lines finish may write list what the entry wrote. *)
LEMMA LinesOfBuffers ==
  ASSUME BuffersAreExplained, phase = "writing"
  PROVE  \A l \in SetLines \cup GlobalLines : Explained(l)
<1>1. /\ Lists(state.string_fields, StringNames) /\ BufferIsExplained(state.global, EmptyBag)
      /\ \A k \in DOMAIN state.sets : BufferIsExplained(state.sets[k], k)
  BY DEF BuffersAreExplained
<1>2. ASSUME NEW key, NEW dimensions, NEW buf, BufferIsExplained(buf, key)
      PROVE  Explained(Line(key, dimensions, buf))
  <2>1. /\ Line(key, dimensions, buf).own = key
        /\ Line(key, dimensions, buf).fields = buf.fields
        /\ Line(key, dimensions, buf).metrics = buf.metrics
        /\ Line(key, dimensions, buf).strings = state.string_fields
    BY DEF Line
  <2> QED BY <1>1, <1>2, <2>1 DEF Explained, BufferIsExplained
<1>3. \A l \in SetLines : \E k \in DOMAIN state.sets :
        l = Line(k, state.sets[k].dimensions, state.sets[k])
  BY DEF SetLines
<1>4. \A l \in GlobalLines : l = Line(EmptyBag, BaseDimensions(writer), state.global)
  BY DEF GlobalLines
<1> QED BY <1>1, <1>2, <1>3, <1>4

(* And between them they have every metric the entry wrote. *)
LEMMA NoMetricIsLost ==
  ASSUME Shapes, BuffersAreExplained, phase = "writing", NEW i \in DOMAIN calls
  PROVE  Accounted(calls[i], SetLines \cup GlobalLines)
<1> SUFFICES ASSUME calls[i].op = "metric", ValidName(calls[i].name), Kept(calls[i]) # <<>>
             PROVE  \E l \in SetLines \cup GlobalLines :
                      \E f \in Range(l.fields) : f.name = calls[i].name
  BY DEF Accounted
<1>1. Len(calls) \in Nat /\ DOMAIN calls = 1..Len(calls)
  BY DEF Shapes
<1>2. ASSUME NEW buf, NEW key, BufferIsExplained(buf, key), BelongsTo(calls[i], key)
      PROVE  buf.fields # <<>> /\ \E f \in Range(buf.fields) : f.name = calls[i].name
  <2>1. /\ i \in DOMAIN FieldsFor(key) /\ DOMAIN FieldsFor(key) \subseteq 1..Len(calls)
        /\ FieldsFor(key)[i] = EmfField(calls[i], multiplicity)
    BY <1>1, <1>2 DEF FieldsFor
  <2>2. PICK r : r = Cardinality({j \in DOMAIN FieldsFor(key) : j <= i})
    OBVIOUS
  <2>3. r \in DOMAIN buf.fields /\ buf.fields[r] = EmfField(calls[i], multiplicity)
    BY <1>1, <1>2, <2>1, <2>2, ListsIsSeq DEF BufferIsExplained, Lists
  <2>4. EmfField(calls[i], multiplicity).name = calls[i].name
    BY DEF EmfField
  <2>5. DOMAIN <<>> = {}
    OBVIOUS
  <2> QED BY <2>3, <2>4, <2>5 DEF Range
<1>3. CASE IsGlobal(calls[i])
  <2>1. BelongsTo(calls[i], EmptyBag) /\ BufferIsExplained(state.global, EmptyBag)
    BY <1>3 DEF BelongsTo, BuffersAreExplained
  <2>2. Line(EmptyBag, BaseDimensions(writer), state.global) \in GlobalLines
    BY <1>2, <2>1 DEF GlobalLines
  <2>3. Line(EmptyBag, BaseDimensions(writer), state.global).fields = state.global.fields
    BY DEF Line
  <2> QED BY <1>2, <2>1, <2>2, <2>3
<1>4. CASE ~IsGlobal(calls[i])
  <2>1. PICK k : k = Key(calls[i])
    OBVIOUS
  <2>2. k \in DOMAIN state.sets /\ BelongsTo(calls[i], k) /\ BufferIsExplained(state.sets[k], k)
    BY <1>4, <2>1 DEF BelongsTo, BuffersAreExplained
  <2>3. Line(k, state.sets[k].dimensions, state.sets[k]) \in SetLines
    BY <1>2, <2>2 DEF SetLines
  <2>4. Line(k, state.sets[k].dimensions, state.sets[k]).fields = state.sets[k].fields
    BY DEF Line
  <2> QED BY <1>2, <2>2, <2>3, <2>4
<1> QED BY <1>3, <1>4

LEMMA SameCalls ==
  ASSUME UNCHANGED <<options, calls, multiplicity>>
  PROVE  \A x : (Explained(x)' <=> Explained(x)) /\ \A L : Accounted(x, L)' <=> Accounted(x, L)
<1>1. StringNames' = StringNames /\ \A key : FieldsFor(key)' = FieldsFor(key) /\ DefinedFor(key)' = DefinedFor(key)
  BY DEF StringNames, FieldsFor, DefinedFor, BelongsTo, ValidName, IsGlobal, Key
<1>2. \A x : ValidName(x)' <=> ValidName(x)
  BY DEF ValidName
<1>3. \A x : Explained(x)' <=> Explained(x)
  BY <1>1 DEF Explained
<1> QED BY <1>2, <1>3 DEF Accounted

EInv == BuffersAreExplained /\ LinesAreExplained

LEMMA FinishIsExplained ==
  ASSUME Shapes, NothingYet, EInv, Finish
  PROVE  EInv'
<1>1. /\ phase = "writing" /\ phase' = "json"
      /\ UNCHANGED <<options, calls, multiplicity>>
  BY DEF Finish
<1>2. BuffersAreExplained'
  BY <1>1 DEF BuffersAreExplained
<1>3. \/ emf'.result = "validation" /\ emf'.lines = {}
      \/ emf'.result = "ok" /\ emf'.lines = SetLines \cup GlobalLines
      \/ emf'.result = "io" /\ emf'.lines \subseteq SetLines \cup GlobalLines
  BY DEF Finish
<1>4. SetLines \cup GlobalLines # {}
  BY DEF GlobalLines
<1>5. \A l \in emf'.lines : Explained(l)
  BY <1>1, <1>3, LinesOfBuffers DEF EInv
<1>6. emf'.result = "ok" => \A i \in DOMAIN calls : Accounted(calls[i], emf'.lines)
  BY <1>1, <1>3, NoMetricIsLost DEF EInv
<1>7. LinesAreExplained'
  <2>1. LinesAreExplained' <=>
          /\ \A l \in emf'.lines : Explained(l)'
          /\ emf'.result = "ok" =>
               emf'.lines # {} /\ \A i \in DOMAIN calls' : Accounted(calls[i], emf.lines)'
          /\ emf'.result \in {"validation", "none"} => emf'.lines = {}
    BY DEF LinesAreExplained, Explained, Accounted
  <2>2. \A i \in DOMAIN calls' : Accounted(calls[i], emf.lines)' <=> Accounted(calls[i], emf'.lines)
    BY <1>1, SameCalls
  <2> QED BY <1>1, <1>3, <1>4, <1>5, <1>6, <2>1, <2>2, SameCalls
<1> QED BY <1>2, <1>7 DEF EInv

LEMMA BeginIsExplained ==
  ASSUME NEW m \in Multiplicities, Begin(m)
  PROVE  EInv'
<1>1. /\ calls' = <<>> /\ state' = Cleared /\ emf' = Nothing
  BY DEF Begin
<1>2. DOMAIN calls' = {}
  BY <1>1
<1>3. /\ state'.string_fields = <<>> /\ state'.global.fields = <<>>
      /\ state'.global.metrics = <<>> /\ DOMAIN state'.sets = {}
  BY <1>1 DEF Cleared, NoBuffers, NoMap
<1>4. DOMAIN StringNames' = {} /\ \A key : DOMAIN FieldsFor(key)' = {} /\ DOMAIN DefinedFor(key)' = {}
  BY <1>2 DEF StringNames, FieldsFor, DefinedFor
<1>5. /\ Lists(state'.string_fields, StringNames')
      /\ Lists(state'.global.fields, FieldsFor(EmptyBag)')
      /\ Lists(state'.global.metrics, DefinedFor(EmptyBag)')
  <2>1. PICK key, f, g, h : /\ key = EmptyBag /\ f = StringNames' /\ g = FieldsFor(key)'
                            /\ h = DefinedFor(key)'
    OBVIOUS
  <2>2. Lists(<<>>, f) /\ Lists(<<>>, g) /\ Lists(<<>>, h)
    BY <1>4, <2>1, ListsNothing
  <2> QED BY <1>3, <2>1, <2>2
<1>6. BuffersAreExplained'
  BY <1>2, <1>3, <1>5 DEF BuffersAreExplained, BufferIsExplained
<1>7. emf'.lines = {} /\ emf'.result = "none"
  BY <1>1 DEF Nothing
<1>8. LinesAreExplained'
  BY <1>7 DEF LinesAreExplained
<1> QED BY <1>6, <1>8 DEF EInv

LEMMA StutterIsExplained ==
  ASSUME EInv, UNCHANGED <<options, calls, multiplicity, emf>>,
         phase' # "writing" \/ UNCHANGED <<phase, state>>
  PROVE  EInv'
<1>1. LinesAreExplained'
  <2>1. LinesAreExplained' <=>
          /\ \A l \in emf'.lines : Explained(l)'
          /\ emf'.result = "ok" =>
               emf'.lines # {} /\ \A i \in DOMAIN calls' : Accounted(calls[i], emf.lines)'
          /\ emf'.result \in {"validation", "none"} => emf'.lines = {}
    BY DEF LinesAreExplained, Explained, Accounted
  <2>2. \A i \in DOMAIN calls' : Accounted(calls[i], emf.lines)' <=> Accounted(calls[i], emf.lines)
    BY SameCalls
  <2> QED BY <2>1, <2>2, SameCalls, ExplainedInParts DEF EInv
<1>2. BuffersAreExplained'
  <2>1. CASE phase' # "writing"
    BY <2>1 DEF BuffersAreExplained
  <2>2. CASE UNCHANGED <<phase, state>>
    <3>1. StringNames' = StringNames /\ \A key : FieldsFor(key)' = FieldsFor(key) /\ DefinedFor(key)' = DefinedFor(key)
      BY DEF StringNames, FieldsFor, DefinedFor, BelongsTo, ValidName, IsGlobal, Key
    <3>2. \A x : (ValidName(x)' <=> ValidName(x)) /\ (IsGlobal(x)' <=> IsGlobal(x)) /\ Key(x)' = Key(x)
      BY DEF ValidName, IsGlobal, Key
    <3> QED BY <2>2, <3>1, <3>2 DEF BuffersAreExplained, BufferIsExplained, EInv
  <2> QED BY <2>1, <2>2
<1> QED BY <1>1, <1>2 DEF EInv

LEMMA CallsAreExplained ==
  ASSUME Shapes, NothingYet, EInv, NEW c \in Calls,
         \/ Timestamp(c) \/ InvalidName(c) \/ String(c) \/ Metric(c) \/ ValueError(c)
         \/ EntryDimensions(c) \/ AllowSplitEntries(c) \/ AllowUnroutableEntries(c)
  PROVE  EInv'
<1>1. PICK op : Writes(c, op)
  BY DEF Timestamp, InvalidName, String, Metric, ValueError, EntryDimensions,
         AllowSplitEntries, AllowUnroutableEntries
<1>2. emf' = Nothing
  BY <1>1 DEF Writes, NothingYet
<1>3. emf'.lines = {} /\ emf'.result = "none"
  BY <1>2 DEF Nothing
<1>4. LinesAreExplained'
  BY <1>3 DEF LinesAreExplained
<1> QED BY <1>4, OtherCallsAreExplained, MetricIsExplained DEF EInv

(* The lines Emf writes are those of the entry it was given, for entries of any *)
(* length and any sequence of entries: although the buffers and the map of      *)
(* dimension sets outlive an entry, each line lists exactly the strings,         *)
(* observations, weights and definitions that belong on it, in order, and an     *)
(* accepted entry loses none.                                                  *)
THEOREM EmfLinesAreExplained == Spec => []LinesAreExplained
<1>1. Init => EInv
  <2> SUFFICES ASSUME Init PROVE EInv
    OBVIOUS
  <2>1. emf.lines = {} /\ emf.result = "none" /\ phase = "idle"
    BY DEF Init, Nothing
  <2> QED BY <2>1 DEF EInv, BuffersAreExplained, LinesAreExplained
<1>2. IInv /\ EInv /\ [Next]_vars => EInv'
  <2> SUFFICES ASSUME IInv, EInv, [Next]_vars PROVE EInv'
    OBVIOUS
  <2>1. Shapes /\ NothingYet
    BY DEF IInv
  <2>2. CASE \E m \in Multiplicities : Begin(m)
    BY <2>2, BeginIsExplained
  <2>3. ASSUME NEW c \in Calls,
               \/ Timestamp(c) \/ InvalidName(c) \/ String(c) \/ Metric(c) \/ ValueError(c)
               \/ EntryDimensions(c) \/ AllowSplitEntries(c) \/ AllowUnroutableEntries(c)
        PROVE  EInv'
    BY <2>1, <2>3, CallsAreExplained
  <2>4. CASE Finish
    BY <2>1, <2>4, FinishIsExplained
  <2>5. CASE TeeNext \/ Flush
    BY <2>5, StutterIsExplained DEF TeeNext, Flush
  <2>6. CASE UNCHANGED vars
    BY <2>6, StutterIsExplained DEF vars
  <2> QED BY <2>2, <2>3, <2>4, <2>5, <2>6 DEF Next
<1>3. EInv => LinesAreExplained
  BY DEF EInv
<1> QED BY <1>1, <1>2, <1>3, AllIsNotedAlways, PTL DEF Spec

-----------------------------------------------------------------------------
(* Json's run over the calls. Induction over numbers: the smallest number that   *)
(* is not in a set is neither zero nor the successor of one that is.            *)

Smaller == {p \in Nat \X Nat : p[1] < p[2]}

LEMMA NatInSet ==
  ASSUME NEW T, 0 \in T, \A n \in Nat : n \in T => n + 1 \in T
  PROVE  Nat \subseteq T
<1> SUFFICES ASSUME Nat \ T # {} PROVE FALSE
  OBVIOUS
<1>1. IsWellFoundedOn(Smaller, Nat)
  <2>1. Smaller = OpToRel(<, Nat)
    BY DEF Smaller, OpToRel
  <2> QED BY <2>1, NatLessThanWellFounded
<1>2. PICK x \in Nat \ T : \A y \in Nat \ T : ~(<<y, x>> \in Smaller)
  BY <1>1, WFMin
<1>3. x # 0 /\ x - 1 \in Nat /\ x - 1 + 1 = x
  BY <1>2
<1>4. <<x - 1, x>> \in Smaller
  BY <1>3 DEF Smaller
<1> QED BY <1>2, <1>3, <1>4

(* Positions have a last one, and are finitely many. *)
LEMMA LastPosition ==
  ASSUME NEW n \in Nat, NEW s \in SUBSET (1..n), s # {}
  PROVE  Max(s) \in s /\ \A y \in s : Max(s) >= y
<1> DEFINE T == {k \in Nat : \A t \in SUBSET (1..k) : t # {} => \E x \in t : \A y \in t : x >= y}
<1>1. 0 \in T
  <2>1. 1..0 = {}
    OBVIOUS
  <2> QED BY <2>1
<1>2. ASSUME NEW k \in Nat, k \in T PROVE k + 1 \in T
  <2> SUFFICES ASSUME NEW t \in SUBSET (1..(k + 1)), t # {}
               PROVE  \E x \in t : \A y \in t : x >= y
    OBVIOUS
  <2>1. CASE k + 1 \in t
    BY <2>1
  <2>2. CASE k + 1 \notin t
    <3>1. t \in SUBSET (1..k)
      BY <2>2
    <3> QED BY <1>2, <3>1
  <2> QED BY <2>1, <2>2
<1>3. n \in T
  <2> HIDE DEF T
  <2> QED BY <1>1, <1>2, NatInSet
<1>4. \E x \in s : \A y \in s : x >= y
  BY <1>3
<1> QED BY <1>4 DEF Max

JsonStart == [timestamp |-> FALSE, error |-> FALSE, metrics |-> <<>>, properties |-> <<>>]

IsJsonFold(g, A) ==
  g = [s \in A |-> IF s = {} THEN JsonStart ELSE JsonCall(g[s \ {Max(s)}], calls[Max(s)])]

Among(n) == {s \in SUBSET DOMAIN calls : Cardinality(s) <= n}

LEMMA JsonFoldExists ==
  ASSUME calls \in Seq(Calls)
  PROVE  \E g : IsJsonFold(g, SUBSET DOMAIN calls)
<1> DEFINE T == {n \in Nat : \E g : IsJsonFold(g, Among(n))}
<1>1. Len(calls) \in Nat /\ DOMAIN calls = 1..Len(calls) /\ IsFiniteSet(DOMAIN calls)
  BY FS_Interval
<1>2. \A s \in SUBSET DOMAIN calls : IsFiniteSet(s) /\ Cardinality(s) \in Nat
                                     /\ Cardinality(s) <= Cardinality(DOMAIN calls)
  BY <1>1, FS_Subset, FS_CardinalityType
<1>3. 0 \in T
  <2>1. Among(0) = {{}}
    BY <1>2, FS_EmptySet DEF Among
  <2>2. IsJsonFold([s \in {{}} |-> JsonStart], {{}})
    BY DEF IsJsonFold
  <2> QED BY <2>1, <2>2
<1>4. ASSUME NEW n \in Nat, n \in T PROVE n + 1 \in T
  <2>1. PICK g : IsJsonFold(g, Among(n))
    BY <1>4
  <2> DEFINE h == [s \in Among(n + 1) |-> IF s = {} THEN JsonStart
                                          ELSE JsonCall(g[s \ {Max(s)}], calls[Max(s)])]
  <2>2. Among(n) \subseteq Among(n + 1)
    BY <1>2 DEF Among
  <2>3. \A s \in Among(n + 1) : s # {} => s \ {Max(s)} \in Among(n)
    <3> SUFFICES ASSUME NEW s \in Among(n + 1), s # {} PROVE s \ {Max(s)} \in Among(n)
      OBVIOUS
    <3>1. s \in SUBSET DOMAIN calls /\ IsFiniteSet(s) /\ Cardinality(s) <= n + 1
      BY <1>2 DEF Among
    <3>2. Max(s) \in s
      BY <1>1, <3>1, LastPosition
    <3>3. Cardinality(s \ {Max(s)}) = Cardinality(s) - 1
      BY <3>1, <3>2, FS_RemoveElement
    <3> QED BY <1>2, <3>1, <3>3 DEF Among
  <2>4. \A s \in Among(n) : h[s] = g[s]
    BY <2>1, <2>2 DEF IsJsonFold
  <2>5. IsJsonFold(h, Among(n + 1))
    BY <2>3, <2>4 DEF IsJsonFold
  <2> QED BY <2>5
<1>5. Cardinality(DOMAIN calls) \in T
  <2> HIDE DEF T
  <2> QED BY <1>2, <1>3, <1>4, NatInSet
<1>6. Among(Cardinality(DOMAIN calls)) = SUBSET DOMAIN calls
  BY <1>2 DEF Among
<1> QED BY <1>5, <1>6

(* The writer after each call. *)
LEMMA JsonRuns ==
  ASSUME calls \in Seq(Calls)
  PROVE  \E w : /\ w[0] = JsonStart /\ JsonWriter = w[Len(calls)]
                /\ \A n \in Nat : n + 1 <= Len(calls) => w[n + 1] = JsonCall(w[n], calls[n + 1])
<1>1. Len(calls) \in Nat /\ DOMAIN calls = 1..Len(calls)
  OBVIOUS
<1>2. PICK g : IsJsonFold(g, SUBSET DOMAIN calls) /\ JsonWriter = g[DOMAIN calls]
  BY JsonFoldExists DEF IsJsonFold, JsonWriter, FoldLeft, MapThenFoldSet, JsonStart
<1> DEFINE w == [n \in Nat |-> g[1..n]]
<1>3. w[0] = JsonStart
  BY <1>2 DEF IsJsonFold
<1>4. JsonWriter = w[Len(calls)]
  BY <1>1, <1>2
<1>5. ASSUME NEW n \in Nat, n + 1 <= Len(calls)
      PROVE  w[n + 1] = JsonCall(w[n], calls[n + 1])
  <2>1. 1..(n + 1) \in SUBSET DOMAIN calls /\ 1..(n + 1) # {}
    BY <1>1, <1>5
  <2>2. Max(1..(n + 1)) = n + 1
    <3>1. n + 1 \in Nat /\ n + 1 \in 1..(n + 1)
      OBVIOUS
    <3>2. PICK k : k = Max(1..(n + 1))
      OBVIOUS
    <3>3. k \in 1..(n + 1) /\ k >= n + 1
      BY <2>1, <3>1, <3>2, LastPosition
    <3> QED BY <3>2, <3>3
  <2>3. 1..(n + 1) \ {n + 1} = 1..n
    OBVIOUS
  <2>4. g[1..(n + 1)] = JsonCall(g[1..(n + 1) \ {Max(1..(n + 1))}], calls[Max(1..(n + 1))])
    BY <1>2, <2>1 DEF IsJsonFold
  <2>5. w[n + 1] = g[1..(n + 1)] /\ w[n] = g[1..n]
    OBVIOUS
  <2> HIDE DEF w
  <2> QED BY <2>2, <2>3, <2>4, <2>5
<1> QED BY <1>3, <1>4, <1>5

(* What the writer has after n calls. *)
MetricsUpTo(n) ==
  [i \in {i \in 1..n : calls[i].op = "metric" /\ calls[i].distribution # <<>>} |->
     JsonField(calls[i])]

PropertiesUpTo(n) == [i \in {i \in 1..n : calls[i].op = "string"} |-> calls[i].name]

Bad(c) == c.op = "error" \/ (c.op \in {"string", "metric"} /\ c.name = "")

RefusedUpTo(n) ==
  \/ \E i, j \in 1..n : i # j /\ calls[i].op = "timestamp" /\ calls[j].op = "timestamp"
  \/ \E i \in 1..n : Bad(calls[i])

JsonSoFar(w, n) ==
  /\ DOMAIN w = {"timestamp", "error", "metrics", "properties"}
  /\ w.timestamp \in BOOLEAN /\ w.error \in BOOLEAN
  /\ w.timestamp <=> \E i \in 1..n : calls[i].op = "timestamp"
  /\ w.error <=> RefusedUpTo(n)
  /\ ~w.error => Lists(w.metrics, MetricsUpTo(n)) /\ Lists(w.properties, PropertiesUpTo(n))

LEMMA JsonBegins == JsonSoFar(JsonStart, 0)
<1>1. 1..0 = {}
  OBVIOUS
<1>2. DOMAIN MetricsUpTo(0) = {} /\ DOMAIN PropertiesUpTo(0) = {}
  BY <1>1 DEF MetricsUpTo, PropertiesUpTo
<1>3. Lists(<<>>, MetricsUpTo(0)) /\ Lists(<<>>, PropertiesUpTo(0))
  BY <1>2, ListsNothing
<1> QED BY <1>1, <1>3 DEF JsonSoFar, JsonStart, RefusedUpTo

(* What one call does, whatever its kind. *)
LEMMA JsonCallDoes ==
  ASSUME NEW w, NEW c, DOMAIN w = {"timestamp", "error", "metrics", "properties"},
         w.timestamp \in BOOLEAN, w.error \in BOOLEAN
  PROVE  LET v == JsonCall(w, c)
         IN  /\ DOMAIN v = {"timestamp", "error", "metrics", "properties"}
             /\ v.timestamp = (w.timestamp \/ c.op = "timestamp")
             /\ v.error = (w.error \/ (w.timestamp /\ c.op = "timestamp") \/ Bad(c))
             /\ ~Bad(c) =>
                  /\ v.metrics = IF c.op = "metric" /\ c.distribution # <<>>
                                 THEN Append(w.metrics, JsonField(c)) ELSE w.metrics
                  /\ v.properties = IF c.op = "string" THEN Append(w.properties, c.name)
                                    ELSE w.properties
<1>1. CASE c.op = "timestamp"
  BY <1>1 DEF JsonCall, Bad
<1>2. CASE c.op \in {"string", "metric", "error"} /\ c.name = ""
  BY <1>2 DEF JsonCall, Bad
<1>3. CASE c.op = "string" /\ c.name # ""
  BY <1>3 DEF JsonCall, Bad
<1>4. CASE c.op = "metric" /\ c.name # ""
  BY <1>4 DEF JsonCall, Bad
<1>5. CASE c.op = "error" /\ c.name # ""
  BY <1>5 DEF JsonCall, Bad
<1>6. CASE c.op \notin {"timestamp", "string", "metric", "error"}
  BY <1>6 DEF JsonCall, Bad
<1> QED BY <1>1, <1>2, <1>3, <1>4, <1>5, <1>6

LEMMA JsonGoesOn ==
  ASSUME NEW w, NEW n \in Nat, JsonSoFar(w, n)
  PROVE  JsonSoFar(JsonCall(w, calls[n + 1]), n + 1)
<1>1. PICK c, v : c = calls[n + 1] /\ v = JsonCall(w, calls[n + 1])
  OBVIOUS
<1>2. /\ DOMAIN v = {"timestamp", "error", "metrics", "properties"}
      /\ v.timestamp = (w.timestamp \/ c.op = "timestamp")
      /\ v.error = (w.error \/ (w.timestamp /\ c.op = "timestamp") \/ Bad(c))
      /\ ~Bad(c) =>
           /\ v.metrics = IF c.op = "metric" /\ c.distribution # <<>>
                          THEN Append(w.metrics, JsonField(c)) ELSE w.metrics
           /\ v.properties = IF c.op = "string" THEN Append(w.properties, c.name)
                             ELSE w.properties
  BY <1>1, JsonCallDoes DEF JsonSoFar
<1>3. /\ 1..(n + 1) = 1..n \cup {n + 1} /\ n + 1 \notin 1..n
  OBVIOUS
<1>4. v.timestamp <=> \E i \in 1..(n + 1) : calls[i].op = "timestamp"
  BY <1>1, <1>2, <1>3 DEF JsonSoFar
<1>5. v.error <=> RefusedUpTo(n + 1)
  BY <1>1, <1>2, <1>3 DEF JsonSoFar, RefusedUpTo
<1>6. ASSUME ~v.error
      PROVE  Lists(v.metrics, MetricsUpTo(n + 1)) /\ Lists(v.properties, PropertiesUpTo(n + 1))
  <2>1. ~w.error /\ ~Bad(c) /\ Lists(w.metrics, MetricsUpTo(n)) /\ Lists(w.properties, PropertiesUpTo(n))
    BY <1>2, <1>6 DEF JsonSoFar
  <2>2. Follows(MetricsUpTo(n + 1), MetricsUpTo(n), n,
                c.op = "metric" /\ c.distribution # <<>>, JsonField(c))
    BY <1>1, <1>3 DEF Follows, MetricsUpTo
  <2>3. Follows(PropertiesUpTo(n + 1), PropertiesUpTo(n), n, c.op = "string", c.name)
    BY <1>1, <1>3 DEF Follows, PropertiesUpTo
  <2>4. (c.op = "metric" /\ c.distribution # <<>>) \in BOOLEAN /\ (c.op = "string") \in BOOLEAN
    OBVIOUS
  <2>5. Lists(v.metrics, MetricsUpTo(n + 1))
    BY <1>2, <2>1, <2>2, <2>4, ListsFollow
  <2>6. Lists(v.properties, PropertiesUpTo(n + 1))
    <3>1. PICK more \in BOOLEAN : more = (c.op = "string")
      BY <2>4
    <3>2. Follows(PropertiesUpTo(n + 1), PropertiesUpTo(n), n, more, c.name)
      BY <2>3, <3>1
    <3>3. v.properties = IF more THEN Append(w.properties, c.name) ELSE w.properties
      BY <1>2, <2>1, <3>1
    <3>4. Lists(IF more THEN Append(w.properties, c.name) ELSE w.properties, PropertiesUpTo(n + 1))
      BY <2>1, <3>2, ListsFollow
    <3> QED BY <3>3, <3>4
  <2> QED BY <2>5, <2>6
<1> QED BY <1>1, <1>2, <1>4, <1>5, <1>6 DEF JsonSoFar

LEMMA JsonWriterIs ==
  ASSUME calls \in Seq(Calls)
  PROVE  JsonSoFar(JsonWriter, Len(calls))
<1>1. PICK w : /\ w[0] = JsonStart /\ JsonWriter = w[Len(calls)]
               /\ \A n \in Nat : n + 1 <= Len(calls) => w[n + 1] = JsonCall(w[n], calls[n + 1])
  BY JsonRuns
<1> DEFINE T == {n \in Nat : n <= Len(calls) => JsonSoFar(w[n], n)}
<1>2. 0 \in T
  BY <1>1, JsonBegins
<1>3. ASSUME NEW n \in Nat, n \in T PROVE n + 1 \in T
  <2> SUFFICES ASSUME n + 1 <= Len(calls) PROVE JsonSoFar(w[n + 1], n + 1)
    OBVIOUS
  <2>1. JsonSoFar(w[n], n)
    BY <1>3
  <2> QED BY <1>1, <2>1, JsonGoesOn
<1>4. Len(calls) \in Nat
  OBVIOUS
<1>5. Len(calls) \in T
  <2> HIDE DEF T
  <2> QED BY <1>2, <1>3, <1>4, NatInSet
<1> QED BY <1>1, <1>5

-----------------------------------------------------------------------------
(* TeeWritesBoth. *)

TInv == TeeInTurn /\ ReportIsClean /\ TeeWritesBoth

LEMMA JsonRefusesIs ==
  ASSUME calls \in Seq(Calls)
  PROVE  /\ JsonRefuses <=> RefusedUpTo(Len(calls))
         /\ JsonMetrics = MetricsUpTo(Len(calls)) /\ JsonProperties = PropertiesUpTo(Len(calls))
<1>1. DOMAIN calls = 1..Len(calls)
  OBVIOUS
<1>2. JsonRefuses <=> RefusedUpTo(Len(calls))
  BY <1>1 DEF JsonRefuses, RefusedUpTo, Bad
<1>3. JsonMetrics = MetricsUpTo(Len(calls)) /\ JsonProperties = PropertiesUpTo(Len(calls))
  BY <1>1 DEF JsonMetrics, MetricsUpTo, JsonProperties, PropertiesUpTo
<1> QED BY <1>2, <1>3

(* A report of its own is complete when its field is written. *)
LEMMA ReportOfItsOwn ==
  ASSUME Shapes, ReportIsClean, IsReport, Len(calls) = 2, Complete
  PROVE  /\ calls[1].op = "unroutable" /\ calls[2].op = "string" /\ calls[2].name = Report
         /\ DOMAIN calls = {1, 2} /\ calls # <<>>
<1>1. DOMAIN calls = {1, 2} /\ calls # <<>>
  <2>1. DOMAIN calls = 1..2
    BY DEF Shapes
  <2> QED BY <2>1
<1>2. calls[2].op # "unroutable"
  BY <1>1 DEF Complete, Last
<1>3. calls[1].op = "unroutable"
  BY <1>1, <1>2 DEF IsReport
<1> QED BY <1>1, <1>3 DEF ReportIsClean

LEMMA CallsKeepTee ==
  ASSUME IInv, TInv, NEW c \in Calls,
         \/ Timestamp(c) \/ InvalidName(c) \/ String(c) \/ Metric(c) \/ ValueError(c)
         \/ EntryDimensions(c) \/ AllowSplitEntries(c) \/ AllowUnroutableEntries(c)
  PROVE  TInv'
<1>1. PICK op : Writes(c, op)
  BY DEF Timestamp, InvalidName, String, Metric, ValueError, EntryDimensions,
         AllowSplitEntries, AllowUnroutableEntries
<1>2. /\ phase = "writing" /\ phase' = "writing" /\ calls \in Seq(Calls)
      /\ calls' = Append(calls, c) /\ MayFollow(c)
      /\ UNCHANGED <<options, emf, json>> /\ emf = Nothing /\ json = Nothing
  BY <1>1 DEF Writes, IInv, Shapes, NothingYet, TInv, TeeInTurn
<1>3. emf'.result = "none" /\ json'.result = "none" /\ json' = Nothing
  BY <1>2 DEF Nothing
<1>4. TeeInTurn' /\ TeeWritesBoth'
  BY <1>2, <1>3 DEF TeeInTurn, TeeWritesBoth, Nothing
<1>5. /\ Len(calls) \in Nat /\ Len(calls') = Len(calls) + 1 /\ calls' # <<>>
      /\ calls'[Len(calls) + 1] = c /\ \A i \in 1..Len(calls) : calls'[i] = calls[i]
  BY <1>2
<1>6. ASSUME calls'[1].op = "unroutable", Len(calls') = 1
      PROVE  ~writer'.error /\ writer'.unroutable /\ KindOf(Report)'.kind = "unfound"
  <2>1. c.op = "unroutable" /\ calls = <<>>
    BY <1>2, <1>5, <1>6
  <2>2. ~writer.error /\ KindOf(Report).kind = "unfound"
    BY <1>2, <2>1 DEF TInv, ReportIsClean
  <2>3. AllowUnroutableEntries(c)
    BY <2>1 DEF Timestamp, InvalidName, String, Metric, ValueError, EntryDimensions,
                AllowSplitEntries, Writes
  <2>4. /\ writer'.error = writer.error /\ writer'.unroutable
        /\ writer'.validation_map = writer.validation_map
    BY <2>3 DEF AllowUnroutableEntries, IInv, Shapes
  <2> QED BY <2>2, <2>4 DEF KindOf
<1>7. ASSUME calls'[1].op = "unroutable", Len(calls') = 2
      PROVE  /\ calls'[2].op = "string" /\ calls'[2].name = Report
             /\ ~writer'.error /\ writer'.unroutable
  <2>1. Len(calls) = 1 /\ calls # <<>> /\ calls[1].op = "unroutable" /\ Last(calls) = calls[1]
        /\ calls'[2] = c
    <3>1. Len(calls) = 1
      <4>1. PICK n \in Nat : n = Len(calls)
        BY <1>5
      <4>2. n + 1 = 2
        BY <1>5, <1>7, <4>1
      <4> QED BY <4>1, <4>2
    <3>2. calls'[2] = c /\ calls'[1] = calls[1]
      BY <1>5, <3>1
    <3>3. calls # <<>>
      BY <3>1
    <3> QED BY <1>7, <3>1, <3>2, <3>3 DEF Last
  <2>2. c.op = "string" /\ c.name = Report
    BY <1>2, <2>1 DEF MayFollow
  <2>3. ~writer.error /\ writer.unroutable /\ KindOf(Report).kind = "unfound"
    BY <1>2, <2>1 DEF TInv, ReportIsClean
  <2>4. ValidName(c.name)
    BY <2>2 DEF ValidName, Report
  <2>5. String(c)
    BY <2>2, <2>4 DEF Timestamp, InvalidName, Metric, ValueError, EntryDimensions,
                AllowSplitEntries, AllowUnroutableEntries, Writes
  <2>6. writer'.error = writer.error /\ writer'.unroutable = writer.unroutable
    <3>1. writer' = writer \/ writer' = ValidateString(Report)
      BY <2>2, <2>5 DEF String
    <3>2. ValidateString(Report) = [writer EXCEPT !.validation_map = Put(@, Report, StringLine)]
      BY <2>3 DEF ValidateString
    <3>3. "validation_map" # "error" /\ "validation_map" # "unroutable"
      OBVIOUS
    <3>4. {"error", "unroutable"} \subseteq DOMAIN writer
      BY DEF IInv, Shapes
    <3> QED BY <3>1, <3>2, <3>3, <3>4
  <2> QED BY <2>1, <2>2, <2>3, <2>6
<1>8. ReportIsClean'
  BY <1>2, <1>5, <1>6, <1>7 DEF ReportIsClean
<1> QED BY <1>4, <1>8 DEF TInv

LEMMA BeginKeepsTee ==
  ASSUME NEW m \in Multiplicities, Begin(m)
  PROVE  TInv'
<1>1. /\ calls' = <<>> /\ phase' = "writing" /\ emf' = Nothing /\ json' = Nothing
      /\ ~writer'.error /\ writer'.validation_map = ValidationMapBase
  BY DEF Begin
<1>2. emf'.result = "none" /\ json'.result = "none"
  BY <1>1 DEF Nothing
<1>3. TeeInTurn' /\ TeeWritesBoth'
  BY <1>1, <1>2 DEF TeeInTurn, TeeWritesBoth, Nothing
<1>4. KindOf(Report)'.kind = "unfound"
  <2>1. KindOf(Report)' = Unfound
    BY <1>1 DEF KindOf, ValidationMapBase, NoMap, Unfound
  <2> QED BY <2>1 DEF Unfound
<1>5. ReportIsClean'
  BY <1>1, <1>4 DEF ReportIsClean
<1> QED BY <1>3, <1>5 DEF TInv

LEMMA FinishKeepsTee ==
  ASSUME IInv, TInv, Finish
  PROVE  TInv'
<1>1. /\ phase = "writing" /\ phase' = "json" /\ Complete
      /\ UNCHANGED <<options, calls, multiplicity, writer, state, json>>
      /\ json = Nothing
      /\ emf'.result = "validation" => writer.error \/ MissingDimension
  BY DEF Finish, TInv, TeeInTurn
<1>2. json'.result = "none"
  BY <1>1 DEF Nothing
<1>3. TeeInTurn' /\ ReportIsClean'
  BY <1>1 DEF TInv, TeeInTurn, ReportIsClean, Complete, Last, Nothing
<1>4. IsReport /\ Len(calls) = 2 => emf'.result # "validation"
  <2> SUFFICES ASSUME IsReport, Len(calls) = 2 PROVE ~writer.error /\ ~MissingDimension
    BY <1>1
  <2>1. calls[1].op = "unroutable" /\ calls # <<>>
    BY <1>1, ReportOfItsOwn DEF IInv, TInv
  <2>2. ~writer.error /\ writer.unroutable
    BY <1>1, <2>1 DEF TInv, ReportIsClean
  <2> QED BY <2>2 DEF MissingDimension
<1>5. TeeWritesBoth'
  BY <1>1, <1>2, <1>4 DEF TeeWritesBoth, IsReport
<1> QED BY <1>3, <1>5 DEF TInv

LEMMA TeeNextKeepsTee ==
  ASSUME IInv, TInv, TeeNext
  PROVE  TInv'
<1>1. /\ phase = "json" /\ phase' = "flush" /\ JsonFormat /\ calls \in Seq(Calls) /\ Complete
      /\ UNCHANGED <<options, calls, multiplicity, writer, state, emf>>
  BY DEF TeeNext, IInv, Shapes, TInv, TeeInTurn
<1>2. JsonSoFar(JsonWriter, Len(calls))
  BY <1>1, JsonWriterIs
<1>3. /\ JsonWriter.error <=> JsonRefuses
      /\ ~JsonWriter.error =>
           Lists(JsonWriter.metrics, JsonMetrics) /\ Lists(JsonWriter.properties, JsonProperties)
  BY <1>1, <1>2, JsonRefusesIs DEF JsonSoFar
<1>4. \/ /\ JsonWriter.error /\ json'.result = "validation" /\ json'.lines = {}
      \/ /\ ~JsonWriter.error /\ json'.result = "ok"
         /\ \E l : /\ json'.lines = {l} /\ l.metrics = JsonWriter.metrics
                   /\ l.properties = JsonWriter.properties
      \/ ~JsonWriter.error /\ json'.result = "io" /\ json'.lines = {}
  <2>1. CASE JsonWriter.error
    BY <1>1, <2>1 DEF JsonFormat
  <2>2. CASE ~JsonWriter.error /\ json' = [result |-> "io", lines |-> {}]
    BY <2>2
  <2>3. CASE /\ ~JsonWriter.error
             /\ json' = [result |-> "ok", lines |->
                           {[metrics |-> JsonWriter.metrics, properties |-> JsonWriter.properties]}]
    <3>1. PICK l : l = [metrics |-> JsonWriter.metrics, properties |-> JsonWriter.properties]
      OBVIOUS
    <3>2. json'.result = "ok" /\ json'.lines = {l} /\ l.metrics = JsonWriter.metrics
          /\ l.properties = JsonWriter.properties
      BY <2>3, <3>1
    <3> QED BY <2>3, <3>2
  <2> QED BY <1>1, <2>1, <2>2, <2>3 DEF JsonFormat
<1>5. (JsonRefuses' <=> JsonRefuses) /\ JsonMetrics' = JsonMetrics /\ JsonProperties' = JsonProperties
  BY <1>1 DEF JsonRefuses, JsonMetrics, JsonProperties, JsonField
<1>6. /\ json'.result = "validation" <=> JsonRefuses'
      /\ IF json'.result = "ok"
         THEN \E l \in json'.lines :
                /\ json'.lines = {l}
                /\ Lists(l.metrics, JsonMetrics') /\ Lists(l.properties, JsonProperties')
         ELSE json'.lines = {}
      /\ json'.result # "none"
  BY <1>3, <1>4, <1>5
<1>7. IsReport /\ Len(calls) = 2 => emf.result # "validation" /\ json'.result # "validation"
  <2> SUFFICES ASSUME IsReport, Len(calls) = 2 PROVE emf.result # "validation" /\ ~JsonRefuses
    BY <1>5, <1>6
  <2>1. /\ calls[1].op = "unroutable" /\ calls[2].op = "string" /\ calls[2].name = Report
        /\ DOMAIN calls = {1, 2}
    BY <1>1, ReportOfItsOwn DEF IInv, TInv
  <2>2. ~JsonRefuses
    BY <2>1 DEF JsonRefuses, Report
  <2> QED BY <2>2 DEF TInv, TeeWritesBoth
<1>8. TeeWritesBoth'
  BY <1>1, <1>6, <1>7 DEF TeeWritesBoth, IsReport
<1>9. TeeInTurn' /\ ReportIsClean'
  BY <1>1, <1>6 DEF TInv, TeeInTurn, ReportIsClean, Complete, Last
<1> QED BY <1>8, <1>9 DEF TInv

LEMMA FlushKeepsTee ==
  ASSUME TInv, \/ Flush
               \/ UNCHANGED vars
  PROVE  TInv'
<1>1. UNCHANGED <<options, calls, multiplicity, writer, emf, json>>
  BY DEF Flush, vars
<1>2. /\ (JsonRefuses' <=> JsonRefuses) /\ (IsReport' <=> IsReport) /\ (Complete' <=> Complete)
      /\ JsonMetrics' = JsonMetrics /\ JsonProperties' = JsonProperties
      /\ KindOf(Report)' = KindOf(Report)
  BY <1>1 DEF JsonRefuses, IsReport, JsonMetrics, JsonProperties, JsonField, KindOf, Complete, Last
<1>3. TeeInTurn' /\ ReportIsClean'
  BY <1>1, <1>2 DEF TInv, TeeInTurn, ReportIsClean, Flush, vars
<1>4. phase' = "idle" /\ emf'.result # "none" => flushed' = {"emf", "json"} /\ json'.result # "none"
  BY <1>1 DEF Flush, vars, TInv, TeeInTurn, TeeWritesBoth
<1>5. TeeWritesBoth'
  BY <1>1, <1>2, <1>4 DEF TInv, TeeWritesBoth
<1> QED BY <1>3, <1>5 DEF TInv

(* Each half of the tee writes the whole of every entry, for entries of any      *)
(* length, whatever becomes of it in the other half, and both are flushed        *)
(* before append returns; neither refuses the report of a refused entry.         *)
THEOREM TeeStarvesNobody == Spec => []TeeWritesBoth
<1>1. Init => TInv
  <2> SUFFICES ASSUME Init PROVE TInv
    OBVIOUS
  <2>1. /\ emf.result = "none" /\ json.result = "none" /\ phase = "idle" /\ calls = <<>>
        /\ json = Nothing
    BY DEF Init, Nothing
  <2>2. ~IsReport
    BY <2>1 DEF IsReport
  <2> QED BY <2>1, <2>2 DEF TInv, TeeInTurn, ReportIsClean, TeeWritesBoth, Complete
<1>2. IInv /\ TInv /\ [Next]_vars => TInv'
  <2> SUFFICES ASSUME IInv, TInv, [Next]_vars PROVE TInv'
    OBVIOUS
  <2>1. CASE \E m \in Multiplicities : Begin(m)
    BY <2>1, BeginKeepsTee
  <2>2. ASSUME NEW c \in Calls,
               \/ Timestamp(c) \/ InvalidName(c) \/ String(c) \/ Metric(c) \/ ValueError(c)
               \/ EntryDimensions(c) \/ AllowSplitEntries(c) \/ AllowUnroutableEntries(c)
        PROVE  TInv'
    BY <2>2, CallsKeepTee
  <2>3. CASE Finish
    BY <2>3, FinishKeepsTee
  <2>4. CASE TeeNext
    BY <2>4, TeeNextKeepsTee
  <2>5. CASE Flush \/ UNCHANGED vars
    BY <2>5, FlushKeepsTee
  <2> QED BY <2>1, <2>2, <2>3, <2>4, <2>5 DEF Next
<1>3. TInv => TeeWritesBoth
  BY DEF TInv
<1> QED BY <1>1, <1>2, <1>3, AllIsNotedAlways, PTL DEF Spec
=============================================================================
