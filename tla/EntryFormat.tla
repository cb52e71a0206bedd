----------------------------- MODULE EntryFormat -----------------------------
(***************************************************************************)
(* An immediate-flush sink over tee(emf, json): each entry is formatted by  *)
(* Emf and by Json from the same sequence of writer calls, and the stream    *)
(* is flushed. Emf keeps its buffers from one entry to the next, collects    *)
(* the metrics of each set of per-metric dimensions on a line of its own,    *)
(* and either refuses an entry as a whole or writes all its lines.          *)
(*                                                                         *)
(* A field is its name and the weights of its observations; text, units,     *)
(* namespaces and the values of numbers are left out.                       *)
(***************************************************************************)
EXTENDS Integers, Sequences, SequencesExt, FiniteSets, Bags

CONSTANTS
  Options,            \* configurations a builder may produce
  DefaultDimensions,  \* the dimension sets given to Emf::builder
  Calls,              \* what the entries may write
  MaxCalls,           \* bound on the calls of one entry
  Multiplicities,     \* what format_with_multiplicity may be given
  MaxCount            \* u64::MAX, where counts saturate

(* Option::None of the multiplicity of an entry that was not sampled. *)
NotSampled == 0

Report == "MetriqueValidationError"

(* What an EmfBuilder settles: Validation, allow_ignored_dimensions; and the  *)
(* merge_global_dimensions of the stream.                                    *)
Option ==
  [skip_unique : BOOLEAN, skip_dimensions_exist : BOOLEAN, skip_names : BOOLEAN,
   allow_ignored_dimensions : BOOLEAN,
   global_dimensions : SUBSET (STRING \X STRING), denylist : SUBSET STRING]

ASSUME FormatAssumption ==
  /\ \A o \in Options : o \in Option /\ o.skip_names = o.skip_unique
  /\ Multiplicities \subseteq Nat
  /\ MaxCalls \in Nat /\ MaxCount \in Nat

VARIABLES
  options,  \* what the builder chose
  phase,    \* "idle", "writing", "json", "flush": how far the append is
  calls,    \* what the entry has written so far
  multiplicity,
  writer,   \* EntryWriter
  state,    \* Emf::state, kept from entry to entry
  emf,      \* result and lines of the Emf half of the tee
  json,     \* result and line of the Json half
  flushed   \* which outputs the last append flushed

vars == <<options, phase, calls, multiplicity, writer, state, emf, json, flushed>>

NoMap == [n \in {} |-> n]
NoBuffers == [fields |-> <<>>, metrics |-> <<>>]
Put(f, k, v) == [x \in DOMAIN f \cup {k} |-> IF x = k THEN v ELSE f[x]]
Nothing == [result |-> "none", lines |-> {}]

(* LineKind *)
Unfound == [kind |-> "unfound"]
StringLine == [kind |-> "string"]
MetricLine(is) == [kind |-> "metric", indexes |-> is]

-----------------------------------------------------------------------------
(* What a metric writes. *)

Saturating(n) == IF n > MaxCount THEN MaxCount ELSE n

(* write_metric_value and write_observation: NaN is skipped; a single plain   *)
(* value that was not sampled is a scalar, anything else Values and Counts.  *)
Kept(c) == SelectSeq(c.distribution, LAMBDA o : ~o.nan)

EmfField(c, m) ==
  [name |-> c.name,
   scalar |-> m = NotSampled /\ Len(c.distribution) = 1 /\ c.distribution[1].kind = "value",
   counts |-> [i \in DOMAIN Kept(c) |->
                 Saturating(Kept(c)[i].occurrences * (IF m = NotSampled THEN 1 ELSE m))]]

(* EmfOptions::try_merge: of the flags a value is wrapped in, NoMetric wins. *)
Defined(c) == "no_metric" \notin c.flags

(* write_metric: no observation, or only NaN, and the field is not there.     *)
WriteMetric(buf, c, m) ==
  IF Kept(c) = <<>> THEN buf
  ELSE [buf EXCEPT !.fields = Append(@, EmfField(c, m)),
                   !.metrics = IF Defined(c) THEN Append(@, c.name) ELSE @]

(* DimensionSetKey of a metric, after WithGlobalDimensions. *)
Key(c) ==
  SetToBag(c.dimensions)
    (+) SetToBag(IF c.name \in options.denylist THEN {} ELSE options.global_dimensions)

IsGlobal(c) == options.allow_ignored_dimensions \/ Key(c) = EmptyBag

DimensionNames(key) == {d[1] : d \in DOMAIN key}

Extended(dim_sets, with) == {d \cup e : d \in dim_sets, e \in with}

BaseDimensions(w) ==
  IF w.has_dimensions THEN w.entry_dimensions ELSE DefaultDimensions

-----------------------------------------------------------------------------
(* EmfBuilder::build *)
Init ==
  /\ options \in Options
  /\ phase = "idle" /\ calls = <<>> /\ multiplicity = NotSampled
  /\ writer = [validation_map |-> NoMap, has_dimensions |-> FALSE, entry_dimensions |-> {},
               timestamp |-> FALSE, error |-> FALSE, split |-> FALSE, unroutable |-> FALSE]
  /\ state = [string_fields |-> <<>>, global |-> NoBuffers, sets |-> NoMap]
  /\ emf = Nothing /\ json = Nothing /\ flushed = {}

(* Emf::format_with_multiplicity *)
ValidationMapBase ==
  IF options.skip_dimensions_exist THEN NoMap
  ELSE [d \in UNION DefaultDimensions |-> Unfound]

(* Mutation: the map of dimension sets is not cleared. *)
ClearedGlobal == [string_fields |-> <<>>, global |-> NoBuffers, sets |-> state.sets]

(* Everything is cleared before the entry, not after: the last one may have    *)
(* been left half written.                                                   *)
Cleared == [string_fields |-> <<>>, global |-> NoBuffers, sets |-> NoMap]

Begin(m) ==
  /\ phase = "idle"
  /\ phase' = "writing"
  /\ calls' = <<>> /\ multiplicity' = m
  /\ state' = Cleared
  /\ writer' = [validation_map |-> ValidationMapBase, has_dimensions |-> FALSE,
                entry_dimensions |-> {}, timestamp |-> FALSE, error |-> FALSE,
                split |-> FALSE, unroutable |-> FALSE]
  /\ emf' = Nothing /\ json' = Nothing /\ flushed' = {}
  /\ UNCHANGED options

(* MetriqueValidationError::write: AllowUnroutableEntries is followed by the    *)
(* report's one field; "using it for other kinds of entries is not supported". *)
MayFollow(c) ==
  LET unroutable == calls # <<>> /\ Last(calls).op = "unroutable"
  IN  /\ unroutable <=> (c.op = "string" /\ c.name = Report)
      /\ calls # <<>> => ~(Last(calls).op = "string" /\ Last(calls).name = Report)

Complete == calls # <<>> => Last(calls).op # "unroutable"

Writes(c, op) ==
  /\ phase = "writing" /\ c.op = op
  /\ Len(calls) < MaxCalls \/ ~Complete
  /\ MayFollow(c)
  /\ calls' = Append(calls, c)
  /\ UNCHANGED <<options, phase, multiplicity, emf, json, flushed>>

Fail == writer' = [writer EXCEPT !.error = TRUE]

(* EntryWriter::timestamp *)
Timestamp(c) ==
  /\ Writes(c, "timestamp")
  /\ writer' = [writer EXCEPT !.timestamp = TRUE, !.error = @ \/ writer.timestamp]
  /\ UNCHANGED state

(* EntryWriter::value, validate_name *)
ValidName(n) == options.skip_names \/ n \notin {"", "_aws"}

InvalidName(c) ==
  /\ \E op \in {"string", "metric", "error"} : Writes(c, op)
  /\ ~ValidName(c.name)
  /\ Fail
  /\ UNCHANGED state

KindOf(n) ==
  IF n \in DOMAIN writer.validation_map THEN writer.validation_map[n] ELSE Unfound

(* Mutation: a string may have the name of a metric. *)
ValidateStringAfterMetric(n) ==
  IF KindOf(n).kind \in {"unfound", "metric"}
  THEN [writer EXCEPT !.validation_map = Put(@, n, StringLine)]
  ELSE [writer EXCEPT !.error = TRUE]

(* validate_string: a dimension may be given its value once. *)
ValidateString(n) ==
  IF KindOf(n).kind = "unfound"
  THEN [writer EXCEPT !.validation_map = Put(@, n, StringLine)]
  ELSE [writer EXCEPT !.error = TRUE]

(* ValueWriter::string, values *)
String(c) ==
  /\ Writes(c, "string")
  /\ ValidName(c.name)
  /\ state' = [state EXCEPT !.string_fields = Append(@, c.name)]
  /\ writer' = IF options.skip_unique THEN writer ELSE ValidateString(c.name)

(* The check of ValueWriter::metric: once per line, and never also a string   *)
(* or a dimension.                                                          *)
ValidateMetric(w, n, index) ==
  LET line == IF n \in DOMAIN w.validation_map THEN w.validation_map[n] ELSE MetricLine({})
  IN  IF line.kind = "metric" /\ index \notin line.indexes
      THEN [w EXCEPT !.validation_map = Put(@, n, MetricLine(line.indexes \cup {index}))]
      ELSE [w EXCEPT !.error = TRUE]

(* MetricsForDimensionSet::new *)
NewSet(key) ==
  [index |-> Cardinality(DOMAIN state.sets) + 1,
   dimensions |-> Extended(BaseDimensions(writer), {DimensionNames(key)}),
   fields |-> <<>>, metrics |-> <<>>]

(* ValueWriter::metric *)
Metric(c) ==
  LET set == IF Key(c) \in DOMAIN state.sets THEN state.sets[Key(c)] ELSE NewSet(Key(c))
      index == IF IsGlobal(c) THEN 0 ELSE set.index
      routed == [writer EXCEPT !.error = @ \/ (~IsGlobal(c) /\ ~writer.split)]
  IN  /\ Writes(c, "metric")
      /\ ValidName(c.name)
      /\ state' = IF IsGlobal(c)
                  THEN [state EXCEPT !.global = WriteMetric(@, c, multiplicity)]
                  ELSE [state EXCEPT !.sets = Put(@, Key(c), WriteMetric(set, c, multiplicity))]
      /\ writer' = IF options.skip_unique \/ writer.unroutable THEN routed
                   ELSE ValidateMetric(routed, c.name, index)

(* ValueWriter::error *)
ValueError(c) ==
  /\ Writes(c, "error")
  /\ ValidName(c.name)
  /\ Fail
  /\ UNCHANGED state

(* EntryWriter::config of EntryDimensions *)
DeclareDimensions(w, dims) ==
  [w EXCEPT
     !.validation_map = [d \in DOMAIN @ \cup dims |-> KindOf(d)],
     !.error = @ \/ (~options.skip_unique /\ \E d \in dims : KindOf(d).kind = "metric")]

EntryDimensions(c) ==
  /\ Writes(c, "dimensions")
  /\ IF DOMAIN state.sets # {} \/ writer.has_dimensions \/ c.dim_sets = {}
     THEN Fail
     ELSE LET declared == IF options.skip_unique /\ options.skip_dimensions_exist THEN writer
                          ELSE DeclareDimensions(writer, UNION c.dim_sets)
          IN  writer' = [declared EXCEPT
                           !.has_dimensions = TRUE,
                           !.entry_dimensions = Extended(DefaultDimensions, c.dim_sets)]
  /\ UNCHANGED state

(* EntryWriter::config of AllowSplitEntries and AllowUnroutableEntries *)
AllowSplitEntries(c) ==
  Writes(c, "split") /\ writer' = [writer EXCEPT !.split = TRUE] /\ UNCHANGED state

AllowUnroutableEntries(c) ==
  Writes(c, "unroutable") /\ writer' = [writer EXCEPT !.unroutable = TRUE] /\ UNCHANGED state

-----------------------------------------------------------------------------
(* EntryWriter::finish *)
MissingDimension ==
  /\ ~options.skip_dimensions_exist /\ ~writer.unroutable
  /\ \E d \in DOMAIN writer.validation_map : KindOf(d).kind = "unfound"

Line(key, dimensions, buf) ==
  [own |-> key, dimensions |-> dimensions, fields |-> buf.fields, metrics |-> buf.metrics,
   strings |-> state.string_fields]

SetLines ==
  {Line(k, state.sets[k].dimensions, state.sets[k]) :
     k \in {k \in DOMAIN state.sets : state.sets[k].fields # <<>>}}

(* A line of its own is redundant unless it is the only one. *)
GlobalLines ==
  IF SetLines = {} \/ state.global.fields # <<>>
  THEN {Line(EmptyBag, BaseDimensions(writer), state.global)} ELSE {}

(* Nothing is written unless all is valid; the output may fail at any line,    *)
(* and the global line is the last.                                         *)
Finish ==
  /\ phase = "writing" /\ Complete
  /\ phase' = "json"
  /\ \/ /\ writer.error \/ MissingDimension
        /\ emf' = [result |-> "validation", lines |-> {}]
     \/ /\ ~writer.error /\ ~MissingDimension
        /\ \/ emf' = [result |-> "ok", lines |-> SetLines \cup GlobalLines]
           \/ \E L \in SUBSET SetLines :
                /\ L # SetLines \/ GlobalLines # {}
                /\ emf' = [result |-> "io", lines |-> L]
  /\ UNCHANGED <<options, calls, multiplicity, writer, state, json, flushed>>

-----------------------------------------------------------------------------
(* Json::format_with_multiplicity: the same calls once more. *)

(* push_observation: NaN is null; only Repeated has a count to multiply.      *)
JsonField(c) ==
  [name |-> c.name,
   counts |-> [i \in DOMAIN c.distribution |->
                 LET o == c.distribution[i]
                 IN  IF o.kind = "value" THEN 1
                     ELSE Saturating(o.occurrences *
                            (IF multiplicity = NotSampled THEN 1 ELSE multiplicity))]]

(* JsonEntryWriter and JsonValueWriter. *)
JsonCall(w, c) ==
  CASE c.op = "timestamp" -> [w EXCEPT !.timestamp = TRUE, !.error = @ \/ w.timestamp]
    [] c.op \in {"string", "metric", "error"} /\ c.name = "" -> [w EXCEPT !.error = TRUE]
    [] c.op = "string" /\ c.name # "" -> [w EXCEPT !.properties = Append(@, c.name)]
    [] c.op = "metric" /\ c.name # "" ->
         IF c.distribution = <<>> THEN w ELSE [w EXCEPT !.metrics = Append(@, JsonField(c))]
    [] c.op = "error" /\ c.name # "" -> [w EXCEPT !.error = TRUE]
    [] OTHER -> w

JsonWriter ==
  FoldLeft(JsonCall,
           [timestamp |-> FALSE, error |-> FALSE, metrics |-> <<>>, properties |-> <<>>],
           calls)

JsonFormat ==
  IF JsonWriter.error THEN json' = [result |-> "validation", lines |-> {}]
  ELSE \/ json' = [result |-> "ok", lines |->
                     {[metrics |-> JsonWriter.metrics, properties |-> JsonWriter.properties]}]
       \/ json' = [result |-> "io", lines |-> {}]

(* Mutation: and_then instead of and. *)
TeeNextIfOk ==
  /\ phase = "json"
  /\ IF emf.result = "ok" THEN JsonFormat ELSE json' = [result |-> emf.result, lines |-> {}]
  /\ phase' = "flush"
  /\ UNCHANGED <<options, calls, multiplicity, writer, state, emf, flushed>>

(* Tee::next: the argument of Result::and is evaluated whatever s1 answers.   *)
TeeNext ==
  /\ phase = "json"
  /\ JsonFormat
  /\ phase' = "flush"
  /\ UNCHANGED <<options, calls, multiplicity, writer, state, emf, flushed>>

(* SinkState::append: flush whatever next returned; Tee::flush flushes both.  *)
Flush ==
  /\ phase = "flush"
  /\ flushed' = {"emf", "json"}
  /\ phase' = "idle"
  /\ UNCHANGED <<options, calls, multiplicity, writer, state, emf, json>>

Next ==
  \/ \E m \in Multiplicities : Begin(m)
  \/ \E c \in Calls :
       \/ Timestamp(c) \/ InvalidName(c) \/ String(c) \/ Metric(c) \/ ValueError(c)
       \/ EntryDimensions(c) \/ AllowSplitEntries(c) \/ AllowUnroutableEntries(c)
  \/ Finish \/ TeeNext \/ Flush

Spec == Init /\ [][Next]_vars

-----------------------------------------------------------------------------
(* s lists the values of f, a function on positions of the entry's calls, in    *)
(* the order of the calls.                                                    *)
Lists(s, f) ==
  /\ s \in [1..Cardinality(DOMAIN f) -> Range(f)]
  /\ \A i \in DOMAIN f : s[Cardinality({j \in DOMAIN f : j <= i})] = f[i]

(* The metrics that leave a field on the line of key. *)
BelongsTo(c, key) ==
  /\ c.op = "metric" /\ ValidName(c.name) /\ Kept(c) # <<>>
  /\ IF IsGlobal(c) THEN key = EmptyBag ELSE key = Key(c)

FieldsFor(key) ==
  [i \in {i \in DOMAIN calls : BelongsTo(calls[i], key)} |-> EmfField(calls[i], multiplicity)]

DefinedFor(key) ==
  [i \in {i \in DOMAIN calls : BelongsTo(calls[i], key) /\ Defined(calls[i])} |-> calls[i].name]

StringNames ==
  [i \in {i \in DOMAIN calls : calls[i].op = "string" /\ ValidName(calls[i].name)} |->
     calls[i].name]

(* The lines that reach the Emf output are those of this entry and of no       *)
(* other, although the buffers are shared: each line has every string, and    *)
(* exactly the observations, definitions and weights of the metrics with its  *)
(* dimensions; an accepted entry leaves at least one line and loses no        *)
(* metric, a refused one leaves none.                                       *)
LinesAreExplained ==
  /\ \A l \in emf.lines :
       /\ Lists(l.strings, StringNames)
       /\ Lists(l.fields, FieldsFor(l.own))
       /\ Lists(l.metrics, DefinedFor(l.own))
  /\ emf.result = "ok" =>
       /\ emf.lines # {}
       /\ \A i \in DOMAIN calls :
            LET c == calls[i]
            IN  c.op = "metric" /\ ValidName(c.name) /\ Kept(c) # <<>> =>
                  \E l \in emf.lines : \E f \in Range(l.fields) : f.name = c.name
  /\ emf.result \in {"validation", "none"} => emf.lines = {}

IsReport == \E i \in DOMAIN calls : calls[i].op = "unroutable"

Strict == ~options.skip_unique /\ ~options.skip_dimensions_exist

NamesIn(fields) == [i \in DOMAIN fields |-> fields[i].name]

(* The strings of a line and its metrics; MetricsForDimensionSet::new has      *)
(* written one more field for each copy of a dimension in the line's own key.  *)
FieldNames(l) == l.strings \o NamesIn(l.fields)

WrittenTwice(l) ==
  LET names == FieldNames(l)
  IN  {n \in Range(names) \cup DimensionNames(l.own) :
         \/ n \in Range(names) \cap DimensionNames(l.own)
         \/ \E i, j \in DOMAIN names : i # j /\ names[i] = n /\ names[j] = n
         \/ \E d, e \in DOMAIN l.own :
              d[1] = n /\ e[1] = n /\ (d # e \/ l.own[d] > 1)}

(* With all validations on, a line CloudWatch is given is well formed, whatever *)
(* order the entry made its calls in: no two of its strings and metrics have   *)
(* the same name, a metric defined is a field of the line, and every dimension *)
(* the line is published under has its value on the line. (A report may lack   *)
(* dimensions.) The one way for a name to be written twice is a dimension of   *)
(* the line's own, which the validations never see: it may have the name of a   *)
(* string, of a metric or of another dimension of the key.                    *)
LinesAreWellFormed ==
  Strict =>
    \A l \in emf.lines :
      /\ IsInjective(FieldNames(l))
      /\ WrittenTwice(l) \subseteq DimensionNames(l.own)
      /\ Range(l.metrics) \subseteq Range(NamesIn(l.fields))
      /\ ~IsReport => UNION l.dimensions \subseteq Range(l.strings) \cup DimensionNames(l.own)

JsonRefuses ==
  \/ \E i, j \in DOMAIN calls : i # j /\ calls[i].op = "timestamp" /\ calls[j].op = "timestamp"
  \/ \E i \in DOMAIN calls :
       calls[i].op = "error" \/ (calls[i].op \in {"string", "metric"} /\ calls[i].name = "")

JsonMetrics ==
  [i \in {i \in DOMAIN calls : calls[i].op = "metric" /\ calls[i].distribution # <<>>} |->
     JsonField(calls[i])]

JsonProperties == [i \in {i \in DOMAIN calls : calls[i].op = "string"} |-> calls[i].name]

(* Each half of the tee gets every entry whatever became of it in the other:  *)
(* Json writes the whole entry unless Json itself refuses it or its output    *)
(* fails, and both outputs are flushed before append returns. The report of a *)
(* refused entry is itself refused by neither.                               *)
TeeWritesBoth ==
  /\ json.result # "none" =>
       /\ (json.result = "validation") <=> JsonRefuses
       /\ IF json.result = "ok"
          THEN \E l \in json.lines :
                 /\ json.lines = {l}
                 /\ Lists(l.metrics, JsonMetrics) /\ Lists(l.properties, JsonProperties)
          ELSE json.lines = {}
  /\ phase = "idle" /\ emf.result # "none" => flushed = {"emf", "json"} /\ json.result # "none"
  /\ IsReport /\ Len(calls) = 2 => "validation" \notin {emf.result, json.result}

(* The builder's option is to check "that all dimensions referenced in         *)
(* dimension sets exist in the entry": an entry that has them all and is      *)
(* otherwise in order is not refused for a missing dimension.                *)
PresentDimensionIsFound ==
  phase = "json" /\ ~writer.error
    /\ UNION BaseDimensions(writer) \subseteq Range(StringNames) =>
      emf.result # "validation"

-----------------------------------------------------------------------------
(* The inductive invariant of EntryFormatProofs: with all validations on, the   *)
(* validation map knows what is in the buffers.                               *)

IsSeq(s) == s \in Seq(Range(s))

(* Every string was written once and is noted as one, and no other name is. *)
StringsAreNoted ==
  /\ IsSeq(state.string_fields) /\ IsInjective(state.string_fields)
  /\ \A n \in Range(state.string_fields) : KindOf(n).kind = "string"
  /\ \A n \in DOMAIN writer.validation_map :
       KindOf(n).kind \in {"unfound", "metric"} \/ n \in Range(state.string_fields)

(* So are the metrics in the buffers of the line with that index. *)
MetricsAreNoted(buf, index) ==
  /\ IsSeq(buf.fields) /\ IsSeq(buf.metrics)
  /\ IsInjective(NamesIn(buf.fields))
  /\ Range(buf.metrics) \subseteq Range(NamesIn(buf.fields))
  /\ \A n \in Range(NamesIn(buf.fields)) :
       KindOf(n).kind = "metric" /\ index \in KindOf(n).indexes

(* A dimension of a line is awaited, and is no metric. *)
DimensionsAreNoted ==
  /\ \A d \in UNION BaseDimensions(writer) :
       d \in DOMAIN writer.validation_map /\ KindOf(d).kind # "metric"
  /\ \A k \in DOMAIN state.sets :
       UNION state.sets[k].dimensions \subseteq (UNION BaseDimensions(writer)) \cup DimensionNames(k)

AllIsNoted ==
  phase = "writing" /\ Strict /\ ~writer.error =>
    /\ StringsAreNoted
    /\ MetricsAreNoted(state.global, 0)
    /\ \A k \in DOMAIN state.sets : MetricsAreNoted(state.sets[k], state.sets[k].index)
    /\ DimensionsAreNoted

(* A report ends its entry, so that no metric escapes the validation. *)
ReportIsLast ==
  writer.unroutable =>
    /\ IsReport
    /\ \/ Last(calls).op = "unroutable"
       \/ Last(calls).op = "string" /\ Last(calls).name = Report

NothingYet == phase = "writing" => emf = Nothing

Shapes ==
  /\ options \in Options /\ calls \in Seq(Calls)
  /\ DOMAIN writer = {"validation_map", "has_dimensions", "entry_dimensions", "timestamp",
                      "error", "split", "unroutable"}
  /\ \A f \in {"has_dimensions", "timestamp", "error", "split", "unroutable"} :
       writer[f] \in BOOLEAN
  /\ DOMAIN state = {"string_fields", "global", "sets"}
  /\ {"fields", "metrics"} \subseteq DOMAIN state.global
  /\ \A k \in DOMAIN state.sets :
       {"index", "dimensions", "fields", "metrics"} \subseteq DOMAIN state.sets[k]

(* Behind LinesAreExplained: the buffers list what the entry has written so     *)
(* far, whether or not it is in order, and every set of dimensions a metric     *)
(* was given has buffers.                                                      *)
BufferIsExplained(buf, key) ==
  Lists(buf.fields, FieldsFor(key)) /\ Lists(buf.metrics, DefinedFor(key))

BuffersAreExplained ==
  phase = "writing" =>
    /\ Lists(state.string_fields, StringNames)
    /\ BufferIsExplained(state.global, EmptyBag)
    /\ \A k \in DOMAIN state.sets : k # EmptyBag /\ BufferIsExplained(state.sets[k], k)
    /\ \A i \in DOMAIN calls :
         calls[i].op = "metric" /\ ValidName(calls[i].name) /\ ~IsGlobal(calls[i]) =>
           Key(calls[i]) \in DOMAIN state.sets

(* Behind TeeWritesBoth: the halves of the tee take their turns, and a report   *)
(* that is all of its entry has nothing to be refused for.                     *)
TeeInTurn ==
  /\ phase \in {"writing", "json"} => json = Nothing
  /\ phase = "flush" => json.result # "none"
  /\ phase # "writing" => Complete

ReportIsClean ==
  /\ phase = "writing" /\ calls = <<>> => ~writer.error /\ KindOf(Report).kind = "unfound"
  /\ calls # <<>> /\ calls[1].op = "unroutable" =>
       /\ phase = "writing" /\ Len(calls) = 1 =>
            ~writer.error /\ writer.unroutable /\ KindOf(Report).kind = "unfound"
       /\ Len(calls) = 2 =>
            /\ calls[2].op = "string" /\ calls[2].name = Report
            /\ phase = "writing" => ~writer.error /\ writer.unroutable
=============================================================================
