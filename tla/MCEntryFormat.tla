---------------------------- MODULE MCEntryFormat ----------------------------
EXTENDS EntryFormat

Plain ==
  [skip_unique |-> FALSE, skip_dimensions_exist |-> FALSE, skip_names |-> FALSE,
   allow_ignored_dimensions |-> FALSE, global_dimensions |-> {}, denylist |-> {}]

Release ==
  [Plain EXCEPT !.skip_unique = TRUE, !.skip_dimensions_exist = TRUE, !.skip_names = TRUE]

(* A debug build, its allow_dimensions_with_no_data(true), a release build and  *)
(* its allow_dimensions_with_no_data(false), ignored and global dimensions.    *)
Builds ==
  {Plain,
   [Plain EXCEPT !.skip_dimensions_exist = TRUE],
   Release,
   [Release EXCEPT !.skip_dimensions_exist = FALSE],
   [Plain EXCEPT !.allow_ignored_dimensions = TRUE],
   [Plain EXCEPT !.global_dimensions = {<<"az", "a">>}, !.denylist = {"m2"}]}

Dims == {{"svc"}}

One == [kind |-> "value", occurrences |-> 1, nan |-> FALSE]
NaN == [One EXCEPT !.nan = TRUE]
Two == [kind |-> "repeated", occurrences |-> 2, nan |-> FALSE]

MetricCall(n, dist, dims, flags) ==
  [op |-> "metric", name |-> n, distribution |-> dist, dimensions |-> dims, flags |-> flags]
StringCall(n) == [op |-> "string", name |-> n]

SmallCalls ==
  {[op |-> "timestamp"], [op |-> "split"], [op |-> "unroutable"],
   [op |-> "dimensions", dim_sets |-> {{"op"}, {}}],
   [op |-> "error", name |-> "m1"],
   StringCall("svc"), StringCall("op"), StringCall(Report),
   MetricCall("m1", <<One>>, {}, {}),
   MetricCall("m1", <<Two>>, {<<"az", "a">>}, {"high"}),
   MetricCall("m1", <<NaN>>, {<<"az", "b">>}, {}),
   MetricCall("m2", <<Two, NaN, One>>, {}, {"high", "no_metric"}),
   MetricCall("m2", <<>>, {<<"az", "a">>}, {}),
   MetricCall("op", <<One>>, {<<"op", "b">>, <<"svc", "b">>}, {}),
   MetricCall("_aws", <<One>>, {}, {})}
=============================================================================
