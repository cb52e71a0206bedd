-------------------------- MODULE MCMetricReporter --------------------------
(* The model-checking instance of MetricReporter.                          *)
EXTENDS MetricReporter
=============================================================================
