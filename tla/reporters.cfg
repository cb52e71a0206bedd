SPECIFICATION FairSpec
CONSTANTS
  Counters = {c}
  Gauges = {g}
  Buckets = {}
  Flushes = {f1, f2}
  ReporterFlushes = {f1}
  Capacity = 1
  Setups = {"stream", "unit", "handle", "lambda"}
  MaxRecords = 1
  MaxTicks = 1
INVARIANTS
  ReportsAreExact
PROPERTIES
  CallsReturn
CHECK_DEADLOCK FALSE
