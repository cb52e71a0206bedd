CONSTANTS
  Options <- Builds
  DefaultDimensions <- Dims
  Calls <- SmallCalls
  MaxCalls = 4
  Multiplicities = {0, 2}
  MaxCount = 3
SPECIFICATION Spec
INVARIANTS LinesAreExplained LinesAreWellFormed TeeWritesBoth
