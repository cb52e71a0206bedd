CONSTANTS
  Options <- Builds
  DefaultDimensions <- Dims
  Calls <- SmallCalls
  MaxCalls = 3
  Multiplicities = {0, 2}
  MaxCount = 3
SPECIFICATION Spec
INVARIANT PresentDimensionIsFound
