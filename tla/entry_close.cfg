CONSTANTS
  Guards = {g1, g2}
  Forces = {f1, f2}
  Handles = {h1, h2}
  Root = root
  NoGuard = none
SPECIFICATION Spec
INVARIANT CloseIsTotal
CHECK_DEADLOCK FALSE
