\* One trace of two points.
CONSTANTS
  Points = 2
  MaxScans = 2
SPECIFICATION Spec
INVARIANT CalculatedOrDirty
