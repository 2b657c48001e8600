\* Sweeps narrower and wider than their points, asked from outside the range too; a
\* span of more than it; two bands of up to three points, with frequencies that a float
\* rounds and one that wraps below zero; a menu deeper than the stack.
SPECIFICATION MachinesSpec
CONSTANTS
  Ranges <- SomeRanges
  MaxHz = 14
  PointCounts = {3, 5}
  ModeRanges <- SomeModes
  ModeTop <- SomeTops
  Outputs = {2}
  FirstMode = 0
  Presets <- SomePresets
  Asked = {2, 10}
  BitXor <- ExclusiveOr
  BANDS_MAX = 2
  POINTS_COUNT = 3
  BandPoints = {2, 3}
  Keyed = {0, 4, 12}
  Kept = {0, 4, 12, 28}
  Granularity = 2
  Wrap = 32
  MENU_STACK_DEPTH_MAX = 4
  TRACES_MAX = 3
  TablesMax = 1
INVARIANTS
  WithinRange
  PointsApart
  RestoredSweep
  PointsInBands
  KeypadListens
  OutputFormInOutput
  NormalizedTogether
  ReferenceKept
