\* Tables of up to three points, asked in every order; a screen of two by three tiles;
\* four samples and points of a triggered sweep; traces of seven points with four levels,
\* two markers; four points of a tuner, all ways to tune one in a sweep.
SPECIFICATION MachinesSpec
CONSTANTS
  MaxHz = 4
  MaxTable = 3
  Corrections <- SomeCorrections
  Width = 6
  Height = 4
  TileSize = 2
  WordBits = 4
  RectangleCorners <- SomeCorners
  RectangleSides <- SomeSides
  ClientCount = 4
  BufferPoints = 4
  TracePoints = 7
  Traces <- SomeTraces
  noise = 1
  MAX_MAX = 2
  Searches = {0, 1, 5}
  Crystals = {4, 8}
  TopFrequency = 20
  MaxDivider = 1
  LowestOscillator = 10
  IntermediateFrequencies = {28}
  TunedPoints = {5, 9, 21, 60}
  LowestPoints = {5}
  DirectInput = {21}
  DirectOutput = {21}
  LeakedOutput = {60}
  HarmonicStart = 10
  Harmonic = 3
  ModuloBottom = 2
  ModuloInput = 1
  ModuloOutput = 3
  AskedR <- SomeR
  AskedModulo = {0, 2}
  DRIVE1_MAX_FREQ = 9
  MAX_COMPENSATION = 3
  Tolerance = 1
  OFFSET_RANGE = 4
  OffsetsInARow = 2
  Setups <- SomeSetups
INVARIANTS
  AnswerOnCurve
  NearestToLine
  StaleIsDirty
  OvertakenByUrgentOnly
  TriggerWindow
  MarkersOnPeaks
  SearchFindsHighest
  TunedToPoint
  OscillatorKnown
