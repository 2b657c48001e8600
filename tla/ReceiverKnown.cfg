\* The receiver sweeps itself, without changes of R or modulus.
SPECIFICATION Spec
CONSTANTS
  Crystals = {12}
  TopFrequency = 20
  MaxDivider = 1
  LowestOscillator = 5
  IntermediateFrequencies = {14}
  Points = {21, 24, 27, 30}
  LowestPoints = {}
  DirectInput = {21, 24, 27, 30}
  DirectOutput = {}
  LeakedOutput = {}
  HarmonicStart = 50
  Harmonic = 3
  ModuloBottom = 2
  ModuloInput = 1
  ModuloOutput = 3
  AskedR = {0}
  AskedModulo = {0}
  DRIVE1_MAX_FREQ = 9
  MAX_COMPENSATION = 3
  Tolerance = 1
  OFFSET_RANGE = 4
  OffsetsInARow = 9
  Setups <- FastSweep
INVARIANT ReceiverKnown
