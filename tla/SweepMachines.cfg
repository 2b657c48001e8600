\* Two points and four scans since a change; every request up to 9 Hz and 7 points:
\* steps with and without remainder, even and odd denominators, more points than
\* frequencies; the shell runs between the statements of the sweep thread only.
CONSTANTS
  Points = 2
  MaxScans = 4
  MaxHz = 9
  MaxPoints = 7
  MaxWaited = 3
  Between = FALSE
SPECIFICATION MachinesSpec
INVARIANTS
  MatchesLegacy
  Nearest
  HoldsOwnSamples
  AverageIsMean
PROPERTIES
  ChangeTakenUp
  RequestEndsSweep
  WaitScanReturns
  WaitedForSweeps
