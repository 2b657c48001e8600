\* The shell also runs between a load and a store of the sweep thread.
CONSTANTS
  MaxScans = 2
  Between = TRUE
SPECIFICATION Spec
PROPERTY WaitScanReturns
