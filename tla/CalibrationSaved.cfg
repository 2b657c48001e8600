\* The shell preempts a save of the sweep thread.
CONSTANTS
  Data = {d0, d1}
  Default = d0
  SaveAreaMax = 1
  Threads = {"shell", "sweep"}
SPECIFICATION Spec
INVARIANT CalibrationSaved
