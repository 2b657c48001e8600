\* Only the shell thread saves; one preset beside the configuration.
CONSTANTS
  Data = {d0, d1}
  Default = d0
  SaveAreaMax = 1
  Threads = {"shell"}
SPECIFICATION Spec
INVARIANTS AcceptedWasSaved SavedLasts
