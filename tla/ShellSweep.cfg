\* Every kind of line, slow commands included: two lines can interleave with
\* a third that is still running.
CONSTANTS
  MaxLines = 3
  Kinds = {"wait", "capture", "plain", "abort", "abort on", "abort off", "unknown"}
SPECIFICATION Spec
INVARIANTS WakeupPending ArgumentsStable NothingLeftBehind
PROPERTIES HeldPressHandled ShellReturns ImplementsServer
