CONSTANTS
  MaxLines = 2
  Kinds = {"wait", "plain"}
SPECIFICATION Spec
INVARIANT RequestInterruptsSweep
