\* Two compilations and a line of input: the Run item and the executable.
CONSTANTS
  MaxCompiles = 2
  MaxLines = 1
  MaxThrows = 1
  Partial = Partial
SPECIFICATION Spec
INVARIANTS RunEnabledMeansLinked
CHECK_DEADLOCK FALSE
