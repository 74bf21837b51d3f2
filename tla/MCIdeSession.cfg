\* Two compilations, a line of input and an exception: up to two links and two
\* runs at once.
CONSTANTS
  MaxCompiles = 2
  MaxLines = 1
  MaxThrows = 1
  Partial = Partial
SPECIFICATION Spec
INVARIANTS TypeOK OneRunPerLink OutAlive LoneCommandHasInput SerialRunsCurrent
CHECK_DEADLOCK FALSE
