\* Pipes of two lines, and scripts long enough to fill one and go on.
CONSTANTS
  PipeSize = 2
  MaxSteps = 5
  Scripts <- MCScripts
SPECIFICATION Spec
INVARIANTS TypeOK EverythingShown InputWhileRunning StuckOnlyOnErrors
PROPERTIES Completes ImplementsLifecycle
CHECK_DEADLOCK FALSE
