\* The event thread and the threads of two commands, three messages each.
CONSTANTS
  Writers = {edt, link, run}
  EventThread = edt
  MaxMessages = 3
  NoText = NoText
SPECIFICATION Spec
INVARIANTS TypeOK WindowInOrder NothingLost
CHECK_DEADLOCK FALSE
