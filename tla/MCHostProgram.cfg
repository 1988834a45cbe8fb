SPECIFICATION Spec
CONSTANTS
  Commands <- MCCommands
  MaxSignals = 2
INVARIANT ReleasedInOrder
PROPERTIES StopsWhenAsked
CHECK_DEADLOCK FALSE
