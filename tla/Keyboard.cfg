SPECIFICATION Spec
CONSTANTS
  N = 3
  Keys = {30, 28, 14}
  MAX_RETRY = 3
  columns = 9
  MaxTyped = 3
INVARIANT KeysInOrder
INVARIANT RetriesBounded
CHECK_DEADLOCK FALSE
PROPERTY KeysAreTaken
