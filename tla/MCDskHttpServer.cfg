SPECIFICATION Spec
CONSTANTS
  Paths = {a, b}
  Kinds = {"post", "websocket"}
  HandlerTypes = {"STREAMING_POST_DATA", "WEBSOCKET"}
  MaxNodes = 3
  MaxHandlers = 3
  MaxRequests = 2
  MaxSize = 7
  Careful = TRUE
INVARIANTS
  AnswersHaveTransfers
  TriedInOrder
  FreedWhenDone
PROPERTIES
  AnsweredAndFreed
CHECK_DEADLOCK FALSE
