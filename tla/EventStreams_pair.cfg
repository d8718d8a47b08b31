SPECIFICATION Spec
CONSTANTS
  Runs = {r1, r2}
  Resolvers = {}
  Styles = {"ws", "sse", "inproc"}
  Last = 2
  Silence = TRUE
SYMMETRY MCSymmetry
CHECK_DEADLOCK FALSE
INVARIANTS StreamsAreSafe
PROPERTIES WebSocketIsFeed
