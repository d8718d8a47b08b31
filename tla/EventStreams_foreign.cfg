SPECIFICATION Spec
CONSTANTS
  Runs = {r1, r2}
  Resolvers = {}
  Styles = {"inproc"}
  Last = 1
  Silence = FALSE
CHECK_DEADLOCK FALSE
INVARIANTS FinalEventArrives
