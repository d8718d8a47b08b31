SPECIFICATION MCSpec
CONSTANTS
  Runs = {r1}
  Resolvers = {f1, f2}
  Styles = {"ws", "sse", "inproc"}
  Last = 3
  Silence = TRUE
  BotRuns = {b1, b2}
  OtherRuns = {w1}
  MaxPresses = 2
  Tabs = {t1}
  Jobs = {r1, r2}
  MaxFrames = 4
CHECK_DEADLOCK FALSE
INVARIANTS EventsAreKept BotSafe
PROPERTIES StreamsEnd UpdatesAreReached AnswersAreHeard
