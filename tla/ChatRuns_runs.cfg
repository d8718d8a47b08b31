SPECIFICATION FairSpec
CONSTANTS
  Runs = {r1, r2}
  Callers = {}
  Savers = {}
  Frontends = {f1}
  BootGate = g0
  NoThread = none
  MaxTurns = 1
  MaxCalls = 1
INVARIANTS OneTerminalEvent RequestsAreLive
PROPERTIES NeverUnconfirmed RunsEnd
