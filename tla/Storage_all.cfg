SPECIFICATION MCSpec
CONSTANTS
  Sids = {sa, sb, sc}
  Default = default
  Runs = {r1, r2}
  MaxMessages = 2
  MaxSessions = 2
  Timeout = 1
  MaxTime = 3
  MaxRuntimes = 4
  Transports = {"ws"}
  Writers = {r1, r2}
  MaxChanges = 2
  MaxStarts = 2
  Names = {main, work}
  DefaultName = main
  Threads = {r1, r2}
  MaxClients = 3
  MaxUpdates = 2
  MaxCrashes = 1
SYMMETRY MCSymmetry
CHECK_DEADLOCK FALSE
INVARIANTS SessionsAreSafe ConfigSafe 
PROPERTIES RecentSessionsStay
