SPECIFICATION Spec
CONSTANTS
  Sids = {sa, sb}
  Default = default
  Runs = {r1}
  MaxMessages = 1
  MaxSessions = 1
  Timeout = 2
  MaxTime = 2
  MaxRuntimes = 3
  Transports = {"ws"}
CHECK_DEADLOCK FALSE
PROPERTIES NewestStays
