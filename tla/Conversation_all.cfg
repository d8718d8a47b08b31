SPECIFICATION MCSpec
CONSTANTS
  Runs = {r1, r2}
  MaxTurns = 2
  MaxCalls = 2
  MaxContext = 9
  SystemPrompt = TRUE
  MaxClears = 1
  MaxCrashes = 1
  MaxFailures = 1
  Retries = 1
  MaxPieces = 2
  Chats = {r1, r2}
  Folders = {w1, w2}
  Shots = {s, t}
  Others = {o}
  ShotNamed <- MCShotNamed
  MaxEvents = 4
SYMMETRY MCSymmetry
CHECK_DEADLOCK FALSE
INVARIANTS HistoryIsSafe ContextIsKept LlmSafe WorkspaceSafe
