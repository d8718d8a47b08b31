SPECIFICATION MCSpec
CONSTANTS
  NoCard = none
  Cards = {c1, c2}
  Buttons = {"new", "reset", "local", "auto", "cloud", "custom", "yes", "wrong", "cancel"}
  EnvKey = FALSE
  MaxTurns = 2
  SendsFail = TRUE
  MaxUpdates = 6
  MaxInbox = 2
  MaxCrashes = 2
CHECK_DEADLOCK FALSE
INVARIANTS RunsOnce OpenCardsAreAnswerable KeptSafely
PROPERTIES OnlyApprovedRuns OtherThreadsAreKept UpdatesAreHandled
