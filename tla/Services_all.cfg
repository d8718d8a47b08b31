SPECIFICATION MCSpec
CONSTANTS
  Jobs = {j1, j2}
  NoJob = none
  MaxTime = 3
  MaxCrashes = 2
  MaxFailures = 1
  Callers = {t1, t2}
  CallKinds = {"start", "code", "password", "cli", "disconnect", "read", "send"}
  MaxTasks = 3
  Processes = {p1, p2}
  MaxClicks = 1
CHECK_DEADLOCK FALSE
INVARIANTS FiresAtMostOnce AnnouncedIsSaved LoginSafe OnlyTheOwnerServes
PROPERTIES CancelledNeverFires DueJobsAreServed LoginCallsReturn DesktopServesUsers
