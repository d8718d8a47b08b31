SPECIFICATION FairSpec
CONSTANTS
  Runs = {r1}
  Callers = {c1}
  Savers = {s1, s2}
  Frontends = {f1}
  BootGate = g0
  NoThread = none
  MaxTurns = 1
  MaxCalls = 1
INVARIANTS ApprovalIsScoped
PROPERTIES AsksBeforeRunning InvocationsReturn
