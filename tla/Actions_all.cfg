SPECIFICATION MCSpec
CONSTANTS
  ann = ann
  joe = joe
  team = team
  ali = ali
  alireza = alireza
  reza = reza
  Peers = {ann, joe, team}
  Words = {ali, reza, alireza}
  OccursIn <- MCOccursIn
  Username <- MCUsername
  Directories <- MCDirectories
  main = main
  Accounts = {main, work}
  NoAccount = none
  MaxBulk = 2
  MaxTexts = 3
  MaxChanges = 1
  PageSize = 1
  Mails = {m1, m2, m3}
  MailAgents = {a1, a2}
  MaxMailCalls = 4
  MaxMailEvents = 2
  Agents = {a1, a2}
  text = text
  textTmp = textTmp
  textTmpTmp = textTmpTmp
  Inside = {text, textTmp, textTmpTmp}
  TempName <- MCTempName
  Outside = {o}
  MaxOps = 3
  Bots = {a1, a2}
  Names = {f, g}
  Hidden = {}
  MaxListed = 2
  MaxCalls = 2
  MaxEdits = 1
SYMMETRY MCSymmetry
CHECK_DEADLOCK FALSE
INVARIANTS ToolsSafe GmailSafe AgentToolsSafe
PROPERTIES FilesAreSafe
