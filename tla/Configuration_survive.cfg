SPECIFICATION ConfigSpec
CONSTANTS
  Writers = {t1}
  MaxChanges = 2
  MaxStarts = 2
CHECK_DEADLOCK FALSE
INVARIANTS SettingsSurvive
