SPECIFICATION Spec
CONSTANTS
  Words <- AnyWord
  Texts <- CompactTexts
  Cuts = {0, 9, 20}
  MaxSaves = 1
  MaxFaults = 0
INVARIANTS
  SavedSettingsSurvive
CHECK_DEADLOCK FALSE
