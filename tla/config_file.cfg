SPECIFICATION Spec
CONSTANTS
  Words <- AnyWord
  Texts <- UsualTexts
  Cuts = {0, 5, 10, 20, 27}
  MaxSaves = 3
  MaxFaults = 1
INVARIANTS
  TypeOK
  SavedSettingsSurvive
  RestPreserved
  PolicyTakesEffect
PROPERTIES
  OnlyDamageResets
CHECK_DEADLOCK FALSE
