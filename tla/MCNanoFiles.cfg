SPECIFICATION Spec
CONSTANTS
  ed1 = ed1
  ed2 = ed2
  fa = fa
  fb = fb
  Editors = {ed1, ed2}
  Names = {fa, fb}
  NoName = NoName
  Nobody = Nobody
  Garbled = Garbled
  MaxHistory = 2
  Scenarios <- MCScenarios
INVARIANTS
  OldTextSurvives
  ClosedMeansStored
  
  DeathRescues
  
PROPERTIES
  
  EmergencyNeverClobbers
CHECK_DEADLOCK FALSE
