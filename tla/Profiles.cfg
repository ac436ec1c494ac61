CONSTANTS
  e1 = e1
  e2 = e2
  Editors <- MCEditors
  Names = {"Default", "work"}
  Default = "Default"
  Texts = {"soil"}
  Topics = {"piles"}
  Categories = {"geotechnics"}
  MaxWeight = 3
  MaxEdits = 2
  MaxLife = 3
  MaxMishaps = 1
SYMMETRY EditorSymmetry
SPECIFICATION Spec
INVARIANTS OneActive VersionNamesText TextIsCurrent ReactionsCount
CHECK_DEADLOCK FALSE
