\* Three configurations with two contents each.
SPECIFICATION Spec
CONSTANTS
  Names <- ThreeNames
  Confs <- TwoConfs
  Absent = "nil"
INVARIANTS TypeOK TracksDifference
PROPERTIES AppliesLatest
