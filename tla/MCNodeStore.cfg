SPECIFICATION Spec
CONSTANTS
  MaxVersion = 4
  NoFile = NoFile
  Torn = Torn
INVARIANTS TypeOK AckedSurvives SnapshotNotRejected
PROPERTIES RegisterSpec
