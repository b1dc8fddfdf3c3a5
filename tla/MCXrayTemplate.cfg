SPECIFICATION EditorSpec
CONSTANTS
  Outs = {direct, warp, o1}
  Direct = direct
  Warp = warp
  o1 = o1
  Bals = {b1, b2, b3, b4}
  b1 = b1
  b2 = b2
  b3 = b3
  AnyIn = anyin
  Src = src
  None = none
  InitialTemplates <- MCInitial
  MaxOuts = 2
  MaxBals = 3
  MaxRules = 2
  MaxDraftEdits = 2
INVARIANTS EditorTypeOK  LoopbacksWired
PROPERTIES OthersFallbackKept DeletionLeavesNoBlackHole
CHECK_DEADLOCK FALSE
