SPECIFICATION Spec
CONSTANTS
  Emails = {a, b}
  NodeEmails = {n}
  Editors = {t1, t2}
  Ops = {"add", "detach", "enable"}
  LivePush = FALSE
  LostAnswers = FALSE
  MaxEdits = 4
  MaxNodeEdits = 2
  MaxFaults = 2
  MaxRestarts = 1
  NoRow = NoRow
  Free = Free
SYMMETRY Interchangeable
INVARIANTS EditSurvives CleanMeansDelivered
