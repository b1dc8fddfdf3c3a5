SPECIFICATION FairSpec
CONSTANTS
  Emails = {a}
  NodeEmails = {n}
  Editors = {t1, t2}
  Ops = {"add", "detach", "delete", "enable"}
  LivePush = TRUE
  LostAnswers = TRUE
  MaxEdits = 2
  MaxNodeEdits = 1
  MaxFaults = 1
  MaxRestarts = 1
  NoRow = NoRow
  Free = Free
INVARIANT TypeOK
PROPERTY Converges
