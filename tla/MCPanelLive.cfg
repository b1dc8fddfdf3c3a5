SPECIFICATION FairSpec
CONSTANTS
    a = a
    Others = {a}
    Pushes = TRUE
    QueueSize = 2
    MaxEdits = 2
    MaxFaults = 1
INVARIANTS TypeOK 
PROPERTIES ClientsCatchUp OwnEditShown
