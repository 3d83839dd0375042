SPECIFICATION MCSpec
CONSTANTS
    Value = {v1, v2}
    Absent = Absent
    MaxIds = 2
    MaxDepth = 3
    MaxRevision = 3
INVARIANTS
    UndoRestores
    SessionsAgree
PROPERTY
    ImplementsSnapshots
CHECK_DEADLOCK FALSE
