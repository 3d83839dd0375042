SPECIFICATION Spec
CONSTANTS
    MaxBlocks = 5
    NoDb = NoDb
    NoFile = NoFile
INVARIANTS
    NoOrphans
    HeadIsBest
    FailureSparesHead
    RestartRestores
    LoopsAgree
