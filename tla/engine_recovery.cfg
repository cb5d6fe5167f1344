SPECIFICATION Spec
CONSTANTS
    Entries <- MCEntries
    EngineCfg <- MCEngineCfg
    LibraryCfg <- MCLibraryCfg
    Additions <- MCAdditions
    Exact = 100
    MaxInputs = 4
INVARIANTS
    TypeOK
    RecoversExactly
    PublishedIsStream
    FailsOnlyWhenDamaged
