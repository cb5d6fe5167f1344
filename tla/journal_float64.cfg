SPECIFICATION Spec
CONSTANTS
    Entries <- LargeIdEntries
    EngineCfg <- MCEngineCfg
    LibraryCfg <- MCLibraryCfg
    Additions = {}
    Exact = 4
    MaxInputs = 3
INVARIANTS
    RecoversExactly
