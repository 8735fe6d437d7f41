CONSTANTS
    Articles = {x}
    Folders = {1, 2}
    None = None
    Failed = Failed
    Slots = {1}
    MaxSteps = 2
    MaxReads = 2
SPECIFICATION FavTruthSpec
INVARIANTS
    FavTypeOK
    
PROPERTIES
    BulkActsOnTicks
