CONSTANTS
    Tabs = {ta, tb}
    Users = {ua}
    None = None
    MaxSessions = 1
    MaxUpsets = 1
    Slots = {1}
SPECIFICATION FairSpec
INVARIANTS
    WarningAgrees
PROPERTIES
    Settles
