CONSTANTS
    Tabs = {ta, tb}
    Users = {ua, ub}
    None = None
    MaxSessions = 2
    MaxUpsets = 0
    Slots = {1}
SPECIFICATION Spec
SYMMETRY Symmetry
INVARIANTS
    TypeOK
    IdentityAgrees
    SignedInIsShown
    
