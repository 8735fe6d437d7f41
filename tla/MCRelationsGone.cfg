CONSTANTS
    r = r
    a = a
    b = b
    c = c
    None = None
    Papers = {r, a, b, c}
    RelatedTo <- Ring
    Roots = {r}
    NodeLimit = 2
    Places = {1}
    GraphIds = {1}
    MaxRevision = 0
    MaxGestures = 1
SPECIFICATION RelFairSpec
PROPERTIES SavedUrlIsShown
