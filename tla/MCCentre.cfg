CONSTANTS
    None = None
    d1 = d1
    d2 = d2
    Words = {1}
    Databases = {d1, d2}
    MaxSettingsSteps = 2
    t1 = t1
    t2 = t2
    Targets = {t1, t2}
    Self = t1
    MaxCardWrites = 2
    p1 = p1
    p2 = p2
    Catalog <- ProvidersInOrder
    Keys = {k1}
    MaxRuntimeSteps = 4
    CnkiCards = {card}
    CnkiSlots = {1, 2}
    MaxLogins = 2
    MaxCnkiSteps = 2
    TaskIds = {1}
    Timings = {1}
    f1 = f1
    Files = {f1}
    Limits = {9}
    Bad = Bad
    MaxTaskSteps = 2
    Home = g1
    Pages = {g1, g2}
    MaxLoginSteps = 4
    j1 = j1
    j2 = j2
    CatalogOf <- JournalsApart
    CfpOrder <- TwoDatabases
    Unadapted = {j2}
    MaxPages = 2
    MaxCfpSteps = 3
    Endpoints = {e1}
    Default = Default
    MaxTries = 2
    Attempts = {0, 1, 9}
    MaxAiSteps = 3
SPECIFICATION CentreSpec
INVARIANTS CentreTypeOK SettingsAgree FailureNamesItsRow ViewsFollowWrites SessionIsCurrent NoticesAreOneReading
PROPERTIES DraftsAreNotLost SavesTouchOnlyEdits TasksKeepUnedited
CHECK_DEADLOCK FALSE
