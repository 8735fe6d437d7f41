CONSTANTS
    None = None
    n0 = n0
    n1 = n1
    n2 = n2
    n3 = n3
    Papers = {n0, n1, n2, n3}
    RelatedTo <- Ring
    Roots = {n0}
    NodeLimit = 3
    Places = {1}
    GraphIds = {1}
    MaxRevision = 1
    MaxGestures = 3
    d1 = d1
    d2 = d2
    w1 = w1
    w2 = w2
    Services = {s1}
    Children = {w1, w2}
    JobDeadline = 1
    LeaseMargin = 1
    Concurrency = 1
    MaxRuns = 2
    MaxClock = 2
    MaxCrashes = 1
    Articles = {o1, o2}
    Cursors = {c1}
    TrailLimit = 2
    o1 = o1
    o2 = o2
    Opened = {o1, o2}
    MaxTimers = 1
    Terms = {1, 2, 3}
    FieldWords = {1}
    MaxConditions = 3
    MaxHistory = 1
    MaxMatches = 1
    MaxSearchSteps = 5
    DatabaseOrder <- TwoDatabases
    YearsOf <- YearsApart
    MonthsPerYear = 2
    CurrentMonth = 6
    RecentYears = {1, 3}
    MaxFilterSteps = 3
    j1 = j1
    WeeklyOrder <- TwoDatabases
    WeeklyJournals = {j1}
    WeeklyWords = {1}
    MaxWeeks = 2
    MaxWeeklyPages = 2
    MaxWeeklySteps = 3
    MaxBranches = 4
    ChildLimit = 2
    Turn = 360
    Spots = {0, 150}
    MaxBranchSteps = 3
    m0 = m0
    m1 = m1
    m2 = m2
    Dots = {m1, m2}
    Ground = m0
    Corners = {1, 2}
    Seed = 1
    MaxCanvasSteps = 4
    Stems = {d1, d2}
    Entries = {m0, m1, m2}
    Phrases = {q1}
    MaxExplorerSteps = 4
    LongWords = {g1, y1, t1}
    ShortWords = {ab}
    Numbers = {y1}
    Columns = {t1}
    MaxPieces = 3
SPECIFICATION DeskSpec
INVARIANTS DeskTypeOK GraphHolds DroppedStay CleanIsSaved ManualExecutedOnce SendsAreOwned UnknownIsAcknowledged ReaderShowsNow SearchIsTold FiltersFitDatabase RowsFitTheirWeek
PROPERTIES LateAnswersOnlyAdd
CHECK_DEADLOCK FALSE
