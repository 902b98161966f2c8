SPECIFICATION PreparationSpec
CONSTANTS
    p1 = p1
    first = first
    second = second
    Alone = {a}
    AloneNeed = 2
    Jobs <- MCJobs
    Projects = {p1}
    JobsOf <- MCJobsOf
    Need <- MCNeed
    InitialRows <- MCInitialRows
    MaxRows = 3
    MaxPieces = 2
    MaxManual = 1
    Templates = {t1, t2}
    Drafts = {j}
    Sessions = {s1, s2}
    MaxVersion = 2
    MaxRoutes = 4
    MaxSteps = 2
    MaxDrawings = 2
    MaxCopies = 2
    Categories = {c1, c2}
    Products = {original, duplicate}
    original = original
    PartRows = {i}
    Stocked = {m}
    StageRows = {st}
    Clerks = {k1, k2}
    NoCategory = NoCategory
SYMMETRY Symmetry
CONSTRAINTS Scope Aspects Copies
INVARIANTS
    StockHolds
PROPERTIES
    OnlyOverridesShorten
    OnlyOverlapsSplit
    CopyReleasesAlike
    OnlyUncheckedStrand
CHECK_DEADLOCK FALSE
