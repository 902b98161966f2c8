\* Two products of one detail on the shop floor; a task of two operators; two brigades of two users,
\* one job.  Two requests at a time on the last two.
SPECIFICATION PlantSpec
CONSTANTS
    Lines = {frame}
    Kept = {frame}
    KeptPieces = 1
    Quantity = 2
    Stock <- MCStock
    RouteStages = {"lazer", "svarka", "kraska", "yigish", "qc", "packaging", "warehouse"}
    MaxCut = 2
    MaxReworks = 2
    MaxPackages = 2
    MaxReturned = 2
    Tasks = {t1}
    Operators = {m1, m2}
    Desks = {x, y}
    MaxAssignments = 2
    MaxNotes = 2
    Brigades = {b1, b2}
    NoBrigade = NoBrigade
    People = {m1, m2}
    Nobody = Nobody
    Seated = {}
    Executors = {}
    Assemblies = {j1}
    Hands = {x, y}
    MaxOperations = 2
SYMMETRY Symmetry
CONSTRAINTS Board Scope
INVARIANTS
    DispositionsWithinPredecessor
    ReworkOnRecord
    PackedIsApproved
PROPERTIES
    EvidenceFlows
    OnlyOverlapsMisassign
    OnlyOverlapsMiscredit
CHECK_DEADLOCK FALSE
