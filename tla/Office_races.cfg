\* A material, an order, a loading plan, an export shipment, two users, and two accounts of money
\* with a debt; two requests at a time on each.
SPECIFICATION OfficeSpec
CONSTANTS
    Receipts = {x, y}
    Issues = {x, y}
    Jobs = {j}
    Required = 2
    BarLength = 3
    MinOffcut = 2
    MaxBars = 2
    MaxKerf = 1
    MaxRows = 3
    MaxBulk = 1
    Orders = {o1}
    Counters = {x, y}
    MaxStored = 2
    MaxGroups = 2
    MaxNamed = 2
    Products = {p1}
    Loads = {s1}
    Lorries = {t1}
    Loaders = {x, y}
    MaxQuantity = 2
    MaxLoaded = 3
    Shipments = {e1}
    Folders = {fe}
    ExportsFolder = fe
    NoFolder = NoFolder
    NoShipment = NoShipment
    Writers = {x, y}
    MaxEditions = 3
    MaxDocuments = 3
    Users = {u1, u2}
    Seeded = u1
    Departments = {da, d1, d2}
    Configured = {da, d1}
    AdminDepartment = da
    OwnRoles = {ro}
    Clerks = {x, y}
    Wallets = {w1, w2}
    Outside = Outside
    Opening <- MCOpening
    Foreign = {}
    Inactive = {w2}
    Debts = {b1}
    NoDebt = NoDebt
    Cashiers = {x, y}
    MaxAmount = 2
    Commissions = {0, 1}
    MaxFunds = 2
SYMMETRY Symmetry
CONSTRAINTS Labels Apart Papers Personnel Books Bulk
INVARIANTS
    SteelAccounted
    BooksBalance
PROPERTIES
    OnlyBulkDiverges
    OnlyOverlapsMisplace
    OnlyOverlapsMiscount
    OnlyOverlapsMix
    OnlySupersededStrand
CHECK_DEADLOCK FALSE
