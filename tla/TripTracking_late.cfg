SPECIFICATION PositionsSpec
CONSTANTS
    Trips = {t1}
    Vehicles = {v1}
    Drivers = {d1, d2}
    None = None
    Devices = {g1}
    Clients = {c1, c2}
    PointIds = {p1, p2}
    Skew = 1
    Retention = 1
    MaxTime = 1
    MaxSessions = 2
    MaxPoints = 2
    Syncs = {c1, c2}
    Live = {l1, l2}
    MaxFixes = 3
    MaxClock = 3
    MaxQueue = 2
    Window = 2
    Heartbeat = 2
SYMMETRY Symmetry
CONSTRAINTS Syncing Binding
INVARIANTS
    PositionsTell
PROPERTIES
    OnlyOverlapsLose
    OnlyOverlapsUnbind
CHECK_DEADLOCK FALSE
