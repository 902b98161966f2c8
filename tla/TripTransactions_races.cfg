\* Two trips that may share a vehicle and a driver, all handlers interleaved.
SPECIFICATION TxSpec
CONSTANTS
    Trips = {t1, t2}
    Vehicles = {v1, v2}
    Drivers = {d1, d2}
    None = None
SYMMETRY Symmetry
CHECK_DEADLOCK FALSE
INVARIANTS RoadHolds
