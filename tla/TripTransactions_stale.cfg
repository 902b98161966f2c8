\* A trip departs while a correction of its load waits for the lock.
SPECIFICATION TxSpec
CONSTANTS
    Trips = {t1}
    Vehicles = {v1}
    Drivers = {d1}
    None = None
CHECK_DEADLOCK FALSE
PROPERTY DepartedStaysDeparted
