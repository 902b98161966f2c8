\* The same with no repetition.
SPECIFICATION Spec
CONSTANTS
    Trips = {t1, t2}
    Clients = {c1, c2}
    Packages = {p1}
    Approved = 2
    Rest = 1
    Impatient = {}
    None = None
SYMMETRY Symmetry
CHECK_DEADLOCK FALSE
INVARIANT OneActiveClaim
