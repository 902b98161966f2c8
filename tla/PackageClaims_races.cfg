\* Two clients and two trips dispute a package, and one client repeats its commands.
\* The other package of the line lets one package be claimed twice.
SPECIFICATION Spec
CONSTANTS
    Trips = {t1, t2}
    Clients = {c1, c2}
    Packages = {p1}
    Approved = 2
    Rest = 1
    Impatient = {c1}
    None = None
SYMMETRY Symmetry
CHECK_DEADLOCK FALSE
INVARIANTS ClaimsAreSole AppliedOnce
