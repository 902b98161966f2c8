\* Three trips over two vehicles and two drivers; a task and two requests;
\* a vehicle, and a tracker whose number is not a vehicle's.
\* The properties are about single steps, for which symmetry is sound.
SPECIFICATION FleetSpec
CONSTANTS
    Trips = {t1, t2, t3}
    Vehicles = {v1, v2}
    Drivers = {d1, d2}
    None = None
    Tasks = {e1}
    Crew = {d1, d2}
    Guest = Guest
    Nobody = Nobody
    Desks = {k1, k2}
    MaxJournal = 2
    Numbers = {n1, n2}
    Known = {n1}
SYMMETRY Symmetry
CONSTRAINTS Handling Foreign
CHECK_DEADLOCK FALSE
INVARIANTS
    Roadworthy
    OnlyRollbacksRepeat
PROPERTIES
    DepartedStaysDeparted
    OnlyOverlapsLeaveLoose
