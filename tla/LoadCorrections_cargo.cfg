\* Two trips share a vehicle and a driver; two packages of one line.  The second trip
\* requires evidence and completeness; the first does not.
\* The properties are about single steps, for which symmetry is sound.
SPECIFICATION Spec
CONSTANTS
    Trips = {t1, t2}
    Vehicles = {v1}
    Drivers = {d1}
    None = None
    Packages = {p1, p2}
    Lines = {l1}
    LineOf <- OneLine
    Weight <- UnitWeight
    Payload <- Payload2
    Approved <- AllApproved
    Qty = 1
    EvidenceRequired = {t2}
    CompletenessRequired = {t2}
SYMMETRY Symmetry
ACTION_CONSTRAINT FleetFirst
CHECK_DEADLOCK FALSE
INVARIANTS CargoAsPlanned LinesAccounted EvidenceBeforeStage
PROPERTIES OnlyReloadDiverges DepartedCargoFrozen
