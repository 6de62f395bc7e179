SPECIFICATION Spec
CONSTANTS
    Orders = {o1, o2}
    Confirmers = {c1, c2}
    Admins = {a1}
    Cycles = {"monthly", "yearly"}
    Months <- MCMonths
    Quantities = {1}
    OverageKind = "agency_bundles"
    TrialDays = 1
    AdminActs = {"cancel"}
    MaxTime = 2
    None = None
INVARIANTS TypeOK PaidSlotsAreHonoured PaidPlanIsUsable
PROPERTIES ImplementsLedger
CHECK_DEADLOCK FALSE
SYMMETRY Symmetry
