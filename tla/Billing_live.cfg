SPECIFICATION FairSpec
CONSTANTS
    Orders = {o1}
    Confirmers = {c1, c2}
    Admins = {a1, a2}
    Cycles = {"monthly"}
    Months <- MCMonths
    Quantities = {1}
    OverageKind = "individual_campaigns"
    TrialDays = 1
    AdminActs = {"extend", "force", "refund"}
    MaxTime = 2
    None = None
INVARIANTS AnsweredIsConfirmed
PROPERTIES RefundIsFinal CapturedIsGranted
CHECK_DEADLOCK FALSE
