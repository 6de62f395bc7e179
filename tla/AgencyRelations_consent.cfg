SPECIFICATION Spec
CONSTANTS
    a1 = a1
    a2 = a2
    Agencies = {a1, a2}
    Registered = {c}
    Fresh = {n1}
    Emails = {e1}
    Invitations = {i1}
    Procs = {p1, p2}
    ClientLimit <- MCLimit
    None = None
INVARIANTS AccessIsConsented
