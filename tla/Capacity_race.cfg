SPECIFICATION Spec
CONSTANTS
    Agency = agency
    Clients = {c1}
    Requests = {r1, r2}
    Plans <- MCPlans
    MaxCampaigns = 3
    Changes = 0
SYMMETRY RequestSymmetry
INVARIANTS RaceOverrunIsBounded
