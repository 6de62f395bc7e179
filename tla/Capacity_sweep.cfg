SPECIFICATION FairSpec
CONSTANTS
    Agency = agency
    Clients = {c1}
    Requests = {}
    Plans <- MCSweepPlans
    MaxCampaigns = 2
    Changes = 2
INVARIANTS TypeOK QuietSweepSettles
PROPERTIES WithinInTheEnd
