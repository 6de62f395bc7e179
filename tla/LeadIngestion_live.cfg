SPECIFICATION FairSpec
CONSTANTS
  Leads = {l1}
  Tenants = {t1}
  Owners <- MCOwners
  Hooks = {h1}
  Workers = {w1}
  Msgs = {m1}
  Retries = 1
  Faults = {"crash", "redis", "db", "response", "queue"}
  None = None
INVARIANTS AckedIsDurable
PROPERTIES ImplementsFairBook ReceivedIsPublished
