SPECIFICATION Spec
CONSTANTS
  Leads = {l1}
  Tenants = {t1}
  Owners <- MCOwners
  Hooks = {h1}
  Workers = {w1, w2}
  Msgs = {m1}
  Retries = 1
  Faults = {"db"}
  None = None
INVARIANTS NoSilentDiscard
