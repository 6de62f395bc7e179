SPECIFICATION Spec
CONSTANTS
  Leads = {l1}
  Tenants = {t1}
  Owners <- MCOwners
  Hooks = {h1}
  Workers = {w1, w2}
  Msgs = {m1, m2}
  Retries = 1
  Faults = {"graph", "page", "age", "entitlement", "queue"}
  None = None
SYMMETRY Symmetry
INVARIANTS TypeOK NoSilentDiscard
PROPERTIES ImplementsBook
