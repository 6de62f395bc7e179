SPECIFICATION SharedSpec
CONSTANTS
  Leads = {l1}
  Tenants = {t1, t2}
  PageOwner = t1
  CampaignOwner = t2
  LegacyFaults = {"graph","page","queue","crash","db","redis","response"}
  Owners <- MCOwners
  Hooks = {h1}
  Workers = {w1}
  Msgs = {m1}
  Retries = 1
  Faults = {"graph","entitlement"}
  None = None
  Routes <- MCRoutes
  Raws = {r1}
  Calls = {c1}
  Tasks = {q1}
  Jobs = {j1, j2}
  Messages = {n1}
  Selected <- MCSelected
  Receivers = {v1}
  Writers = {x1, x2}
  Notes = {p1}
  MessageFaults = {"queue","crash","db","redis","response"}
CONSTRAINT Focus
SYMMETRY Symmetry
INVARIANTS SharedTypeOK NothingDiscarded OneRowPerLead CompletedHasLead NothingForgotten
PROPERTIES ImplementsSharedBook
