CONSTANTS
  None = None
  Roles <- MCRoles
  Files <- MCFiles
  Deploys = {d1, d2, d3}
  Judgements = {v1}
  Dates = {1}
  MaxTime = 2
  MaxFaults = 1
SPECIFICATION Spec
INVARIANTS
  EnactedByAPerson
CHECK_DEADLOCK FALSE
