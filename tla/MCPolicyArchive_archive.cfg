CONSTANTS
  None = None
  Roles <- MCRoles
  Files <- MCFiles
  Deploys = {d1, d2, d3}
  Judgements = {v1}
  Dates = {1}
  MaxTime = 2
  MaxFaults = 1
SPECIFICATION Spec
SYMMETRY Requests
INVARIANTS
  RebuiltUnlessOvertaken
  OneWindowUnlessRaced
  RefusedOnlyByRevert
  ChangesAreChained
PROPERTIES
  AgreesAfterwards
CHECK_DEADLOCK FALSE
