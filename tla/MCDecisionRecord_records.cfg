CONSTANTS
  Deciders = {d1,d2}
  Auditors = {a1,a2}
  Names = {agent, admin}
  Words = {"APPROVED", "UPHELD"}
  ComplianceAgents = {agent}
  Administrators = {admin}
  Recommendations = {"CLEAR", "DISCREPANCIES_FOUND"}
  MaxVerdicts = 2
  Limit = 1
  MaxFaults = 1
SPECIFICATION Spec
CHECK_DEADLOCK FALSE
SYMMETRY RequestSymmetry
INVARIANTS SecondDecisionWasBlind DeparturesExplained ChainedActsStored AnsweredAuditStored
PROPERTIES ConsumerComplete
