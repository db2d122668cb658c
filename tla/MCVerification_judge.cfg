CONSTANTS
  None = None
  Echo = Echo
  Malformed = Malformed
  MinimumAbv <- Floors
  LabelResponses <- Labels
  RecordResponses <- Records
  Rereadings <- Again
  Declared <- DeclaredApplications
  Edited <- EditedResponses
  Forgeries <- Forged
  ForgedTexts <- ForgedTextsOf
  ForgedRecords <- ForgedRecs
  RuleSets <- Sets
  MaxEdits = 3
  MaxVerdicts = 2
SPECIFICATION Spec
CHECK_DEADLOCK FALSE
INVARIANTS ClearMeansChecked NeverCrossed CountsAgree ReplayReproduces  RereadBearsOnTheVerdict
