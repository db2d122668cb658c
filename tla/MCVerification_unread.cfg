CONSTANTS
  None = None
  Echo = Echo
  Malformed = Malformed
  MinimumAbv <- Floors
  LabelResponses <- ReadableLabels
  RecordResponses <- Records
  Rereadings = {}
  Declared = {}
  Edited <- EditedResponses
  Forgeries = {}
  ForgedTexts <- ForgedTextsOf
  ForgedRecords = {}
  RuleSets <- Sets
  MaxEdits = 0
  MaxVerdicts = 1
SPECIFICATION Spec
CHECK_DEADLOCK FALSE
INVARIANTS UnreadNeverClear
