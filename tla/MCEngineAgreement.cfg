CONSTANTS
  Absent = Absent
  LabelSize = 3
  AppOf <- MCAppOf
  Capture <- MCCapture
  RuleChoices <- MCRuleChoices
SPECIFICATION Spec
INVARIANTS TypeOK ReadsRecords OutputReread NamesFound SameVerdict
CHECK_DEADLOCK FALSE
