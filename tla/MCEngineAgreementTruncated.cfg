CONSTANTS
  Absent = Absent
  LabelSize = 3
  AppOf <- MCAppOf
  Capture <- MCPairs
  RuleChoices <- MCRuleChoices
SPECIFICATION Spec
INVARIANT TruncatedParsed
CHECK_DEADLOCK FALSE
