CONSTANTS
  Candidates <- MCCandidates
  InitialRules <- MCInitialRules
  Text <- MCText
  Address = {"ip0", "ip1"}
  App = {"YOUTUBE", "DNS"}
  Port = {53, 4464}
  Bracketed <- MCBracketed
  ipToString <- MCAddressText
  parseIP <- MCParseIP
  appTypeToString <- MCAppText
  portToString <- MCPortText
  Number <- MCNumber
  MaxChanges = 3
  MaxUses = 0
SPECIFICATION Spec
INVARIANT UnblockedIsFree
CHECK_DEADLOCK FALSE
