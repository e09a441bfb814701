CONSTANTS
  Candidates <- MCCandidates
  InitialRules <- MCInitialRules
  Text <- MCText
  Address = {"ip0", "ip1"}
  App = {"YOUTUBE", "DNS"}
  Port = {53, 4464}
  Bracketed <- MCBracketed
  ipToString <- MCAddressText
  parseIP <- MCParseIP
  appTypeToString <- MCAppText
  portToString <- MCPortText
  Number <- MCNumber
  MaxChanges = 2
  MaxUses = 2
SPECIFICATION Spec
INVARIANT SavedInForce
PROPERTY RoundTrip
CHECK_DEADLOCK FALSE
