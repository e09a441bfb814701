CONSTANTS
  Absent = "(absent)"
  NoName = ""
  Packet <- MCPacket
  Domain <- MCDomain
  AppOf <- MCAppOf
  UserRules <- MCUserRules
  Address = {"ip1", "ip2", "ip3"}
  AppAlias <- MCAppAlias
  Number <- MCNumber
  Pieces <- MCPieces
  MaxChoices = {0, 2}
  CaptureBound = 3
SPECIFICATION Spec
INVARIANTS TypeOK FlowsMatchHistory NothingForwardedAfterMatch BlockedForAReason PcapMatchesReport TotalsAgree
PROPERTY BlockedForGood
CHECK_DEADLOCK FALSE
