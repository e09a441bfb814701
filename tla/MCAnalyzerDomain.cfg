CONSTANTS
  Absent = "(absent)"
  NoName = ""
  Packet <- MCPacket
  Domain <- MCDomain
  AppOf <- MCAppOf
  UserRules <- MCUserRules
  Address = {"ip1", "ip2", "ip3"}
  AppAlias <- MCAppAlias
  Number <- MCNumber
  Pieces <- MCPieces
  MaxChoices = {0}
  CaptureBound = 2
SPECIFICATION Spec
INVARIANT DomainRuleObeyed
CHECK_DEADLOCK FALSE
