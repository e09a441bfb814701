CONSTANTS
  none = none
  Absent = none
  Packet <- MCPacket
  AppOf <- MCAppOf
  Candidates <- MCCandidates
  InitialRules <- MCInitialRules
  MaxConnections = 2
  MaxPackets = 3
  MaxChanges = 2
SPECIFICATION Spec
INVARIANTS TypeOK CountersCover
PROPERTIES RulesObeyed DropJustified BlockRemembered
CHECK_DEADLOCK FALSE
