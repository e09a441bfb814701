CONSTANTS
  none = none
  Absent = none
  Packet <- MCPacket
  AppOf <- MCAppOf
  Candidates <- MCCandidates
  InitialRules <- MCInitialRules
  MaxConnections = 1
  MaxPackets = 3
  MaxChanges = 2
SPECIFICATION Spec
PROPERTY BlockedIsDropped
CHECK_DEADLOCK FALSE
