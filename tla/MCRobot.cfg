SPECIFICATION FairRobotSpec
CONSTANTS
  Requests = {r1}
  r1 = r1
  MaxDeliveries = 3
  NoReply = NoReply
  NoUser = NoUser
  NoURL = NoURL
INVARIANTS
  RobotTypeOK
  AckedHasJob
  SavesAccountedFor
PROPERTIES
  NeverBlocked
  AckedEnds
