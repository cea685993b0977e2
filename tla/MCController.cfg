CONSTANTS
  s1 = s1
  s2 = s2
  none = none
  Sessions = {s1, s2}
  NoSession = none
  DiscoverTries = 2
  DialTries = 2
  ProbeLimit = 3
  MaxSharing = 2
SPECIFICATION FairSpec
INVARIANTS
  NoUnreachable
  CaptureIsOwnership
  Supervised
  NothingOrphaned
  RoomHasResources
PROPERTIES
  OnlyOwnerMoves
  RefinesRoomSession
  CrashDetected
  CancelledWindsDown
  StartResolves
