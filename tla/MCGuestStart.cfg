CONSTANTS
  Chars <- FourChars
  UpperOf <- Lower
  Group = 1
  Modulus = 7
  Rules <- AllRules
  Rounds = 3
  Randoms <- SomeRandoms
  Typed <- TypedTexts
  DiscoverTries = 2
SPECIFICATION FairSpec
INVARIANTS
  ParseFindsFirstRoom
  RoomsApart
  JoinedIsConnected
  EveryChildReaped
PROPERTIES
  StartResolves
CHECK_DEADLOCK FALSE
