CONSTANTS
  Local = 2
  Machines = {1, 2, 3, 4}
  Names = {"Steve", "Alex"}
  LocalName = "Steve"
  MaxPlayers = 3
  Versions = 2
SPECIFICATION GuestSpec
INVARIANTS
  ViewWellFormed
  ParseAcceptsTables
  MergeMatchesAnswer
PROPERTIES
  ViewIsVersioned
