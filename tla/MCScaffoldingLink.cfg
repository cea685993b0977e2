CONSTANT Calls = 4
SPECIFICATION FairSpec
INVARIANTS
  AnswersMatchCalls
  CallerNeverPanics
PROPERTIES
  CallsReturn
  LinkWindsDown
CHECK_DEADLOCK FALSE
