SPECIFICATION Spec
CONSTANTS
  Processes = {s1, s2}
  s1 = s1
  s2 = s2
  Calls <- AllCalls
  MaxCalls = 2
INVARIANTS
  TypeOK
  NothingLost
  LoadedHasTables
  CreatedIsWhole
  OneCreates
PROPERTIES
  SomeoneCreates
