SPECIFICATION SharedSpec
CONSTANTS
  Users = {u1, u2}
  u1 = u1
  u2 = u2
  Titles = {a, b}
  a = a
  b = b
  BadTitle = BadTitle
  MaxTrack = 3
  MaxId = 6
  MaxEntity = 5
  MaxInserts = 0
  Traps = {}
  Menus <- MCMenus
INVARIANTS
  TablesAreSound
PROPERTIES
  AsIfAtOnce
  TroubleMeansCompany
  CallsEnd
