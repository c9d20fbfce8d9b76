SPECIFICATION Spec
CONSTANTS
  Titles = {a, b}
  BadTitle = bad
  MaxId = 3
  MaxEntity = 0
  MaxTrack = 0
  MaxInserts = 9
  Traps = {"stale_next"}
VIEW State
INVARIANTS
  ListsCanBeSorted
