SPECIFICATION Spec
CONSTANTS
  Titles = {a, b}
  BadTitle = bad
  MaxId = 1
  MaxEntity = 2
  MaxTrack = 2
  MaxInserts = 9
  Traps = {"entity_id"}
VIEW State
PROPERTIES
  RemovedTrackIsGone
