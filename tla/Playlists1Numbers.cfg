SPECIFICATION Spec
CONSTANTS
  MaxPlaylist = 2
  MaxTrack = 2
  MaxRow = 5
  MaxNumber = 5
  Traps = {}
VIEW State
INVARIANTS RowsAreSound
PROPERTY KeepsPromises
