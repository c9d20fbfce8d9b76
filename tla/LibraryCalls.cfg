SPECIFICATION Spec
CONSTANTS
  Titles = {a, b, c}
  BadTitle = bad
  MaxId = 4
  MaxEntity = 4
  MaxTrack = 3
  MaxInserts = 9
  Traps = {}
SYMMETRY TitleSymmetry
VIEW State
INVARIANTS
  ListsAreSound
PROPERTIES
  KeepsPromises

