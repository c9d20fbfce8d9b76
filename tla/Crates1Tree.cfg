SPECIFICATION Spec
CONSTANTS
  Titles = {a, b}
  BadTitle = bad
  Tracks = {t}
  MaxId = 3
  MaxOthers = 1
  MaxMoved = 1
  ForeignKeys = {TRUE}
  Traps = {"stale_path"}
SYMMETRY TitleSymmetry
VIEW State
INVARIANTS TreeIsSound ColumnsAreSound
PROPERTY KeepsPromises
