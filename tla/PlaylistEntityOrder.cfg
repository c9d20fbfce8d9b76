SPECIFICATION Spec
CONSTANTS
  Playlists = {p, q}
  Tracks = {1, 2}
  Uuids = {home, away}
  MaxEntity = 5
SYMMETRY RowSymmetry
INVARIANTS
  TypeOK
  Chains
  DuplicateIsForeseen
PROPERTIES
  OnePlaylistAtATime
  ImplementsOrder
