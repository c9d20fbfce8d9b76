SPECIFICATION AnalysesSpec
CONSTANTS
  Counts = {4, 7, 12}
  Grids <- MCGrids
  MaxMarkers = 3
  MaxSlots = 2
  Offsets <- MCOffsets
  OverviewSize = 4
  SampleCounts = {0, 3, 5, 8}
  SampleRates = {0, 200, 210, 430}
  Waves <- MCWaves
INVARIANTS
  EnginesAlike
  BlobsAreSound
  ExtentsFollow
PROPERTIES
  StaysProper
  BeatsStay
  EndsInPlace
  ReadsBack
  OverviewSettles
