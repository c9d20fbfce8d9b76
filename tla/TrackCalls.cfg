SPECIFICATION Spec
CONSTANTS
  Sessions = {s1, s2}
  s1 = s1
  s2 = s2
  Generations = {1, 2, 3}
  Operations = {"loudness", "key", "size", "beatgrid", "waveform", "bpm", "create", "update", "remove"}
  Values = {0, 1}
  MaxId = 4
  MaxCalls = 2
INVARIANTS
  SizesAgree
  ColumnsAreSound
  OwnPerformanceData
PROPERTIES
  NoLostUpdate
  CallsEnd
