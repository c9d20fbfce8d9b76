SPECIFICATION Spec
CONSTANTS
  Processes = {s1}
  s1 = s1
  Calls <- Creation1
  MaxCalls = 1
INVARIANTS
  ExistingRefuses
