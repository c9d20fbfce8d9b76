SPECIFICATION Spec
CONSTANTS
  Titles = {a, b, c}
  BadTitle = bad
  Flags = {TRUE, FALSE}
  MaxId = 4
  PlainIds = {2}
SYMMETRY TitleSymmetry
VIEW Table
INVARIANTS
  TypeOK
  Chains
  OnlyNamesClash
  PersistedUpwards
PROPERTIES
  ImplementsOrder
