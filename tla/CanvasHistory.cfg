\* Three requests on two canvases that may show the same file; two entries per canvas are kept.
CONSTANTS
  Ids = {i1, i2}
  Snaps = {n}
  Edits = {e1, e2}
  Requests = {r1, r2, r3}
  MaxVersion = 2
  MaxEntries = 2
  MaxFaults = 1
SPECIFICATION Spec
INVARIANTS
  NamedIsThere
PROPERTIES
  NoUpdateLost
SYMMETRY Symmetry
CHECK_DEADLOCK FALSE
