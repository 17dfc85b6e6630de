\* Two runs, the second of an actor nobody bound, one lost webhook.
SPECIFICATION FairSpec
CONSTANTS
  r1 = r1
  b1 = b1
  Runs = {r1, r2}
  Bindings = {b1}
  NoBinding = NoBinding
  NoRun = NoRun
  BindingOf <- MCOneBound
  Size = 0
  Kind <- MCKind
  Workers = {w1}
  PageSize = 1
  ListLimit = 2
  MaxFaults = 1
PROPERTIES
  FinishedRunsAreImported
