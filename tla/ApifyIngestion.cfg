\* One bound run, two import workers, three items in pages of two, two faults:
\* imports of the run overlap, die and are retried, statuses are overtaken.
SPECIFICATION FairSpec
CONSTANTS
  r1 = r1
  b1 = b1
  Runs = {r1}
  Bindings = {b1}
  NoBinding = NoBinding
  NoRun = NoRun
  BindingOf <- MCAllBound
  Size = 3
  Kind <- MCKind
  Workers = {w1, w2}
  PageSize = 2
  ListLimit = 1
  MaxFaults = 2
INVARIANTS
  TypeOK
  ImportedIsComplete
  CountersMatch
  
PROPERTIES
  ItemsSettleOnce
  
