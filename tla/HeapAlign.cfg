SPECIFICATION AlignedSpec
CONSTANTS
  PEs = {p0}
  HeapSize = 80
  Sizes = {32}
  Alignments = {16}
  MaxCalls = 6
  MaxFaults = 0
INVARIANTS LiveDisjoint
