SPECIFICATION Spec
CONSTANTS
  PEs = {p0, p1}
  HeapSize = 80
  Sizes = {17, 48, 81}
  Alignments = {}
  MaxCalls = 4
  MaxFaults = 2
INVARIANTS TypeOK HeapPartitioned UsedIsHeld RemoteBlockLive
SYMMETRY Interchangeable
