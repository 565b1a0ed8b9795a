SPECIFICATION Spec
CONSTANTS
  HeapSize = 26
  Header = 4
  Align = 2
  Modulus = 64
  Requests = {0, 1, 6, 20, 63}
INVARIANTS HeapExact Coalesced GivenExact
PROPERTY ImplementsAllocator
