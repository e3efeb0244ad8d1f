SPECIFICATION Spec
CONSTANTS
  b1 = b1
  b2 = b2
  Blocks <- MCBlocks
  Ports <- MCPorts
  StoresOf <- MCStoresOf
  CounterBits = 4
  MaxVisits = 3
  MaxLag = 1
INVARIANTS EndIsLast RemainingExact
PROPERTIES EndStays RunsEnd
