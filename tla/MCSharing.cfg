SPECIFICATION Spec
CONSTANTS
  d0 = d0
  d1 = d1
  Data <- MCData
  Zero = d0
  NoToken = NoToken
  GroupSize = 2
  Occupancy <- MCOccupancy
  latency = 2
INVARIANTS NoOverrun
PROPERTIES PrivateUnits Independent
