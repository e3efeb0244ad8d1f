SPECIFICATION FairSpec
CONSTANTS
  d0 = d0
  d1 = d1
  Data <- MCData
  Zero = d0
  NoToken = NoToken
INVARIANTS TypeOK OwedIsInFlight
PROPERTIES ImplementsElasticFifo Answered
