SPECIFICATION Spec
CONSTANTS
  d0 = d0
  d1 = d1
  Data <- MCData
  Zero = d0
  NoToken = NoToken
  NUM_SLOTS = 4
  DV_LATENCY = 3
  InitTokens <- MCInitTokens
INVARIANTS TypeOK RegistersAgree
PROPERTIES ImplementsElasticFifo AcceptsOffers DeliversTokens
