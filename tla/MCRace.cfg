SPECIFICATION FairSpec
CONSTANTS
  Data = {0, 1, 2, 3}
  Zero = 0
  One = 1
  NoToken = NoToken
  NoInput = NoInput
  Inputs = {0, 1, 2}
  TokenValues = {0, 3}
  Flags = {1, 2}
  CandidateLists <- MCCandidateLists
INVARIANTS OneTokenARound Prompt AnswerStands
PROPERTIES KeepsRounds ServesInputs
