SPECIFICATION Spec
CONSTANTS
  R = 2
  Data = {0, 1, 2, 3, 4}
  Zero = 0
  NoToken = NoToken
  Guards = {1, 2}
  Loading <- MCLoading
INVARIANTS StandInPrecondition NoDeadWord OneKillADecision DecisionRight
PROPERTIES DecisionHeld RoundsEnd
