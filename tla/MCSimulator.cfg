SPECIFICATION Spec
CONSTANTS
  Circuits <- MCCircuits
  Width = 3
  CyclesLimit = 30
  Loops = {"addi"}
  LoopSites = {"i", "index1", "step", "cond1", "inext1", "n2", "s1"}
  ExprSites = {"at", "cond3", "a3", "t", "sum","a1"}
  MaxBuffered = 2
INVARIANTS ResultRight Settled TokensStay
PROPERTIES Finishes
