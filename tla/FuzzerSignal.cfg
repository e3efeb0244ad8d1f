SPECIFICATION Spec
CONSTANTS
  Workers = {"w1", "w2"}
  NumPrograms = 2
  MaxFailures = 1
  HandlerFirst = FALSE
INVARIANTS NoFalseBugs
