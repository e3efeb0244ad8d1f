SPECIFICATION Spec
CONSTANTS
  Workers = {"w1", "w2"}
  NumPrograms = 2
  MaxFailures = 1
  HandlerFirst = TRUE
INVARIANTS ReproducersKept NoFalseBugs ExactCount
PROPERTIES ReportAdvances Terminates
