SPECIFICATION Spec
CONSTANTS
  Programs <- MCPrograms
  MaxWidth = 4
  Widths = {1, 2, 3}
  Ops = {"addi", "subi", "muli", "andi", "ori", "xori", "shrui", "shrsi", "select", "mux"}
  Preds = {"eq", "ne", "ult", "ule", "ugt", "uge", "slt", "sge"}
  Consts = {2, 14}
  Bounds = {0, 1, 2, 8, 15}
INVARIANTS Preserved Legal
PROPERTIES Converges
