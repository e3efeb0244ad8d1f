SPECIFICATION Spec
CONSTANTS
  Programs <- MCPrograms
  MaxWidth = 4
  Widths = {1, 2, 3}
  Ops = {}
  Preds = {"ult"}
  Consts = {2, 14}
  Bounds = {5}
INVARIANTS Preserved
