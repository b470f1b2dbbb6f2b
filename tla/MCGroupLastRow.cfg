\* The scans with a selection, with any selection.
SPECIFICATION Spec
CONSTANTS
  MaxWord = 9
  Functions = {"distinct_linear", "group_by_count", "group_by_min_max_sel"}
  Sizes = {2, 3}
  Keys = {1, 2}
  Values <- MCValues
  Rights <- MCRights
  Batches = {1}
  Accepts <- AnyCall
INVARIANT LastRowMasked
