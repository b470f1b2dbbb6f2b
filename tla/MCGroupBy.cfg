\* All grouping functions on the calls they serve.
SPECIFICATION Spec
CONSTANTS
  MaxWord = 9
  Functions = {"distinct_linear", "group_by_count", "group_by_min_max_sel",
    "group_by_count_micro", "group_by_count_odd_even",
    "group_by_count_sel_odd_even", "group_by_min_max_sel_odd_even",
    "group_by_join", "group_by_sum_odd_even", "group_by_avg_odd_even",
    "distinct_batch"}
  Sizes = {2, 4, 8}
  Keys = {1, 2, 9}
  Values <- MCValues
  Rights <- MCRights
  Batches = {1, 3, 8}
  Accepts <- Served
INVARIANTS TypeOK ScanCarries RoundKeeps GroupsExact
