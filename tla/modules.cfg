CONSTANTS
  p1 = p1
  p2 = p2
  v1 = v1
  v2 = v2
  Procs = {p1, p2}
  Builds = {"request", "bio"}
  capacity = 2
  Values = {v1, v2}
  Capacities <- MCCapacities
SPECIFICATION AllSpec
INVARIANTS NothingLeftBehind SetUpInOrder RequestIntact GeometryCovers
