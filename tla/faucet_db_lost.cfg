\* A failing call beside a successful one.
CONSTANTS
  s1 = s1
  o1 = o1
  o2 = o2
  o3 = o3
  v1 = v1
  v2 = v2
  a1 = a1
  k1 = k1
  Requests = {s1, o1}
  Workloads = {{s1, o1}}
  Wrong = Wrong
  kind <- MCKind
  email <- MCEmail
  MaxConcurrent = 2
  Failures = TRUE
SPECIFICATION DBSpec
INVARIANT SavedIsRecorded
CHECK_DEADLOCK FALSE
