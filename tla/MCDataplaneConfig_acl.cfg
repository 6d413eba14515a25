CONSTANTS
  r1 = r1
  r2 = r2
  r3 = r3
  s1 = s1
  s2 = s2
  p1 = p1
  p2 = p2
  b1 = b1
  b2 = b2
  o1 = o1
  Reqs = {r1}
  Replicas = {s1}
  Projects = {p1}
  Buckets = {b1}
  DefaultBucket = b1
  Others = {o1}
  Calls <- EnableCalls
  Assign = FALSE
  RoleIDConfigured = FALSE
  HasService = TRUE
  WriterKnown = TRUE
  Exposed = {}
  Disturbances = {"edit"}
CHECK_DEADLOCK FALSE
SPECIFICATION Spec
PROPERTIES
  KeepsEntries
