\* Four tasks in groups 1, 2, 2 and 4; two run at a time.
SPECIFICATION Spec
CONSTANTS
  env = env
  left = left
  right = right
  final = final
  Task = {env, left, right, final}
  NGroups = 4
  GroupOf <- MCGroupOf
  Slots = 2
  Coord = {c}
  Reason = {r, s}
  MaxErrors = 2
  Labelers = {final}
  CallerOwnsTempDir = FALSE
INVARIANTS
  InOrder
  ResultJustified
  UnknownsExact
  TempDirScoped
PROPERTIES
  Returns
CHECK_DEADLOCK FALSE
