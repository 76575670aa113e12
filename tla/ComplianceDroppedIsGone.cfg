SPECIFICATION ComplianceSpec
CONSTANTS
  NPkgs = 2
  Files = {f}
  MaxRels = 3
INVARIANTS
  DroppedIsGone
CHECK_DEADLOCK FALSE
