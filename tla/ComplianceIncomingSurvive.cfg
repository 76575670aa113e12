SPECIFICATION ComplianceSpec
CONSTANTS
  NPkgs = 2
  Files = {f}
  MaxRels = 3
INVARIANTS
  IncomingSurvive
CHECK_DEADLOCK FALSE
