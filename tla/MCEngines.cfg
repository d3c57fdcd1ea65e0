SPECIFICATION EnginesSpec
CONSTANTS
  c1 = c1
  c2 = c2
  c3 = c3
  c4 = c4
  c5 = c5
  p1 = p1
  p2 = p2
  p3 = p3
  p4 = p4
  p5 = p5
  p6 = p6
  None = None
  Rules <- MCRules
  Inputs <- MCInputs
INVARIANTS
  ChargeTold
  RetentionConserves
  PreviewTold
  ScoresTold
  TextsTold
PROPERTIES
  BuryingNeverRaisesCharge
CHECK_DEADLOCK FALSE
