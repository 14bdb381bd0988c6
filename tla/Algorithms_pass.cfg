CONSTANTS
  Bits = 5
  Operand <- operands
  Equation <- equations
  Problem <- problems
  System <- systems
  Fixing <- questions
  Top = 3
  Parts <- fractions
  Polyhedron <- polyhedra
  Reach <- reach
  Halves <- halves
  Pairs <- pairs
  Rows <- scheduleRows
  Offsets <- shifts
  Values <- values
  Slack <- slack
  Questions <- nestQuestions
  Steps <- steps
  LastNode = 3
  Graphs <- GraphsMC
  Portions <- PortionsMC
SPECIFICATION Spec
INVARIANTS
  NumbersExact
  FormReached
  TableauSolves
  PointsKept
  DirectionTruthful
  SatisfiedUpToConstant
  EmptySatSeparates
  ZeroExtraTruthful
  NestKeepsPoints
  TypeOK
  StackHoldsCalls
  ComponentsWithinSCC
  OrderedAcrossSCCs
PROPERTIES
  NeverCycles
  Finishes
CHECK_DEADLOCK FALSE
