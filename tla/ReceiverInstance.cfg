SPECIFICATION FairSpec
CONSTANTS
  Requests = {r1, r2, r3}
  PreSlots = {p1}
  PoolSlots = {s1}
  QueueSize = 1
  MaxErrors = 2
  Others = {1}
  FailAlone = {0}
  MaxWork = 3
  MaxAhead = 1
INVARIANTS
  TypeOK
  ComputedOnOwnData
  BlocksAccountedFor
  RanksInStep
  StepInv
  OwnDataInv
CHECK_DEADLOCK FALSE
PROPERTIES
  AnsweredUnlessRaised
  ForwardCompletes
