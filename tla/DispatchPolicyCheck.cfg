SPECIFICATION Spec
CONSTANTS
  N = 3
  Capacity = 2
INVARIANTS
  LoopsImplementRelation
  BoundedOvertaking
