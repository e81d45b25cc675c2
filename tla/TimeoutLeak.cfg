SPECIFICATION Spec
CONSTANTS
  None = None
  c1 = c1
  c2 = c2
  c3 = c3
  id1 = r1
  id2 = r2
  id3 = None
  Requests = {r1, r2}
  Clients = {c1, c2}
  IdOf <- MCIdOf
  NumInstances <- MCNumInstances
  Capacity <- MCCapacity
  Enc = 1
  Den = 1
  Dec = 1
  EncCap = 1
  DenCap = 1
  DecCap = 1
  NumSlots = 2
  NumPrealloc = 1
  PreallocSize = 1
  DataSizes = {1}
  Policy = "round_robin"
  Timeouts = TRUE
  Faults = {}
INVARIANTS
  SlotConservation
