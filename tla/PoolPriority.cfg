SPECIFICATION Spec
CONSTANTS
  Blocks = {b1, b2, b3, b4, b5}
  Reqs = {r1, r2}
  Prompts <- MCPrompts
  MaxLen = 3
  Window = 1
  LowPriority = TRUE
INVARIANTS
  PoolAccounted
  TargetIntact
  TargetLast
PROPERTIES
  NoStoreLeavesNoTrace
  ReleaseOrder
SYMMETRY MCSymmetry
