\* A call between the splat of its argument and the vbranch on its result.
CONSTANTS
  Programs <- Calls
  LaneIds = {0, 1}
  VRegs = {0, 1, 2, 32, 33}
  XRegs = {5}
  Inputs = {0}
  Values <- Digits
  LookBack = 12
  BundleRegext = TRUE
  RequireKnown = TRUE
SPECIFICATION Spec
INVARIANTS
  BarrierOnlyConverged
