\* Two lanes run every accepted function of four families: one vbranch, two
\* nested, one with regext prefixes around it, and loops. Registers hold one bit.
CONSTANTS
  Programs <- StructuredPrograms
  LaneIds = {0, 1}
  VRegs = {0, 1, 2, 32, 33}
  XRegs = {5}
  Inputs = {0}
  Values <- Digits
  LookBack = 12
  BundleRegext = TRUE
  RequireKnown = TRUE
SPECIFICATION Spec
INVARIANTS
  TypeOK
  BundlesExact
  ArmsRejoin
  BarriersTogether
PROPERTIES
  EdgesFollowed
