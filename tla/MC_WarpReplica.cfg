\* Three lanes run every function with and without a vbranch.
CONSTANTS
  Cases <- Runnable
  LaneIds = {0, 1, 2}
  Size = 3
  XRegs = {5, 6, 7}
  VRegs = {0, 1, 2}
  SharedBase = 1
  GlobalBase = 2
  TopAddress = 4
SPECIFICATION Spec
INVARIANTS
  TypeOK
  ReplicasEqual
  OneLaneStores
  EndsAsWarp
