SPECIFICATION Spec
CONSTANTS
  W = 8
  E = 3
  LogWarp = 1
  SharedBase = 64
  GlobalBase = 128
  XRegs = {0, 1, 2, 3, 4, 5, 6, 7, 8, 10, 40, 255}
  VRegs = {0, 1, 2, 3, 35}
  Symbols <- MCSymbols
  Progs <- MCProgs
  Callee <- MCCallee
  Values <- MCValues
  Launches <- MCLaunches
  Device <- Device1
INVARIANTS
  TypeOK
  EffectsDefined
  ScalarsMatch
  VectorsMatch
  MemoryMatches
  ControlMatches
  ContextKept
  EntryMatches
