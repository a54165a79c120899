\* As MC_PtxCache without a fault, but some of the runs are given --no-cache.
CONSTANTS
  Runs = {p1, p2, p3}
  Options = {o1, o2}
  MaxTime = 3
  MaxActive = 1
  MaxKills = 0
  MaxShort = 0
  MaxUnnoted = 0
  NoCacheFlag = {TRUE, FALSE}
  None = None
  Cut = Cut
SYMMETRY Symmetry
SPECIFICATION Spec
PROPERTIES
  HitIsFresh
