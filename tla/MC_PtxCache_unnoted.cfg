\* As MC_PtxCache, with no other fault than one meta file that does not come into
\* place.
CONSTANTS
  Runs = {p1, p2, p3}
  Options = {o1, o2}
  MaxTime = 3
  MaxActive = 1
  MaxKills = 0
  MaxShort = 0
  MaxUnnoted = 1
  NoCacheFlag = {FALSE}
  None = None
  Cut = Cut
SYMMETRY Symmetry
SPECIFICATION Spec
PROPERTIES
  HitAlwaysFresh
