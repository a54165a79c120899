\* Three runs one after the other, all with the cache; the ELF is rebuilt at any
\* moment, also between the reads of one run; one run is killed at any step, one
\* write falls short, and one meta file does not come into place.
CONSTANTS
  Runs = {p1, p2, p3}
  Options = {o1, o2}
  MaxTime = 3
  MaxActive = 1
  MaxKills = 1
  MaxShort = 1
  MaxUnnoted = 1
  NoCacheFlag = {FALSE}
  None = None
  Cut = Cut
SYMMETRY Symmetry
SPECIFICATION Spec
INVARIANTS
  TypeOK
  MetaTells
PROPERTIES
  HitIsFresh
  HitNotForeign
