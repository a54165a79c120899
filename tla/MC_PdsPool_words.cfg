\* Three blocks, three slots in two words of two bits: the last word is partial.
CONSTANTS
  b1 = b1
  b2 = b2
  b3 = b3
  t0 = t0
  t1 = t1
  NoBlock = NoBlock
  Blocks = {b1, b2, b3}
  Threads = {t0, t1}
  Leader = t0
  NumBlocks = 3
  WordBits = 2
  MaxResident = 3
  MaxLaunches = 1
  LaunchParams <- PoolLaunches
SPECIFICATION Spec
SYMMETRY Symmetry
INVARIANTS
  TypeOK
  SlotExclusive
  BitmapExact
  LastThreadReleases
