\* Three blocks for one slot: the losers spin. Two launches on the same pool,
\* each with any parameters, the unusable ones too. Two blocks resident at once.
CONSTANTS
  b1 = b1
  b2 = b2
  b3 = b3
  t0 = t0
  t1 = t1
  NoBlock = NoBlock
  Blocks = {b1, b2, b3}
  Threads = {t0, t1}
  Leader = t0
  NumBlocks = 1
  WordBits = 2
  MaxResident = 2
  MaxLaunches = 2
  LaunchParams <- AllLaunches
SPECIFICATION FairSpec
INVARIANTS
  TrapFindsPoolEmpty
PROPERTIES
  LaunchEnds
  ImplementsSlotPool
