\* Every control-flow graph of four blocks with at most two successors each.
CONSTANTS
  N = 4
  MaxSuccs = 2
SPECIFICATION FairSpec
INVARIANTS
  TypeOK
  NeverTooSmall
  ExactAtEnd
PROPERTIES
  OnlyShrinks
  SweepsEnd
