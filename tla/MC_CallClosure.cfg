\* Every call graph of four addresses, two distinct callees each, of every kind.
CONSTANTS
  N = 4
  Entry = 2
  MaxCalls = 2
SPECIFICATION FairSpec
INVARIANTS
  TypeOK
  ClosureExact
  CallsNamed
  RecursionExact
PROPERTIES
  Ends
