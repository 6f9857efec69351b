\* Two processes, one bucket that becomes two and four: no list head is used
\* before it is made, because the odd entry makes the second one.
CONSTANTS
  Process <- Two
  Key <- ThreeKeys
  InitialBuckets = 1
  MaxNodes = 6
  Preload <- OddPair
SPECIFICATION FairSpec
INVARIANTS TypeOK ListsPartition LookupExact
PROPERTIES ImplementsStore PointersStay ExtensionSettles
CHECK_DEADLOCK FALSE
