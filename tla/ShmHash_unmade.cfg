\* The code's four buckets and ten entries that all hash to the first: the
\* other three list heads were never made when the helper comes to them.
CONSTANTS
  Process <- One
  Key <- Eights
  InitialBuckets = 4
  MaxNodes = 10
  Preload <- AllInFirst
SPECIFICATION FairSpec
PROPERTIES ExtendReturns
CHECK_DEADLOCK FALSE
