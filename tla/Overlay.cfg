SPECIFICATION Spec
CONSTANTS
    Names <- MCNames
    Handles = {h1}
    LowerTrees <- MCTrees
    Bytes = {3}
    MaxLength = 2
    MaxCalls = 3
INVARIANTS
  
  ListingIsLookup
